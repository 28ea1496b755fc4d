------------------------- MODULE TelegramLoginProofs -------------------------
(***************************************************************************)
(* Proofs about the Telegram login, for any number of requests, login      *)
(* sessions, phones, passphrases, restarts and expiries.                   *)
(***************************************************************************)
EXTENDS TelegramLogin, TLAPS

PcValue == {"idle", "start", "sign_in", "need_password", "delete", "secret", "salt",
            "account", "session", "status"}

Entry == [pc : PcValue, session : Sessions \cup {None}, phone : Phones \cup {None},
          code : Sessions \cup {None}, step : {"code_sent", "password_required", None},
          passphrase : Passphrases \cup {None}, key : Key \cup {None}]

Types ==
  /\ TypeOK
  /\ req \in [Requests -> Entry]

\* What keeps the ciphertexts together: a request that has read the secret holds
\* the one in memory, its key is made with the stored salt, and the accounts that
\* are stored were encrypted with both.  While accounts are stored the secret
\* can be forgotten and not be replaced.
KeyInv ==
  /\ \A r \in Requests :
       /\ req[r].pc \in {"sign_in", "secret", "salt", "account", "session"} =>
            secret \in Passphrases
       /\ req[r].pc \in {"salt", "account", "session"} => req[r].passphrase = secret
       /\ req[r].pc \in {"account", "session"} =>
            req[r].key = [passphrase |-> secret, salt |-> salt] /\ salt \in Requests
  /\ \A p \in DOMAIN accounts :
       /\ salt \in Requests
       /\ secret \in Passphrases => accounts[p].hash = [passphrase |-> secret, salt |-> salt]
  /\ EverythingDecrypts

\* What ties a request to its login session: the id of a session that is still
\* to be created is used by nobody else, and a session keeps its phone.
SessionInv ==
  /\ \A r \in Requests :
       /\ req[r].pc # "idle" => req[r].session \in issued
       /\ req[r].pc = "start" =>
            /\ req[r].session \notin DOMAIN sessions
            /\ \A q \in Requests \ {r} :
                 req[q].pc # "idle" => req[q].session # req[r].session
       /\ req[r].pc \notin {"idle", "start"} /\ req[r].session \in DOMAIN sessions =>
            sessions[req[r].session].phone = req[r].phone

\* What a request has stored before it reports success.
StoredInv ==
  /\ \A r \in Requests :
       /\ req[r].pc = "session" => req[r].phone \in DOMAIN accounts
       /\ req[r].pc = "status" =>
            req[r].phone \in DOMAIN accounts /\ accounts[req[r].phone].session # None
  /\ AuthenticatedIsPersisted

Inv == Types /\ KeyInv /\ SessionInv /\ StoredInv

-----------------------------------------------------------------------------
\* Every step of a request, of the user or of the environment keeps the types.
LEMMA TypesStep ==
  ASSUME Inv, Next
  PROVE  Types'
<1> USE LoginAssumption, NoneAssumption DEF Inv, Types, TypeOK, Entry, PcValue, Goto, Answer
<1>1. ASSUME NEW r \in Requests, NEW s \in Sessions, NEW p \in Phones, SendLoginCode(r, s, p)
      PROVE  Types'
  BY <1>1 DEF SendLoginCode, Idle
<1>2. ASSUME NEW r \in Requests, CreateSession(r) PROVE Types'
  <2> DEFINE s == req[r].session
             row == [phone |-> req[r].phone, status |-> "code_sent",
                     expired |-> FALSE, telegram |-> FALSE]
  <2>1. row \in Row /\ s \in issued
    BY <1>2 DEF CreateSession, Row, Status, SessionInv
  <2>2. sessions' = [t \in DOMAIN sessions \cup {s} |-> IF t # s THEN sessions[t] ELSE row]
    BY <1>2 DEF CreateSession
  <2> HIDE DEF row
  <2>3. sessions' \in [DOMAIN sessions' -> Row] /\ DOMAIN sessions' \subseteq issued
    BY <2>1, <2>2
  <2> QED
    BY <1>2, <2>3 DEF CreateSession, Idle
<1>3. ASSUME NEW r \in Requests, NEW s \in Sessions,
             NEW step \in {"code_sent", "password_required"}, NEW c \in Sessions \cup {None},
             Fetch(r, s, step, c)
      PROVE  Types'
  <2>1. CASE UNCHANGED <<sessions, req>>
    BY <1>3, <2>1 DEF Fetch
  <2>2. CASE sessions' = Without(s) /\ UNCHANGED req
    BY <1>3, <2>2 DEF Fetch, Without
  <2>3. CASE s \in DOMAIN sessions /\ Begin(r, s, step, c) /\ UNCHANGED sessions
    <3>1. sessions[s].phone \in Phones
      BY <2>3 DEF Row
    <3> QED
      BY <1>3, <2>3, <3>1 DEF Fetch, Begin, Idle
  <2> QED
    BY <1>3, <2>1, <2>2, <2>3 DEF Fetch
<1>4. ASSUME NEW r \in Requests, SignInWithCode(r) \/ SignInWithPassword(r) PROVE Types'
  BY SMTT(30), <1>4 DEF SignInWithCode, SignInWithPassword, SignedIn, Idle
<1>5. ASSUME NEW r \in Requests, NEW status \in Status, NEW telegram \in BOOLEAN,
             UpdateStatus(r, status, telegram)
      PROVE  Types'
  BY <1>5 DEF UpdateStatus, Without, Idle, Row
<1>6. ASSUME NEW r \in Requests, DeleteSession(r) PROVE Types'
  BY <1>6 DEF DeleteSession, Without, Idle
<1>7. ASSUME NEW r \in Requests, ReadSecret(r) PROVE Types'
  <2> DEFINE key == [passphrase |-> secret, salt |-> salt]
  <2>1. secret \in Passphrases
    BY <1>7 DEF ReadSecret, KeyInv
  <2>2. salt # None => key \in Key
    BY <2>1 DEF Key
  <2>3. req' = [req EXCEPT ![r].pc = IF salt = None THEN "salt" ELSE "account",
                           ![r].passphrase = secret,
                           ![r].key = IF salt = None THEN None ELSE key]
    BY <1>7 DEF ReadSecret
  <2> HIDE DEF key
  <2>4. req' \in [Requests -> Entry]
    <3> DEFINE to == IF salt = None THEN "salt" ELSE "account"
               k  == IF salt = None THEN None ELSE key
    <3>1. to \in PcValue /\ k \in Key \cup {None}
      BY <2>2
    <3>2. req' = [req EXCEPT ![r] = [req[r] EXCEPT !.pc = to, !.passphrase = secret, !.key = k]]
      BY <2>3
    <3> HIDE DEF to, k, PcValue
    <3>3. req[r] \in Entry
      OBVIOUS
    <3>4. [req[r] EXCEPT !.pc = to, !.passphrase = secret, !.key = k] \in Entry
      BY ONLY <2>1, <3>1, <3>3 DEF Entry
    <3> QED
      BY <3>2, <3>4
  <2> QED
    <3>1. UNCHANGED <<sessions, accounts, salt, secret, busy, code, issued, restarts, expiries>>
      BY <1>7 DEF ReadSecret
    <3>2. /\ req'[r].pc = "salt" \/ (req'[r].pc = "account" /\ req'[r].key \in Key /\ salt # None)
          /\ req'[r].session = req[r].session /\ req'[r].phone = req[r].phone
          /\ req[r].pc # "idle" /\ \A q \in Requests \ {r} : req'[q] = req[q]
      BY <1>7, <2>2, <2>3 DEF ReadSecret
    <3> HIDE DEF Entry
    <3> QED
      BY <2>4, <3>1, <3>2
<1>8. ASSUME NEW r \in Requests, CreateSalt(r) PROVE Types'
  <2> DEFINE key == [passphrase |-> req[r].passphrase, salt |-> salt']
  <2>1. req[r].passphrase \in Passphrases
    BY <1>8 DEF CreateSalt, KeyInv
  <2>2. salt' \in Requests
    BY <1>8 DEF CreateSalt
  <2>3. key \in Key
    BY <2>1, <2>2 DEF Key
  <2>4. req' = [req EXCEPT ![r].pc = "account", ![r].key = key]
    BY <1>8 DEF CreateSalt
  <2> HIDE DEF key
  <2>5. req' \in [Requests -> Entry]
    <3>1. req' = [req EXCEPT ![r] = [req[r] EXCEPT !.pc = "account", !.key = key]]
      BY <2>4
    <3>2. req[r] \in Entry
      OBVIOUS
    <3>3. [req[r] EXCEPT !.pc = "account", !.key = key] \in Entry
      BY ONLY <2>3, <3>2 DEF Entry, PcValue
    <3> QED
      BY <3>1, <3>3
  <2> QED
    BY <1>8, <2>2, <2>3, <2>4, <2>5 DEF CreateSalt
<1>9. ASSUME NEW r \in Requests, PersistAccount(r) PROVE Types'
  BY <1>9 DEF PersistAccount
<1>10. ASSUME NEW r \in Requests, PersistSession(r) PROVE Types'
  <2>1. req[r].phone \in DOMAIN accounts /\ req[r].key \in Key
    BY <1>10 DEF PersistSession, StoredInv
  <2>2. DOMAIN accounts' = DOMAIN accounts
        /\ accounts' \in [DOMAIN accounts -> [hash : Key, session : Key \cup {None}]]
    BY <1>10, <2>1 DEF PersistSession
  <2> QED
    BY SMTT(30), <1>10, <2>2 DEF PersistSession
<1>11. ASSUME NEW p \in Passphrases, SetupUnlock(p) PROVE Types'
  BY <1>11 DEF SetupUnlock
<1>12. ASSUME NEW s \in Sessions, Expire(s) PROVE Types'
  <2>1. DOMAIN sessions' = DOMAIN sessions /\ sessions' \in [DOMAIN sessions -> Row]
    <3>1. sessions' = [sessions EXCEPT ![s] = [sessions[s] EXCEPT !.expired = TRUE]]
      BY <1>12 DEF Expire
    <3>2. sessions[s] \in Row
      BY <1>12 DEF Expire
    <3>3. [sessions[s] EXCEPT !.expired = TRUE] \in Row
      BY ONLY <3>2 DEF Row
    <3> QED
      BY <3>1, <3>3
  <2> QED
    BY <1>12, <2>1 DEF Expire
<1>13. ASSUME NEW p \in Phones, CodeTimesOut(p) PROVE Types'
  BY <1>13 DEF CodeTimesOut
<1>14. CASE Restart
  BY <1>14 DEF Restart, Idle
<1>15. ASSUME NEW s \in Sessions PROVE Typed(s) \subseteq Sessions \cup {None}
  BY DEF Typed, Row
<1> QED
  BY <1>1, <1>2, <1>3, <1>4, <1>5, <1>6, <1>7, <1>8, <1>9, <1>10, <1>11, <1>12, <1>13,
     <1>14, <1>15
  DEF Next, Request, Start, Verify, SetupStartAuth, SetupVerifyCode, SetupVerifyPassword,
      PersistAuthenticated, Finish, NeedPassword, Status

\* Every step keeps the ciphertexts together.
LEMMA KeyStep ==
  ASSUME Inv, Next
  PROVE  KeyInv'
<1> USE NoneAssumption DEF Inv, Types, KeyInv, Entry, Goto, Answer
\* A request that neither reads the secret nor stores anything.
<1>1. ASSUME UNCHANGED <<accounts, salt, secret>>, NEW r \in Requests,
             \A q \in Requests \ {r} : req'[q] = req[q],
             \/ req'[r] = req[r]
             \/ req'[r].pc \notin {"sign_in", "secret", "salt", "account", "session"}
             \/ req'[r].pc \in {"sign_in", "secret"} /\ secret \in Passphrases
      PROVE  KeyInv'
  BY <1>1 DEF EverythingDecrypts
<1>2. ASSUME NEW r \in Requests, NEW s \in Sessions, NEW p \in Phones, SendLoginCode(r, s, p)
      PROVE  KeyInv'
  BY <1>1, <1>2 DEF SendLoginCode, Idle
<1>3. ASSUME NEW r \in Requests,
             \/ CreateSession(r) \/ DeleteSession(r)
             \/ \E status, telegram : UpdateStatus(r, status, telegram)
      PROVE  KeyInv'
  <2>1. UNCHANGED <<accounts, salt, secret>> /\ req' = [req EXCEPT ![r] = Idle]
    BY <1>3 DEF CreateSession, DeleteSession, UpdateStatus
  <2> QED
    BY <1>1, <2>1 DEF Idle
<1>4. ASSUME NEW r \in Requests, NEW s, NEW step, NEW c, Fetch(r, s, step, c)
      PROVE  KeyInv'
  <2>1. CASE UNCHANGED req
    BY <1>1, <1>4, <2>1 DEF Fetch
  <2>2. CASE Begin(r, s, step, c) /\ Unlocked
    BY <1>1, <1>4, <2>2 DEF Fetch, Begin, Unlocked, Idle, TypeOK
  <2> QED
    BY <1>4, <2>1, <2>2 DEF Fetch, Ready
<1>5. ASSUME NEW r \in Requests, SignInWithCode(r) \/ SignInWithPassword(r) PROVE KeyInv'
  BY <1>1, <1>5 DEF SignInWithCode, SignInWithPassword, SignedIn, Idle
<1>6. ASSUME NEW r \in Requests, ReadSecret(r) PROVE KeyInv'
  BY <1>6 DEF ReadSecret, EverythingDecrypts, TypeOK
<1>7. ASSUME NEW r \in Requests, CreateSalt(r) PROVE KeyInv'
  BY <1>7 DEF CreateSalt, EverythingDecrypts, TypeOK
<1>8. ASSUME NEW r \in Requests, PersistAccount(r) PROVE KeyInv'
  <2> DEFINE p == req[r].phone
             k == [passphrase |-> secret, salt |-> salt]
  <2>1. req[r].key = k /\ secret \in Passphrases /\ salt \in Requests
    BY <1>8 DEF PersistAccount
  <2>2. \A q \in DOMAIN accounts : accounts[q].hash = k /\ accounts[q].session \in {None, k}
    BY <2>1 DEF EverythingDecrypts
  <2>3. /\ DOMAIN accounts' = DOMAIN accounts \cup {p}
        /\ \A q \in DOMAIN accounts' : q # p => accounts'[q] = accounts[q]
        /\ accounts'[p].hash = k
        /\ accounts'[p].session = IF p \in DOMAIN accounts THEN accounts[p].session ELSE None
    BY <1>8, <2>1 DEF PersistAccount
  <2>4. \A q \in DOMAIN accounts' :
          accounts'[q].hash = k /\ accounts'[q].session \in {None, k}
    BY <2>2, <2>3
  <2>5. UNCHANGED <<salt, secret>> /\ req' = [req EXCEPT ![r].pc = "session"]
    BY <1>8 DEF PersistAccount
  <2>6. EverythingDecrypts'
    BY <2>4, <2>5 DEF EverythingDecrypts
  <2> HIDE DEF k
  <2>7. ASSUME NEW q \in DOMAIN accounts' PROVE accounts'[q].hash = [passphrase |-> secret, salt |-> salt]'
    BY <2>4, <2>5 DEF k
  <2> QED
    BY <1>8, <2>1, <2>5, <2>6, <2>7 DEF PersistAccount
<1>9. ASSUME NEW r \in Requests, PersistSession(r) PROVE KeyInv'
  BY <1>9 DEF PersistSession, EverythingDecrypts, TypeOK, StoredInv
<1>10. ASSUME NEW p \in Passphrases, SetupUnlock(p) PROVE KeyInv'
  BY <1>10 DEF SetupUnlock, HasPersistedAccount, Unlocked, EverythingDecrypts, TypeOK
<1>11. CASE UNCHANGED <<accounts, salt, secret, req>>
  BY <1>11 DEF EverythingDecrypts
<1>12. CASE Restart
  BY <1>12 DEF Restart, Idle, EverythingDecrypts
<1> QED
  BY <1>2, <1>3, <1>4, <1>5, <1>6, <1>7, <1>8, <1>9, <1>10, <1>11, <1>12
  DEF Next, Request, Start, Verify, SetupStartAuth, SetupVerifyCode, SetupVerifyPassword,
      PersistAuthenticated, Finish, NeedPassword, Expire, CodeTimesOut

\* Every step keeps requests tied to their login sessions.
LEMMA SessionStep ==
  ASSUME Inv, Next
  PROVE  SessionInv'
<1> USE DEF Inv, Types, SessionInv, Entry, Goto, Answer
\* A request goes on with the same session, or ends; rows keep their phone.
<1>1. ASSUME UNCHANGED issued, NEW r \in Requests,
             \A q \in Requests \ {r} : req'[q] = req[q],
             \/ req'[r] = req[r] \/ req'[r].pc = "idle"
             \/ /\ req[r].pc \notin {"idle", "start"} /\ req'[r].pc # "start"
                /\ req'[r].session = req[r].session /\ req'[r].phone = req[r].phone,
             DOMAIN sessions' \subseteq DOMAIN sessions,
             \A s \in DOMAIN sessions' : sessions'[s].phone = sessions[s].phone
      PROVE  SessionInv'
  BY <1>1
<1>2. ASSUME NEW r \in Requests, NEW s \in Sessions, NEW p \in Phones, SendLoginCode(r, s, p)
      PROVE  SessionInv'
  BY <1>2 DEF SendLoginCode, Idle, TypeOK
<1>3. ASSUME NEW r \in Requests, CreateSession(r) PROVE SessionInv'
  <2>1. req' = [req EXCEPT ![r] = Idle] /\ UNCHANGED issued
    BY <1>3 DEF CreateSession
  <2>2. /\ DOMAIN sessions' = DOMAIN sessions \cup {req[r].session}
        /\ \A s \in DOMAIN sessions : s # req[r].session => sessions'[s] = sessions[s]
    BY <1>3 DEF CreateSession
  <2>3. /\ req[r].pc = "start" /\ sessions'[req[r].session].phone = req[r].phone
        /\ req'[r].pc = "idle" /\ \A q \in Requests \ {r} : req'[q] = req[q]
    BY <1>3, <2>1 DEF CreateSession, Idle
  <2>4. \A q \in Requests \ {r} : req[q].pc # "idle" => req[q].session # req[r].session
    BY <2>3
  <2> QED
    BY <2>1, <2>2, <2>3, <2>4
<1>4. ASSUME NEW r \in Requests, NEW s, NEW step, NEW c, Fetch(r, s, step, c)
      PROVE  SessionInv'
  <2>1. CASE UNCHANGED req /\ (UNCHANGED sessions \/ sessions' = Without(s))
    BY <1>1, <1>4, <2>1 DEF Fetch, Without
  <2>2. CASE s \in DOMAIN sessions /\ Begin(r, s, step, c) /\ UNCHANGED sessions
    <3>1. /\ req'[r].pc = "sign_in" /\ req'[r].session = s
          /\ req'[r].phone = sessions[s].phone
          /\ \A q \in Requests \ {r} : req'[q] = req[q]
      BY <2>2 DEF Begin, Idle
    <3> QED
      BY <1>4, <2>2, <3>1 DEF Fetch, TypeOK
  <2> QED
    BY <1>4, <2>1, <2>2 DEF Fetch
<1>5. ASSUME NEW r \in Requests, SignInWithCode(r) \/ SignInWithPassword(r)
      PROVE  SessionInv'
  BY SMTT(30), <1>1, <1>5 DEF SignInWithCode, SignInWithPassword, SignedIn, Idle
<1>6. ASSUME NEW r \in Requests, NEW status, NEW telegram, UpdateStatus(r, status, telegram)
      PROVE  SessionInv'
  <2>1. req' = [req EXCEPT ![r] = Idle] /\ UNCHANGED issued
    BY <1>6 DEF UpdateStatus
  <2>2. DOMAIN sessions' \subseteq DOMAIN sessions
        /\ \A s \in DOMAIN sessions' : sessions'[s].phone = sessions[s].phone
    BY <1>6 DEF UpdateStatus, Without, TypeOK, Row
  <2> QED
    BY <1>1, <2>1, <2>2 DEF Idle
<1>7. ASSUME NEW r \in Requests, DeleteSession(r) PROVE SessionInv'
  BY <1>1, <1>7 DEF DeleteSession, Without, Idle
<1>8. ASSUME NEW r \in Requests, ReadSecret(r) PROVE SessionInv'
  <2>1. /\ req'[r].pc # "start" /\ req[r].pc \notin {"idle", "start"}
        /\ req'[r].session = req[r].session /\ req'[r].phone = req[r].phone
        /\ \A q \in Requests \ {r} : req'[q] = req[q]
    BY <1>8 DEF ReadSecret
  <2>2. UNCHANGED <<sessions, issued>>
    BY <1>8 DEF ReadSecret
  <2> QED
    BY <1>1, <2>1, <2>2
<1>9. ASSUME NEW r \in Requests, CreateSalt(r) PROVE SessionInv'
  BY <1>1, <1>9 DEF CreateSalt
<1>10. ASSUME NEW r \in Requests, PersistAccount(r) \/ PersistSession(r) PROVE SessionInv'
  BY <1>1, <1>10 DEF PersistAccount, PersistSession
<1>11. ASSUME NEW s \in Sessions, Expire(s) PROVE SessionInv'
  BY <1>11 DEF Expire, TypeOK, Row
<1>12. CASE UNCHANGED <<sessions, req, issued>>
  BY <1>12
<1>13. CASE Restart
  BY <1>13 DEF Restart, Idle
<1> QED
  BY <1>2, <1>3, <1>4, <1>5, <1>6, <1>7, <1>8, <1>9, <1>10, <1>11, <1>12, <1>13
  DEF Next, Request, Start, Verify, SetupStartAuth, SetupVerifyCode, SetupVerifyPassword,
      PersistAuthenticated, Finish, NeedPassword, SetupUnlock, CodeTimesOut

\* Nothing that was stored is lost, and success is reported after it is stored.
LEMMA StoredStep ==
  ASSUME Inv, Next
  PROVE  StoredInv'
<1> USE NoneAssumption DEF Inv, Types, StoredInv, Entry, Goto, Answer, AuthenticatedIsPersisted
\* Accounts and sessions stay, and so do rows, but for changes of their status.
<1>1. ASSUME \A p \in DOMAIN accounts :
               /\ p \in DOMAIN accounts'
               /\ accounts[p].session # None => accounts'[p].session # None,
             NEW r \in Requests,
             \A q \in Requests \ {r} : req'[q] = req[q],
             \/ req'[r] = req[r] \/ req'[r].pc \notin {"session", "status"},
             DOMAIN sessions' \subseteq DOMAIN sessions,
             \A s \in DOMAIN sessions' :
               /\ sessions'[s].phone = sessions[s].phone
               /\ sessions'[s].status \in {sessions[s].status, "password_required"}
      PROVE  StoredInv'
  BY <1>1
<1>2. ASSUME NEW r \in Requests, NEW s \in Sessions, NEW p \in Phones, SendLoginCode(r, s, p)
      PROVE  StoredInv'
  BY <1>1, <1>2 DEF SendLoginCode, Idle
<1>3. ASSUME NEW r \in Requests, CreateSession(r) PROVE StoredInv'
  <2>1. req' = [req EXCEPT ![r] = Idle] /\ UNCHANGED accounts
    BY <1>3 DEF CreateSession
  <2>2. /\ DOMAIN sessions' = DOMAIN sessions \cup {req[r].session}
        /\ \A s \in DOMAIN sessions : s # req[r].session => sessions'[s] = sessions[s]
        /\ sessions'[req[r].session].status = "code_sent"
    BY <1>3 DEF CreateSession
  <2> QED
    BY <2>1, <2>2 DEF Idle
<1>4. ASSUME NEW r \in Requests, NEW s, NEW step, NEW c, Fetch(r, s, step, c)
      PROVE  StoredInv'
  <2>1. CASE UNCHANGED req /\ (UNCHANGED sessions \/ sessions' = Without(s))
    BY <1>1, <1>4, <2>1 DEF Fetch, Without
  <2>2. CASE Begin(r, s, step, c) /\ UNCHANGED sessions
    BY <1>1, <1>4, <2>2 DEF Fetch, Begin, Idle
  <2> QED
    BY <1>4, <2>1, <2>2 DEF Fetch
<1>5. ASSUME NEW r \in Requests, SignInWithCode(r) \/ SignInWithPassword(r)
      PROVE  StoredInv'
  BY <1>1, <1>5 DEF SignInWithCode, SignInWithPassword, SignedIn, Idle
<1>6. ASSUME NEW r \in Requests, NeedPassword(r) PROVE StoredInv'
  <2>1. req' = [req EXCEPT ![r] = Idle] /\ UNCHANGED accounts
    BY <1>6 DEF NeedPassword, UpdateStatus
  <2>2. DOMAIN sessions' \subseteq DOMAIN sessions
        /\ \A s \in DOMAIN sessions' :
             /\ sessions'[s].phone = sessions[s].phone
             /\ sessions'[s].status \in {sessions[s].status, "password_required"}
    BY <1>6 DEF NeedPassword, UpdateStatus, Without, TypeOK, Row
  <2> QED
    BY <1>1, <2>1, <2>2 DEF Idle
<1>7. ASSUME NEW r \in Requests, Finish(r) PROVE StoredInv'
  <2> DEFINE t == req[r].session
  <2>1. req' = [req EXCEPT ![r] = Idle] /\ UNCHANGED accounts
    BY <1>7 DEF Finish, UpdateStatus
  <2>2. DOMAIN sessions' \subseteq DOMAIN sessions
        /\ \A s \in DOMAIN sessions' :
             /\ sessions'[s].phone = sessions[s].phone
             /\ s = t \/ sessions'[s].status = sessions[s].status
    BY <1>7 DEF Finish, UpdateStatus, Without, TypeOK, Row
  <2>3. t \in DOMAIN sessions' =>
          /\ sessions'[t].phone \in DOMAIN accounts
          /\ accounts[sessions'[t].phone].session # None
    BY <1>7, <2>2 DEF Finish, SessionInv
  <2> QED
    BY <2>1, <2>2, <2>3 DEF Idle
<1>8. ASSUME NEW r \in Requests, DeleteSession(r) PROVE StoredInv'
  BY <1>1, <1>8 DEF DeleteSession, Without, Idle
<1>9. ASSUME NEW r \in Requests, ReadSecret(r) PROVE StoredInv'
  BY SMTT(30), <1>1, <1>9 DEF ReadSecret
<1>10. ASSUME NEW r \in Requests, CreateSalt(r) PROVE StoredInv'
  BY <1>1, <1>10 DEF CreateSalt
<1>11. ASSUME NEW r \in Requests, PersistAccount(r) PROVE StoredInv'
  <2> DEFINE p == req[r].phone
  <2>1. /\ DOMAIN accounts' = DOMAIN accounts \cup {p}
        /\ \A q \in DOMAIN accounts : accounts'[q].session = accounts[q].session
    BY <1>11 DEF PersistAccount, TypeOK
  <2>2. /\ \A q \in Requests \ {r} : req'[q] = req[q]
        /\ req'[r].pc = "session" /\ req'[r].phone = p /\ UNCHANGED sessions
    BY <1>11 DEF PersistAccount
  <2> QED
    BY <2>1, <2>2
<1>12. ASSUME NEW r \in Requests, PersistSession(r) PROVE StoredInv'
  <2> DEFINE p == req[r].phone
  <2>1. p \in DOMAIN accounts /\ req[r].key # None
    BY <1>12 DEF PersistSession, TypeOK
  <2>2. /\ DOMAIN accounts' = DOMAIN accounts
        /\ accounts'[p].session # None
        /\ \A q \in DOMAIN accounts : q # p => accounts'[q] = accounts[q]
    BY <1>12, <2>1 DEF PersistSession, TypeOK
  <2>3. /\ \A q \in Requests \ {r} : req'[q] = req[q]
        /\ req'[r].pc = "status" /\ req'[r].phone = p /\ UNCHANGED sessions
    BY <1>12 DEF PersistSession
  <2> QED
    BY <2>1, <2>2, <2>3
<1>13. ASSUME NEW s \in Sessions, Expire(s) PROVE StoredInv'
  BY <1>13 DEF Expire, TypeOK, Row
<1>14. CASE UNCHANGED <<sessions, req, accounts>>
  BY <1>14
<1>15. CASE Restart
  BY <1>15 DEF Restart, Idle
<1> QED
  BY <1>2, <1>3, <1>4, <1>5, <1>6, <1>7, <1>8, <1>9, <1>10, <1>11, <1>12, <1>13, <1>14, <1>15
  DEF Next, Request, Start, Verify, SetupStartAuth, SetupVerifyCode, SetupVerifyPassword,
      PersistAuthenticated, SetupUnlock, CodeTimesOut

-----------------------------------------------------------------------------
\* The login keeps its invariant, whichever requests are under way.
THEOREM Invariance == Spec => []Inv
<1>1. Init => Inv
  BY LoginAssumption, NoneAssumption
  DEF Init, Inv, Types, TypeOK, KeyInv, SessionInv, StoredInv, Entry, PcValue, Idle,
      EverythingDecrypts, AuthenticatedIsPersisted
<1>2. Inv /\ [Next]_vars => Inv'
  <2>1. ASSUME Inv, Next PROVE Inv'
    BY <2>1, TypesStep, KeyStep, SessionStep, StoredStep DEF Inv
  <2>2. ASSUME Inv, UNCHANGED vars PROVE Inv'
    BY <2>2 DEF vars, Inv, Types, TypeOK, KeyInv, SessionInv, StoredInv,
                EverythingDecrypts, AuthenticatedIsPersisted
  <2> QED
    BY <2>1, <2>2
<1> QED
  BY <1>1, <1>2, PTL DEF Spec

\* However many first logins race to create the salt, everything that is stored
\* can be decrypted with the salt that is stored and one passphrase.
THEOREM OneKey == Spec => []EverythingDecrypts
<1>1. Inv => EverythingDecrypts
  BY DEF Inv, KeyInv
<1> QED
  BY <1>1, Invariance, PTL

\* A login session is reported as authenticated only when its StringSession is in
\* telegram_accounts.
THEOREM SuccessIsStored == Spec => []AuthenticatedIsPersisted
<1>1. Inv => AuthenticatedIsPersisted
  BY DEF Inv, StoredInv
<1> QED
  BY <1>1, Invariance, PTL
=============================================================================
