---------------------------- MODULE TelegramLogin ----------------------------
(***************************************************************************)
(* Logging in to Telegram: the routes of tca/api/routes/telegram_auth.py,  *)
(* the login sessions of tca/auth/auth_session_state.py, the key material  *)
(* of key_material.py and unlock_modes.py, and the account row that        *)
(* account_storage.py and session_storage.py write.  The setup wizard of   *)
(* tca/ui/routes.py takes the same steps and is the only caller of         *)
(* unlock_with_passphrase.                                                 *)
(*                                                                         *)
(* Granularity.  A request is a sequence of awaits: one step per statement *)
(* on the database, per job of the writer queue and per call of Telegram.  *)
(* Any number of requests may be under way.  The one job with two          *)
(* transactions, account row then session, keeps the queue (busy).         *)
(*                                                                         *)
(* A ciphertext is reduced to the key it was made with, a key to the       *)
(* passphrase and the salt it is derived from, a login code to the login   *)
(* session it was sent for.                                                *)
(***************************************************************************)
EXTENDS Naturals

CONSTANTS
  Sessions,      \* login session ids
  Phones,
  TwoFactor,     \* the phones whose account asks for a password
  Requests,      \* start and verify requests under way
  Passphrases,
  MaxRestarts,   \* bound: restarts of the process
  MaxExpiries,   \* bound: login sessions whose time runs out
  None

ASSUME LoginAssumption ==
  /\ TwoFactor \subseteq Phones
  /\ MaxRestarts \in Nat
  /\ MaxExpiries \in Nat

VARIABLES
  sessions,   \* auth_session_state: id |-> row
  accounts,   \* telegram_accounts: phone |-> the keys of its two ciphertexts
  salt,       \* the setting auth.kek_salt: the request that created it
  secret,     \* the passphrase in memory, None while locked
  req,        \* what each request is doing
  busy,       \* the request whose job holds the writer queue
  code,       \* Telegram: the login code that is good for a phone
  issued,     \* the session ids handed out; they are random and never repeat
  restarts, expiries

vars == <<sessions, accounts, salt, secret, req, busy, code, issued, restarts, expiries>>

-----------------------------------------------------------------------------
Key    == [passphrase : Passphrases, salt : Requests]
Status == {"code_sent", "password_required", "authenticated"}
Row    == [phone : Phones, status : Status, expired : BOOLEAN, telegram : BOOLEAN]

ASSUME NoneAssumption == None \notin Passphrases \cup Requests \cup Key

Idle == [pc |-> "idle", session |-> None, phone |-> None, code |-> None,
         step |-> None, passphrase |-> None, key |-> None]

TypeOK ==
  /\ sessions \in [DOMAIN sessions -> Row]
  /\ DOMAIN accounts \subseteq Phones
  /\ accounts \in [DOMAIN accounts -> [hash : Key, session : Key \cup {None}]]
  /\ salt \in Requests \cup {None}
  /\ secret \in Passphrases \cup {None}
  /\ busy \in Requests \cup {None}
  /\ code \in [Phones -> Sessions \cup {None}]
  /\ DOMAIN sessions \subseteq issued
  /\ issued \subseteq Sessions
  /\ \A r \in Requests :
       /\ req[r].pc \in {"idle", "start", "sign_in", "need_password", "delete", "secret",
                         "salt", "account", "session", "status"}
       /\ req[r].pc # "idle" => req[r].session \in Sessions /\ req[r].phone \in Phones
       /\ req[r].pc \in {"account", "session"} => req[r].key \in Key /\ salt # None

Init ==
  /\ sessions = [s \in {} |-> None]
  /\ accounts = [p \in {} |-> None]
  /\ salt = None
  /\ secret = None
  /\ req = [r \in Requests |-> Idle]
  /\ busy = None
  /\ code = [p \in Phones |-> None]
  /\ issued = {}
  /\ restarts = 0
  /\ expiries = 0

Without(s) == [t \in DOMAIN sessions \ {s} |-> sessions[t]]

Goto(r, pc) == req' = [req EXCEPT ![r].pc = pc]
Answer(r)   == req' = [req EXCEPT ![r] = Idle]

-----------------------------------------------------------------------------
(* Unlocking and starting *)

Unlocked == secret # None

HasPersistedAccount == DOMAIN accounts # {}

\* The setup wizard unlocks only while no account is stored.  Nothing can change
\* between its two checks: an account is stored only once the process is unlocked.
SetupUnlock(passphrase) ==
  /\ ~HasPersistedAccount
  /\ ~Unlocked
  /\ secret' = passphrase
  /\ UNCHANGED <<sessions, accounts, salt, req, busy, code, issued, restarts, expiries>>

\* start_telegram_auth: Telegram sends a code, and one sent earlier is void.  A
\* request that is refused changes nothing here.
SendLoginCode(r, s, p) ==
  /\ req[r].pc = "idle"
  /\ s \notin issued
  /\ issued' = issued \cup {s}
  /\ code' = [code EXCEPT ![p] = s]
  /\ req' = [req EXCEPT ![r] = [Idle EXCEPT !.pc = "start", !.session = s, !.phone = p]]
  /\ UNCHANGED <<sessions, accounts, salt, secret, busy, restarts, expiries>>

\* The login session is created afterwards, in a job of the queue.
CreateSession(r) ==
  /\ req[r].pc = "start"
  /\ busy = None
  /\ sessions' = [t \in DOMAIN sessions \cup {req[r].session} |->
                    IF t # req[r].session THEN sessions[t]
                    ELSE [phone |-> req[r].phone, status |-> "code_sent",
                          expired |-> FALSE, telegram |-> FALSE]]
  /\ Answer(r)
  /\ UNCHANGED <<accounts, salt, secret, busy, code, issued, restarts, expiries>>

\* The wizard starts a login once it is unlocked; the route does so at any time.
SetupStartAuth(r, s, p) ==
  /\ ~HasPersistedAccount
  /\ Unlocked
  /\ SendLoginCode(r, s, p)

-----------------------------------------------------------------------------
(* Verifying *)

Begin(r, s, step, c) ==
  req' = [req EXCEPT ![r] = [Idle EXCEPT !.pc = "sign_in", !.session = s, !.step = step,
                               !.phone = sessions[s].phone, !.code = c]]

\* The session can take the step, and the process is unlocked.
Ready(s, step) ==
  /\ sessions[s].status = step
  /\ step = "password_required" => sessions[s].telegram
  /\ Unlocked

\* The start of verify_telegram_code and verify_telegram_password: an expired
\* session is deleted, outside the writer queue; any other reason to refuse
\* leaves everything as it is.
Fetch(r, s, step, c) ==
  /\ req[r].pc = "idle"
  /\ \/ /\ s \in DOMAIN sessions
        /\ sessions[s].expired
        /\ sessions' = Without(s)
        /\ UNCHANGED req
     \/ /\ s \in DOMAIN sessions
        /\ ~sessions[s].expired
        /\ Ready(s, step)
        /\ Begin(r, s, step, c)
        /\ UNCHANGED sessions
     \/ /\ s \in DOMAIN sessions => ~sessions[s].expired /\ ~Ready(s, step)
        /\ UNCHANGED <<sessions, req>>
  /\ UNCHANGED <<accounts, salt, secret, busy, code, issued, restarts, expiries>>

\* The wizard's two steps do the same, as long as no account is stored.
SetupVerifyCode(r, s, c) ==
  /\ ~HasPersistedAccount
  /\ Fetch(r, s, "code_sent", c)

SetupVerifyPassword(r, s) ==
  /\ ~HasPersistedAccount
  /\ Fetch(r, s, "password_required", None)

\* Variant: the status is updated first.
SignedInTooEarly(r, next) ==
  /\ code' = [code EXCEPT ![req[r].phone] = None]
  /\ req' = [req EXCEPT ![r].pc = IF next = "secret" THEN "status" ELSE next]

\* Telegram accepted the code; it accepts it once.
SignedIn(r, next) ==
  /\ code' = [code EXCEPT ![req[r].phone] = None]
  /\ Goto(r, next)

\* client.sign_in with a code, by its outcomes: accepted, accepted but a
\* password is missing, void, and every outcome that only answers the request
\* (a wrong code, wrong credentials, a number that is blocked).
SignInWithCode(r) ==
  /\ req[r].pc = "sign_in"
  /\ req[r].step = "code_sent"
  /\ LET p    == req[r].phone
         good == code[p] # None /\ code[p] = req[r].code
     IN  \/ good /\ p \notin TwoFactor /\ SignedIn(r, "secret")
         \/ good /\ p \in TwoFactor /\ SignedIn(r, "need_password")
         \/ code[p] = None /\ Goto(r, "delete") /\ UNCHANGED code
         \/ Answer(r) /\ UNCHANGED code
  /\ UNCHANGED <<sessions, accounts, salt, secret, busy, issued, restarts, expiries>>

\* client.sign_in with a password.
SignInWithPassword(r) ==
  /\ req[r].pc = "sign_in"
  /\ req[r].step = "password_required"
  /\ Goto(r, "secret") \/ Answer(r)
  /\ UNCHANGED <<sessions, accounts, salt, secret, busy, code, issued, restarts, expiries>>

\* _update_auth_session_status: a missing row is an error, an expired one is
\* updated, deleted and reported as expired.
UpdateStatus(r, status, telegram) ==
  LET s == req[r].session
  IN  /\ busy = None
      /\ sessions' = IF s \notin DOMAIN sessions THEN sessions
                     ELSE IF sessions[s].expired THEN Without(s)
                     ELSE [sessions EXCEPT ![s].status = status, ![s].telegram = telegram]
      /\ Answer(r)
      /\ UNCHANGED <<accounts, salt, secret, busy, code, issued, restarts, expiries>>

NeedPassword(r) ==
  /\ req[r].pc = "need_password"
  /\ UpdateStatus(r, "password_required", TRUE)

\* _delete_auth_session, for a code that Telegram calls expired.
DeleteSession(r) ==
  /\ req[r].pc = "delete"
  /\ busy = None
  /\ sessions' = Without(req[r].session)
  /\ Answer(r)
  /\ UNCHANGED <<accounts, salt, secret, busy, code, issued, restarts, expiries>>

-----------------------------------------------------------------------------
(* _persist_authenticated_session *)

\* resolve_key_encryption_key, up to the first look at the stored salt.
ReadSecret(r) ==
  /\ req[r].pc = "secret"
  /\ req' = [req EXCEPT ![r].pc = IF salt = None THEN "salt" ELSE "account",
                        ![r].passphrase = secret,
                        ![r].key = IF salt = None THEN None
                                   ELSE [passphrase |-> secret, salt |-> salt]]
  /\ UNCHANGED <<sessions, accounts, salt, secret, busy, code, issued, restarts, expiries>>

\* Variant: the salt that is stored already is replaced.
CreateSaltAnyway(r) ==
  /\ req[r].pc = "salt"
  /\ busy = None
  /\ salt' = r
  /\ req' = [req EXCEPT ![r].pc = "account",
                        ![r].key = [passphrase |-> req[r].passphrase, salt |-> salt']]
  /\ UNCHANGED <<sessions, accounts, secret, busy, code, issued, restarts, expiries>>

\* _get_or_create_kek_salt: the salt of whoever was first is used.
CreateSalt(r) ==
  /\ req[r].pc = "salt"
  /\ busy = None
  /\ salt' = IF salt = None THEN r ELSE salt
  /\ req' = [req EXCEPT ![r].pc = "account",
                        ![r].key = [passphrase |-> req[r].passphrase, salt |-> salt']]
  /\ UNCHANGED <<sessions, accounts, secret, busy, code, issued, restarts, expiries>>

\* upsert_account, the first transaction of the job.
PersistAccount(r) ==
  LET p == req[r].phone
      k == req[r].key
  IN  /\ req[r].pc = "account"
      /\ busy = None
      /\ busy' = r
      /\ accounts' = [q \in DOMAIN accounts \cup {p} |->
                        IF q # p THEN accounts[q]
                        ELSE [hash |-> k, session |->
                                IF p \in DOMAIN accounts THEN accounts[p].session ELSE None]]
      /\ Goto(r, "session")
      /\ UNCHANGED <<sessions, salt, secret, code, issued, restarts, expiries>>

\* persist_session, the second.
PersistSession(r) ==
  /\ req[r].pc = "session"
  /\ busy' = None
  /\ accounts' = [accounts EXCEPT ![req[r].phone].session = req[r].key]
  /\ Goto(r, "status")
  /\ UNCHANGED <<sessions, salt, secret, code, issued, restarts, expiries>>

PersistAuthenticated(r) ==
  ReadSecret(r) \/ CreateSalt(r) \/ PersistAccount(r) \/ PersistSession(r)

\* The password step clears the half-open session, the code step has none.
Finish(r) ==
  /\ req[r].pc = "status"
  /\ UpdateStatus(r, "authenticated", FALSE)

-----------------------------------------------------------------------------
(* The environment *)

Expire(s) ==
  /\ expiries < MaxExpiries
  /\ s \in DOMAIN sessions
  /\ ~sessions[s].expired
  /\ expiries' = expiries + 1
  /\ sessions' = [sessions EXCEPT ![s].expired = TRUE]
  /\ UNCHANGED <<accounts, salt, secret, req, busy, code, issued, restarts>>

\* Telegram drops a code that was not used.
CodeTimesOut(p) ==
  /\ code[p] # None
  /\ code' = [code EXCEPT ![p] = None]
  /\ UNCHANGED <<sessions, accounts, salt, secret, req, busy, issued, restarts, expiries>>

\* secure-interactive mode: the process comes back locked.
Restart ==
  /\ restarts < MaxRestarts
  /\ restarts' = restarts + 1
  /\ secret' = None
  /\ req' = [r \in Requests |-> Idle]
  /\ busy' = None
  /\ UNCHANGED <<sessions, accounts, salt, code, issued, expiries>>

-----------------------------------------------------------------------------
\* The user types the code that was sent last, or a wrong one (None).
Typed(s) == (IF s \in DOMAIN sessions THEN {code[sessions[s].phone]} ELSE {}) \cup {None}

Start(r, s) == \E p \in Phones : SendLoginCode(r, s, p) \/ SetupStartAuth(r, s, p)

Verify(r, s) ==
  \/ \E c \in Typed(s) : Fetch(r, s, "code_sent", c) \/ SetupVerifyCode(r, s, c)
  \/ Fetch(r, s, "password_required", None)
  \/ SetupVerifyPassword(r, s)

Request(r) ==
  \/ \E s \in Sessions : Start(r, s) \/ Verify(r, s)
  \/ CreateSession(r) \/ SignInWithCode(r) \/ SignInWithPassword(r)
  \/ NeedPassword(r) \/ DeleteSession(r) \/ PersistAuthenticated(r) \/ Finish(r)

Next ==
  \/ \E r \in Requests : Request(r)
  \/ \E p \in Passphrases : SetupUnlock(p)
  \/ \E s \in Sessions : Expire(s)
  \/ \E p \in Phones : CodeTimesOut(p)
  \/ Restart

Spec == Init /\ [][Next]_vars

-----------------------------------------------------------------------------
(* Properties *)

\* Every ciphertext in telegram_accounts can be decrypted: all of them were made
\* with one passphrase and with the salt that is stored, although two first
\* logins may race to create the salt and the process may be restarted and
\* unlocked with another passphrase.
EverythingDecrypts ==
  \A p, q \in DOMAIN accounts :
    /\ accounts[p].hash = [passphrase |-> accounts[q].hash.passphrase, salt |-> salt]
    /\ accounts[p].session \in {None, accounts[p].hash}

\* A login session that says "authenticated" has its StringSession stored,
\* whatever requests raced for it and wherever the process died.
AuthenticatedIsPersisted ==
  \A s \in DOMAIN sessions :
    sessions[s].status = "authenticated" =>
      /\ sessions[s].phone \in DOMAIN accounts
      /\ accounts[sessions[s].phone].session # None

=============================================================================
