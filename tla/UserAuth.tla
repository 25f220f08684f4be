------------------------------ MODULE UserAuth ------------------------------
(***************************************************************************)
(* Sign-in of one user: the row of the users table with its count of wrong *)
(* passwords and its lock, the token version and the blacklist in Redis,   *)
(* and the requests that work on them: POST /token, /refresh and /logout,  *)
(* PUT /me/password.                                                       *)
(*                                                                         *)
(* A request loads the row once (the session's identity map gives the      *)
(* same object to every later query) and its commit writes the columns it  *)
(* has changed, whatever others have committed meanwhile.  Every await is  *)
(* a place where other requests run, and where this one may fail: its      *)
(* transaction is then rolled back, what it did to Redis stays.            *)
(*                                                                         *)
(* Tokens are numbered in the order of issue.  The clock counts seconds,   *)
(* scaled down together with the life times.                               *)
(***************************************************************************)
EXTENDS Naturals, Sequences

CONSTANTS
    Requests,            \* requests that are handled at the same time
    Ops,                 \* what they may do: a subset of AllOps
    Passwords, First,    \* the passwords, and that of the registration
    Threshold,           \* account_lockout_threshold
    AccessLife,          \* jwt_expiration_days
    RefreshLife,         \* jwt_refresh_expiration_days
    CheckDepth, Keep,    \* old passwords that are checked, and kept: 5, 10
    KeptTokens,          \* bound: tokens the model keeps track of
    MaxVersion,          \* bound: the token version
    MaxTime              \* bound: the clock

AllOps == {"login", "guess", "refresh", "logout", "change"}

ASSUME UserAuthAssumption ==
    /\ Ops \subseteq AllOps
    /\ First \in Passwords
    /\ Threshold \in Nat \ {0}
    /\ AccessLife \in Nat \ {0} /\ RefreshLife \in Nat
    /\ CheckDepth \in Nat /\ Keep \in Nat
    /\ KeptTokens \in Nat /\ MaxVersion \in Nat /\ MaxTime \in Nat

VARIABLES
    row,       \* the user's row; .fails is counted up to Threshold only,
               \* .locked tells where locked_until lies
    version,   \* user:token_version:{id} in Redis, 0 when there is none
    tokens,    \* the tokens issued, as sequence
    revoked,   \* when the blacklist entry of a token ends, 0 for no entry
    now,       \* the clock
    pc,        \* where a request stands
    copy,      \* the row as it has loaded it
    held,      \* the token it was given, or 0
    seen,      \* the token version it has read
    want,      \* the new password
    late,      \* history: a password change was committed during it
    loggedOut, \* history: tokens revoked in a later second than they were
               \* issued in
    raced,     \* history: a token version was written over a newer one
    crossed,   \* history: a password change was written over a newer one
    past,      \* history: the passwords that were replaced
    expired,   \* history: a lock has run out
    lifted     \* history: a lock was lifted before its time

session == <<copy, held, seen, want, late>>
redis   == <<version, tokens, revoked, loggedOut>>
vars    == <<row, redis, now, pc, session, raced, crossed, past,
             expired, lifted>>

Token == [ver: Nat, born: Nat, life: {AccessLife, RefreshLife},
          pw: Passwords, late: BOOLEAN]
Row   == [password: Passwords, history: Seq(Passwords),
          fails: 0..Threshold, locked: {"none", "future", "past"}]

RowOK ==
    /\ row \in Row
    /\ copy \in [Requests -> Row] /\ want \in [Requests -> Passwords]
    /\ past \in Seq(Passwords)

RedisOK ==
    /\ version \in Nat /\ now \in Nat
    /\ tokens \in Seq(Token) /\ Len(tokens) <= KeptTokens
    /\ revoked \in [1..KeptTokens -> Nat] /\ loggedOut \subseteq 1..Len(tokens)

RequestsOK ==
    /\ pc \in [Requests -> {"idle", "verify", "access", "tokens", "refresh",
                            "logout", "change", "mint", "revoke", "revoke2",
                            "load", "check", "bump", "commit"}]
    /\ held \in [Requests -> Nat] /\ seen \in [Requests -> Nat]
    /\ late \in [Requests -> BOOLEAN]

TokenInHand == \A r \in Requests :
    pc[r] \in {"refresh", "logout", "change", "mint"} => held[r] \in 1..Len(tokens)

TypeOK ==
    /\ RowOK /\ RedisOK /\ RequestsOK /\ TokenInHand
    /\ raced \in BOOLEAN /\ crossed \in BOOLEAN
    /\ expired \in BOOLEAN /\ lifted \in BOOLEAN

Registered == [password |-> First, history |-> << >>, fails |-> 0, locked |-> "none"]

\* After POST /register.
Init ==
    /\ row = Registered
    /\ version = 0 /\ tokens = << >> /\ revoked = [t \in 1..KeptTokens |-> 0]
    /\ now = 0
    /\ pc = [r \in Requests |-> "idle"]
    /\ copy = [r \in Requests |-> Registered]
    /\ held = [r \in Requests |-> 0]
    /\ seen = [r \in Requests |-> 0]
    /\ want = [r \in Requests |-> First]
    /\ late = [r \in Requests |-> FALSE] /\ loggedOut = {}
    /\ raced = FALSE /\ crossed = FALSE /\ past = << >>
    /\ expired = FALSE /\ lifted = FALSE

-----------------------------------------------------------------------------
Goto(r, step) == pc' = [pc EXCEPT ![r] = step]

\* The request is answered, and its session closed.
Finish(r) ==
    /\ Goto(r, "idle")
    /\ copy' = [copy EXCEPT ![r] = Registered]
    /\ held' = [held EXCEPT ![r] = 0]
    /\ seen' = [seen EXCEPT ![r] = 0]
    /\ want' = [want EXCEPT ![r] = First]
    /\ late' = [late EXCEPT ![r] = FALSE]

Revoked(t) == now < revoked[t]
\* jwt.decode accepts a token in the very second of its exp, too.
Outlived(t) == now > tokens[t].born + tokens[t].life
Outdated(t) == tokens[t].ver < version

\* Would verify_token, undisturbed, accept the token?
Accepted(t) == ~Revoked(t) /\ ~Outlived(t) /\ ~Outdated(t)

\* Between the two writes of a password change.
ChangeUnderWay == \E r \in Requests : pc[r] = "commit"

NewToken(r, ver, life, pw, isLate) ==
    [ver |-> ver, born |-> now, life |-> life, pw |-> pw,
     late |-> isLate \/ late[r] \/ ChangeUnderWay]

\* The tokens the model keeps track of.
Track(new) == tokens' = IF Len(tokens) + Len(new) <= KeptTokens
                        THEN tokens \o new ELSE tokens

-----------------------------------------------------------------------------
(* POST /token.                                                            *)

\* A locked account is refused here and nothing but the audit log changes.
BeginLogin(r) ==
    /\ Ops \cap {"login", "guess"} # {}
    /\ pc[r] = "idle"
    /\ row.locked # "future"
    /\ copy' = [copy EXCEPT ![r] = row]
    /\ Goto(r, "verify")
    /\ UNCHANGED <<row, redis, now, held, seen, want, late,
                   raced, crossed, past, expired, lifted>>

\* Broken variant of WrongPassword: the request is refused without a commit.
WrongPasswordRolledBack(r) ==
    /\ "guess" \in Ops
    /\ pc[r] = "verify"
    /\ Finish(r)
    /\ UNCHANGED <<row, redis, now, raced, crossed, past, expired, lifted>>

\* The lock is set by this commit if the count read reaches the threshold.
WrongPassword(r) ==
    /\ "guess" \in Ops
    /\ pc[r] = "verify"
    /\ LET full == copy[r].fails + 1 >= Threshold IN
       row' = [row EXCEPT !.fails  = IF full THEN Threshold ELSE copy[r].fails + 1,
                          !.locked = IF full THEN "future" ELSE @]
    /\ Finish(r)
    /\ UNCHANGED <<redis, now, raced, crossed, past, expired, lifted>>

\* Broken variant of RightPassword: both columns are written in any case.
RightPasswordBlind(r) ==
    /\ "login" \in Ops
    /\ pc[r] = "verify"
    /\ row' = [row EXCEPT !.fails = 0, !.locked = "none"]
    /\ lifted' = (lifted \/ row.locked = "future")
    /\ Goto(r, "access")
    /\ UNCHANGED <<redis, now, session, raced, crossed, past, expired>>

\* Resetting a column to the value it was loaded with writes nothing.
RightPassword(r) ==
    /\ "login" \in Ops
    /\ pc[r] = "verify"
    /\ row' = [row EXCEPT !.fails  = IF copy[r].fails = 0 THEN @ ELSE 0,
                          !.locked = IF copy[r].locked = "none" THEN @ ELSE "none"]
    /\ lifted' = (lifted \/ (row.locked = "future" /\ row'.locked = "none"))
    /\ Goto(r, "access")
    /\ UNCHANGED <<redis, now, session, raced, crossed, past, expired>>

\* create_access_token reads the version, and create_refresh_token again.
ReadVersionForAccess(r) ==
    /\ pc[r] = "access"
    /\ seen' = [seen EXCEPT ![r] = version]
    /\ Goto(r, "tokens")
    /\ UNCHANGED <<row, redis, now, copy, held, want, late,
                   raced, crossed, past, expired, lifted>>

IssueBoth(r) ==
    /\ pc[r] = "tokens"
    /\ Track(<<NewToken(r, seen[r], AccessLife, copy[r].password, late[r]),
               NewToken(r, version, RefreshLife, copy[r].password, late[r])>>)
    /\ Finish(r)
    /\ UNCHANGED <<row, version, revoked, loggedOut, now, raced, crossed, past, expired, lifted>>

-----------------------------------------------------------------------------
(* Requests that bring a token: verify_token, in two steps.                *)

\* Broken variant of Present: the token is not remembered.
PresentUnnamed(r, op, t) ==
    /\ op \in Ops \cap {"refresh", "logout", "change"}
    /\ pc[r] = "idle"
    /\ ~Revoked(t) /\ ~Outlived(t)
    /\ Goto(r, op)
    /\ UNCHANGED <<row, redis, now, session, raced, crossed, past, expired, lifted>>

\* The blacklist is asked, the signature and the expiration are checked.
Present(r, op, t) ==
    /\ op \in Ops \cap {"refresh", "logout", "change"}
    /\ pc[r] = "idle"
    /\ ~Revoked(t) /\ ~Outlived(t)
    /\ held' = [held EXCEPT ![r] = t]
    /\ Goto(r, op)
    /\ UNCHANGED <<row, redis, now, copy, seen, want, late,
                   raced, crossed, past, expired, lifted>>

\* Then the version; the user of a token exists and is active.
CheckVersion(r) ==
    /\ pc[r] \in {"refresh", "logout", "change"}
    /\ IF Outdated(held[r])
       THEN Finish(r)
       ELSE /\ Goto(r, CASE pc[r] = "refresh" -> "mint"
                         [] pc[r] = "logout"  -> "revoke"
                         [] pc[r] = "change"  -> "load")
            /\ UNCHANGED session
    /\ UNCHANGED <<row, redis, now, raced, crossed, past, expired, lifted>>

\* POST /refresh: the version is read anew; the refresh token stays.
Mint(r) ==
    /\ pc[r] = "mint"
    /\ Track(<<NewToken(r, version, AccessLife,
                        tokens[held[r]].pw, tokens[held[r]].late)>>)
    /\ Finish(r)
    /\ UNCHANGED <<row, version, revoked, loggedOut, now,
                   raced, crossed, past, expired, lifted>>

-----------------------------------------------------------------------------
(* POST /logout, with two tokens in the body, whichever they are.          *)

\* Broken variant of Revoke: the entry lives as long as the token.
RevokeForRestOfLife(t) ==
    /\ revoked' = [revoked EXCEPT ![t] = tokens[t].born + tokens[t].life]
    /\ loggedOut' = loggedOut \cup {x \in {t} : tokens[x].born < now}
    /\ UNCHANGED <<version, tokens>>

\* jwt.decode is called without a key and raises: the entry always lives for
\* the default time.
Revoke(t) ==
    /\ revoked' = [revoked EXCEPT ![t] = now + AccessLife]
    /\ loggedOut' = loggedOut \cup {x \in {t} : tokens[x].born < now}
    /\ UNCHANGED <<version, tokens>>

RevokeFirst(r, t) ==
    /\ pc[r] = "revoke"
    /\ Revoke(t)
    /\ Goto(r, "revoke2")
    /\ UNCHANGED <<row, now, session, raced, crossed, past, expired, lifted>>

RevokeSecond(r, t) ==
    /\ pc[r] = "revoke2"
    /\ Revoke(t)
    /\ Finish(r)
    /\ UNCHANGED <<row, now, raced, crossed, past, expired, lifted>>

-----------------------------------------------------------------------------
(* PUT /me/password.                                                       *)

LoadUser(r) ==
    /\ pc[r] = "load"
    /\ copy' = [copy EXCEPT ![r] = row]
    /\ Goto(r, "check")
    /\ UNCHANGED <<row, redis, now, held, seen, want, late,
                   raced, crossed, past, expired, lifted>>

LastOf(s, n) == SubSeq(s, IF Len(s) > n THEN Len(s) - n + 1 ELSE 1, Len(s))
RangeOf(s) == {s[i] : i \in 1..Len(s)}

\* The current password is right, the new one is strong enough and none of
\* the last; the version is read.  (Else nothing happens.)
CheckPasswords(r, new) ==
    /\ pc[r] = "check"
    /\ new \notin RangeOf(LastOf(copy[r].history, CheckDepth))
    /\ version < MaxVersion
    /\ want' = [want EXCEPT ![r] = new]
    /\ seen' = [seen EXCEPT ![r] = version]
    /\ Goto(r, "bump")
    /\ UNCHANGED <<row, redis, now, copy, held, late,
                   raced, crossed, past, expired, lifted>>

\* Broken variant of WriteVersion: the version read is written back.
WriteVersionRead(r) ==
    /\ pc[r] = "bump"
    /\ version' = seen[r]
    /\ raced' = (raced \/ version # seen[r])
    /\ Goto(r, "commit")
    /\ UNCHANGED <<row, tokens, revoked, loggedOut, now, session,
                   crossed, past, expired, lifted>>

\* From here on the tokens issued so far are refused.
WriteVersion(r) ==
    /\ pc[r] = "bump"
    /\ version' = seen[r] + 1
    /\ raced' = (raced \/ version # seen[r])
    /\ Goto(r, "commit")
    /\ UNCHANGED <<row, tokens, revoked, loggedOut, now, session,
                   crossed, past, expired, lifted>>

\* The requests that know the old password only by what they have read.
Overtaken(r) == [q \in Requests |-> q # r /\
                 (late[q] \/ pc[q] \in {"verify", "access", "tokens", "mint"})]

\* Broken variant of CommitChange: the history is left as it was.
CommitForgetting(r) ==
    /\ pc[r] = "commit"
    /\ row' = [row EXCEPT !.password = want[r]]
    /\ past' = Append(past, row.password)
    /\ crossed' = (crossed \/ copy[r].password # row.password
                           \/ copy[r].history # row.history)
    /\ pc' = [pc EXCEPT ![r] = "idle"]
    /\ copy' = [copy EXCEPT ![r] = Registered]
    /\ held' = [held EXCEPT ![r] = 0] /\ seen' = [seen EXCEPT ![r] = 0]
    /\ want' = [want EXCEPT ![r] = First] /\ late' = Overtaken(r)
    /\ UNCHANGED <<redis, now, raced, expired, lifted>>

CommitChange(r) ==
    /\ pc[r] = "commit"
    /\ row' = [row EXCEPT !.password = want[r],
                          !.history = LastOf(Append(copy[r].history, copy[r].password), Keep)]
    /\ past' = Append(past, row.password)
    /\ crossed' = (crossed \/ copy[r].password # row.password
                           \/ copy[r].history # row.history)
    /\ pc' = [pc EXCEPT ![r] = "idle"]
    /\ copy' = [copy EXCEPT ![r] = Registered]
    /\ held' = [held EXCEPT ![r] = 0] /\ seen' = [seen EXCEPT ![r] = 0]
    /\ want' = [want EXCEPT ![r] = First] /\ late' = Overtaken(r)
    /\ UNCHANGED <<redis, now, raced, expired, lifted>>

-----------------------------------------------------------------------------
(* A request fails, or is refused, where it waits; time passes.            *)

Fail(r) ==
    /\ pc[r] # "idle"
    /\ Finish(r)
    /\ UNCHANGED <<row, redis, now, raced, crossed, past, expired, lifted>>

LockRunsOut ==
    /\ row.locked = "future"
    /\ row' = [row EXCEPT !.locked = "past"]
    /\ expired' = TRUE
    /\ UNCHANGED <<redis, now, pc, session, raced, crossed, past, lifted>>

Tick ==
    /\ now < MaxTime
    /\ now' = now + 1
    /\ UNCHANGED <<row, redis, pc, session, raced, crossed, past, expired, lifted>>

Step(r) ==
    \/ WrongPassword(r) \/ RightPassword(r)
    \/ ReadVersionForAccess(r) \/ IssueBoth(r)
    \/ CheckVersion(r) \/ Mint(r)
    \/ \E t \in 1..Len(tokens) : RevokeFirst(r, t) \/ RevokeSecond(r, t)
    \/ LoadUser(r)
    \/ \E new \in Passwords : CheckPasswords(r, new)
    \/ WriteVersion(r) \/ CommitChange(r)
    \/ Fail(r)

Begin(r) ==
    \/ BeginLogin(r)
    \/ \E op \in Ops, t \in 1..Len(tokens) : Present(r, op, t)

Next ==
    \/ \E r \in Requests : Begin(r) \/ Step(r)
    \/ LockRunsOut \/ Tick

Spec == Init /\ [][Next]_vars

\* A request comes to its end: every await ends, with a result or an error.
FairSpec == Spec /\ \A r \in Requests : WF_vars(Step(r))

-----------------------------------------------------------------------------
(* Properties.                                                             *)

\* As long as no lock has run out, no login lifts a lock, however it overlaps
\* the failures that set it, and a full count means a lock.  (Later a login
\* that has loaded a lock that is over resets the one set since.)
LocksHold ==
    lifted \/ (row.fails = Threshold /\ row.locked = "none") => expired

\* Lost updates of the count cannot keep an account open: who goes on guessing
\* finds it locked again and again, unless the right password is given.
GuessingLocks ==
    []<><<\E r \in Requests : WrongPassword(r)>>_vars
        => \/ []<>(row.locked = "future")
           \/ []<><<\E r \in Requests : RightPassword(r)>>_vars

\* After a password change no token is accepted that was obtained with an
\* older password, but those issued while the change was committed, or by a
\* request that it overtook, or with such a token; two changes that overlap
\* may set the version back.
OldPasswordIsOut ==
    \A t \in 1..Len(tokens) :
        Accepted(t) => tokens[t].pw = row.password \/ tokens[t].late \/ raced

\* An access token that was logged out is not accepted again, although its
\* blacklist entry ends.
AccessLogoutIsFinal ==
    \A t \in loggedOut : tokens[t].life = AccessLife => ~Accepted(t)

\* The blacklist entry of a token ends with the token, so that no token is
\* accepted again after logout, as revoke_token and logout have it.
LogoutIsFinal ==
    \A t \in loggedOut : ~Accepted(t)

\* A password is not set again before CheckDepth others were, but at once (the
\* current one is not compared), or if two changes overlapped.
NoQuickReuse ==
    LET all == Append(past, row.password) IN
    \A i, j \in 1..Len(all) :
        i + 1 < j /\ j <= i + CheckDepth + 1 /\ all[i] = all[j] => crossed

-----------------------------------------------------------------------------
(* Inductive strengthening, used by the proofs.                            *)

\* Until two changes overlap, the row's history is the end of the passwords that
\* were replaced; a change that has passed the check sets a password that is not
\* among those it had to check.
HistoryKept ==
    /\ crossed \/ row.history = LastOf(past, Keep)
    /\ \A r \in Requests : pc[r] \in {"bump", "commit"} =>
           want[r] \notin RangeOf(LastOf(copy[r].history, CheckDepth))
=============================================================================
