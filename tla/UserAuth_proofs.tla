-------------------------- MODULE UserAuth_proofs ---------------------------
(***************************************************************************)
(* Theorems about UserAuth.                                                *)
(***************************************************************************)
EXTENDS UserAuth, SequenceTheorems, TLAPS

USE DEF Goto, Finish, session, redis

-----------------------------------------------------------------------------
(* Sequences.                                                              *)

\* The last elements of a sequence of passwords are one, too.
LEMMA LastOfType ==
    ASSUME NEW s \in Seq(Passwords), NEW n \in Nat
    PROVE  LastOf(s, n) \in Seq(Passwords)
<1> DEFINE from == IF Len(s) > n THEN Len(s) - n + 1 ELSE 1
<1>1. Len(s) \in Nat /\ from \in Nat /\ from >= 1
  OBVIOUS
<1>2. \A i \in from..Len(s) : s[i] \in Passwords
  BY <1>1
<1>3. SubSeq(s, from, Len(s)) \in Seq(Passwords)
  BY <1>1, <1>2, SubSeqProperties
<1> QED BY <1>3 DEF LastOf

\* New tokens come after the old ones, which keep their numbers.
LEMMA TrackAppends ==
    ASSUME NEW new \in Seq(Token), Track(new), RedisOK
    PROVE  /\ tokens' \in Seq(Token) /\ Len(tokens') <= KeptTokens
           /\ Len(tokens) <= Len(tokens')
           /\ \A t \in 1..Len(tokens) : tokens'[t] = tokens[t]
           /\ \A t \in 1..Len(tokens') :
                 t \in 1..Len(tokens) \/ \E i \in 1..Len(new) : tokens'[t] = new[i]
<1>1. tokens \in Seq(Token) /\ Len(tokens) \in Nat /\ Len(new) \in Nat /\ KeptTokens \in Nat
  BY UserAuthAssumption DEF RedisOK
<1>2. CASE Len(tokens) + Len(new) <= KeptTokens
  <2>1. tokens' = tokens \o new
    BY <1>2 DEF Track
  <2>2. tokens' \in Seq(Token) /\ Len(tokens') = Len(tokens) + Len(new)
    BY <2>1, <1>1, ConcatProperties
  <2>3. \A t \in 1..Len(tokens') :
           tokens'[t] = IF t <= Len(tokens) THEN tokens[t] ELSE new[t - Len(tokens)]
    BY <2>1, <1>1, <2>2, ConcatProperties
  <2>4. \A t \in 1..Len(tokens) : tokens'[t] = tokens[t]
    BY <2>2, <2>3, <1>1
  <2>5. ASSUME NEW t \in 1..Len(tokens'), t \notin 1..Len(tokens)
        PROVE  \E i \in 1..Len(new) : tokens'[t] = new[i]
    <3>1. t - Len(tokens) \in 1..Len(new) /\ ~(t <= Len(tokens))
      BY <2>2, <2>5, <1>1
    <3>2. tokens'[t] = new[t - Len(tokens)]
      BY <2>3, <3>1
    <3> QED BY <3>1, <3>2
  <2> QED BY <2>2, <2>4, <2>5, <1>1, <1>2
<1>3. CASE ~(Len(tokens) + Len(new) <= KeptTokens)
  BY <1>1, <1>3 DEF Track, RedisOK
<1> QED BY <1>2, <1>3

\* What a request issues is a token.
LEMMA NewTokenType ==
    ASSUME TypeOK, NEW r \in Requests, NEW ver \in Nat,
           NEW life \in {AccessLife, RefreshLife}, NEW pw \in Passwords,
           NEW isLate \in BOOLEAN
    PROVE  NewToken(r, ver, life, pw, isLate) \in Token
<1>1. now \in Nat /\ late[r] \in BOOLEAN /\ ChangeUnderWay \in BOOLEAN
  BY DEF TypeOK, RedisOK, RequestsOK, ChangeUnderWay
<1>2. (isLate \/ late[r] \/ ChangeUnderWay) \in BOOLEAN
  OBVIOUS
<1> QED BY <1>1, <1>2 DEF NewToken, Token

\* What it says.
LEMMA NewTokenFields ==
    ASSUME TypeOK, NEW r \in Requests, NEW ver, NEW life, NEW pw,
           NEW isLate \in BOOLEAN
    PROVE  /\ NewToken(r, ver, life, pw, isLate).ver = ver
           /\ NewToken(r, ver, life, pw, isLate).pw = pw
           /\ isLate => NewToken(r, ver, life, pw, isLate).late
           /\ late[r] \/ ChangeUnderWay => NewToken(r, ver, life, pw, isLate).late
<1> DEFINE l == isLate \/ late[r] \/ ChangeUnderWay
<1>1. NewToken(r, ver, life, pw, isLate)
        = [ver |-> ver, born |-> now, life |-> life, pw |-> pw, late |-> l]
  BY DEF NewToken
<1> HIDE DEF l
<1>2. /\ NewToken(r, ver, life, pw, isLate).ver = ver
      /\ NewToken(r, ver, life, pw, isLate).pw = pw
      /\ NewToken(r, ver, life, pw, isLate).late = l
  BY <1>1
<1> QED BY <1>2 DEF l

-----------------------------------------------------------------------------
(* Types.                                                                  *)

LEMMA RegisteredType == Registered \in Row
BY UserAuthAssumption DEF Registered, Row

LEMMA TypeInit == Init => TypeOK
<1> SUFFICES ASSUME Init PROVE TypeOK
    OBVIOUS
<1> USE UserAuthAssumption, RegisteredType DEF Init
<1>1. RowOK
  BY DEF RowOK
<1>2. RedisOK
  <2>1. tokens \in Seq(Token) /\ Len(tokens) = 0
    OBVIOUS
  <2> QED BY <2>1 DEF RedisOK
<1>3. RequestsOK
  BY DEF RequestsOK
<1>4. TokenInHand
  BY DEF TokenInHand
<1> QED BY <1>1, <1>2, <1>3, <1>4 DEF TypeOK

\* The row and the copies of it.
LEMMA RowStep == TypeOK /\ [Next]_vars => RowOK'
<1> SUFFICES ASSUME TypeOK, [Next]_vars PROVE RowOK'
    OBVIOUS
<1> USE UserAuthAssumption, RegisteredType
<1>0. RowOK
  BY DEF TypeOK
<1>1. ASSUME NEW r \in Requests, BeginLogin(r) PROVE RowOK'
  BY <1>0, <1>1 DEF RowOK, BeginLogin
<1>2. ASSUME NEW r \in Requests, NEW op \in Ops, NEW t \in 1..Len(tokens), Present(r, op, t)
      PROVE RowOK'
  BY <1>0, <1>2 DEF RowOK, Present
<1>3. ASSUME NEW r \in Requests, WrongPassword(r) PROVE RowOK'
  <2>1. row' \in Row
    <3>1. copy[r].fails \in 0..Threshold
      BY <1>0 DEF RowOK, Row
    <3> DEFINE n == IF copy[r].fails + 1 >= Threshold THEN Threshold ELSE copy[r].fails + 1
    <3>2. n \in 0..Threshold
      BY <3>1
    <3> QED BY <1>0, <1>3, <3>2 DEF RowOK, Row, WrongPassword
  <2> QED BY <1>0, <1>3, <2>1 DEF RowOK, WrongPassword
<1>4. ASSUME NEW r \in Requests, RightPassword(r) PROVE RowOK'
  <2> DEFINE n == IF copy[r].fails = 0 THEN row.fails ELSE 0
             l == IF copy[r].locked = "none" THEN row.locked ELSE "none"
  <2>0. n \in 0..Threshold /\ l \in {"none", "future", "past"}
    BY <1>0 DEF RowOK, Row
  <2>2. row' = [row EXCEPT !.fails = n, !.locked = l]
    BY <1>4 DEF RightPassword
  <2> HIDE DEF n, l
  <2>1. row' \in Row
    BY <1>0, <2>0, <2>2 DEF RowOK, Row
  <2> QED BY <1>0, <1>4, <2>1 DEF RowOK, RightPassword
<1>5. ASSUME NEW r \in Requests,
             ReadVersionForAccess(r) \/ IssueBoth(r) \/ CheckVersion(r) \/ Mint(r)
      PROVE RowOK'
  BY <1>0, <1>5 DEF RowOK, ReadVersionForAccess, IssueBoth, CheckVersion, Mint
<1>6. ASSUME NEW r \in Requests, NEW t \in 1..Len(tokens),
             RevokeFirst(r, t) \/ RevokeSecond(r, t)
      PROVE RowOK'
  BY <1>0, <1>6 DEF RowOK, RevokeFirst, RevokeSecond, Revoke
<1>7. ASSUME NEW r \in Requests, LoadUser(r) PROVE RowOK'
  BY <1>0, <1>7 DEF RowOK, LoadUser
<1>8. ASSUME NEW r \in Requests, NEW new \in Passwords, CheckPasswords(r, new)
      PROVE RowOK'
  BY <1>0, <1>8 DEF RowOK, CheckPasswords
<1>9. ASSUME NEW r \in Requests, WriteVersion(r) PROVE RowOK'
  BY <1>0, <1>9 DEF RowOK, WriteVersion
<1>10. ASSUME NEW r \in Requests, CommitChange(r) PROVE RowOK'
  <2> DEFINE h == LastOf(Append(copy[r].history, copy[r].password), Keep)
  <2>1. h \in Seq(Passwords)
    <3>1. copy[r].history \in Seq(Passwords) /\ copy[r].password \in Passwords
      BY <1>0 DEF RowOK, Row
    <3>2. Append(copy[r].history, copy[r].password) \in Seq(Passwords)
      BY <3>1
    <3> QED BY <3>2, LastOfType
  <2>2. row' = [row EXCEPT !.password = want[r], !.history = h]
    BY <1>10 DEF CommitChange
  <2> HIDE DEF h
  <2>3. row' \in Row
    BY <1>0, <2>1, <2>2 DEF RowOK, Row
  <2>4. past' \in Seq(Passwords)
    <3>1. row.password \in Passwords /\ past \in Seq(Passwords)
      BY <1>0 DEF RowOK, Row
    <3>2. past' = Append(past, row.password)
      BY <1>10 DEF CommitChange
    <3> QED BY <3>1, <3>2
  <2>5. copy' \in [Requests -> Row] /\ want' \in [Requests -> Passwords]
    BY <1>0, <1>10 DEF RowOK, CommitChange
  <2> QED BY <2>3, <2>4, <2>5 DEF RowOK
<1>11. ASSUME NEW r \in Requests, Fail(r) PROVE RowOK'
  BY <1>0, <1>11 DEF RowOK, Fail
<1>12. CASE LockRunsOut
  BY <1>0, <1>12 DEF RowOK, Row, LockRunsOut
<1>13. CASE Tick
  BY <1>0, <1>13 DEF RowOK, Tick
<1>14. CASE UNCHANGED vars
  BY <1>0, <1>14 DEF RowOK, vars
<1> QED
  BY <1>1, <1>2, <1>3, <1>4, <1>5, <1>6, <1>7, <1>8, <1>9, <1>10, <1>11, <1>12,
     <1>13, <1>14 DEF Next, Begin, Step

\* What is in Redis, and the tokens.
LEMMA RedisStep == TypeOK /\ [Next]_vars => RedisOK'
<1> SUFFICES ASSUME TypeOK, [Next]_vars PROVE RedisOK'
    OBVIOUS
<1> USE UserAuthAssumption
<1>0. RedisOK
  BY DEF TypeOK
<1>1. ASSUME NEW r \in Requests,
             BeginLogin(r) \/ (\E op \in Ops, t \in 1..Len(tokens) : Present(r, op, t))
             \/ WrongPassword(r) \/ RightPassword(r) \/ ReadVersionForAccess(r)
             \/ CheckVersion(r) \/ LoadUser(r) \/ CommitChange(r) \/ Fail(r)
             \/ (\E new \in Passwords : CheckPasswords(r, new))
      PROVE RedisOK'
  BY <1>0, <1>1 DEF RedisOK, BeginLogin, Present, WrongPassword, RightPassword,
     ReadVersionForAccess, CheckVersion, LoadUser, CommitChange, Fail, CheckPasswords
<1>2. ASSUME NEW r \in Requests, IssueBoth(r) PROVE RedisOK'
  <2> DEFINE a == NewToken(r, seen[r], AccessLife, copy[r].password, late[r])
             b == NewToken(r, version, RefreshLife, copy[r].password, late[r])
  <2>1. a \in Token /\ b \in Token
    <3>1. seen[r] \in Nat /\ version \in Nat /\ copy[r].password \in Passwords
          /\ late[r] \in BOOLEAN
      BY DEF TypeOK, RequestsOK, RedisOK, RowOK, Row
    <3> QED BY <3>1, NewTokenType
  <2>2. Track(<<a, b>>) /\ UNCHANGED <<version, revoked, loggedOut, now>>
    BY <1>2 DEF IssueBoth
  <2> HIDE DEF a, b
  <2>3. <<a, b>> \in Seq(Token)
    BY <2>1
  <2>4. tokens' \in Seq(Token) /\ Len(tokens') <= KeptTokens /\ Len(tokens) <= Len(tokens')
    BY <1>0, <2>2, <2>3, TrackAppends
  <2>5. Len(tokens) \in Nat /\ Len(tokens') \in Nat
    BY <1>0, <2>4 DEF RedisOK
  <2>6. loggedOut' \subseteq 1..Len(tokens')
    BY <1>0, <2>2, <2>4, <2>5 DEF RedisOK
  <2> QED BY <1>0, <2>2, <2>4, <2>6 DEF RedisOK
<1>3. ASSUME NEW r \in Requests, Mint(r) PROVE RedisOK'
  <2> DEFINE a == NewToken(r, version, AccessLife, tokens[held[r]].pw, tokens[held[r]].late)
  <2>1. a \in Token
    <3>1. tokens[held[r]] \in Token /\ version \in Nat
      BY <1>3 DEF TypeOK, TokenInHand, RedisOK, Mint
    <3>2. tokens[held[r]].pw \in Passwords /\ tokens[held[r]].late \in BOOLEAN
      BY <3>1 DEF Token
    <3> QED BY <3>1, <3>2, NewTokenType
  <2>2. Track(<<a>>) /\ UNCHANGED <<version, revoked, loggedOut, now>>
    BY <1>3 DEF Mint
  <2> HIDE DEF a
  <2>3. <<a>> \in Seq(Token)
    BY <2>1
  <2>4. tokens' \in Seq(Token) /\ Len(tokens') <= KeptTokens /\ Len(tokens) <= Len(tokens')
    BY <1>0, <2>2, <2>3, TrackAppends
  <2>5. Len(tokens) \in Nat /\ Len(tokens') \in Nat
    BY <1>0, <2>4 DEF RedisOK
  <2>6. loggedOut' \subseteq 1..Len(tokens')
    BY <1>0, <2>2, <2>4, <2>5 DEF RedisOK
  <2> QED BY <1>0, <2>2, <2>4, <2>6 DEF RedisOK
<1>4. ASSUME NEW r \in Requests, NEW t \in 1..Len(tokens),
             RevokeFirst(r, t) \/ RevokeSecond(r, t)
      PROVE RedisOK'
  <2>1. Revoke(t) /\ UNCHANGED now
    BY <1>4 DEF RevokeFirst, RevokeSecond
  <2>2. revoked' \in [1..KeptTokens -> Nat]
    BY <1>0, <2>1 DEF RedisOK, Revoke
  <2>3. loggedOut' \subseteq 1..Len(tokens)
    BY <1>0, <2>1 DEF RedisOK, Revoke
  <2> QED BY <1>0, <2>1, <2>2, <2>3 DEF RedisOK, Revoke
<1>5. ASSUME NEW r \in Requests, WriteVersion(r) PROVE RedisOK'
  <2>1. version' \in Nat
    BY <1>5 DEF TypeOK, RequestsOK, WriteVersion
  <2> QED BY <1>0, <1>5, <2>1 DEF RedisOK, WriteVersion
<1>6. CASE LockRunsOut \/ Tick \/ UNCHANGED vars
  BY <1>0, <1>6 DEF RedisOK, LockRunsOut, Tick, vars
<1> QED BY <1>1, <1>2, <1>3, <1>4, <1>5, <1>6 DEF Next, Begin, Step

\* The tokens only grow in number, and keep what they say.
LEMMA TokensGrow ==
    ASSUME TypeOK, [Next]_vars
    PROVE  /\ Len(tokens) \in Nat /\ Len(tokens') \in Nat
           /\ Len(tokens) <= Len(tokens')
           /\ \A t \in 1..Len(tokens) : tokens'[t] = tokens[t]
<1>0. RedisOK /\ RedisOK'
  BY RedisStep DEF TypeOK
<1>1. ASSUME NEW r \in Requests, IssueBoth(r)
      PROVE  Len(tokens) <= Len(tokens') /\ \A t \in 1..Len(tokens) : tokens'[t] = tokens[t]
  <2> DEFINE a == NewToken(r, seen[r], AccessLife, copy[r].password, late[r])
             b == NewToken(r, version, RefreshLife, copy[r].password, late[r])
  <2>1. a \in Token /\ b \in Token
    <3>1. seen[r] \in Nat /\ version \in Nat /\ copy[r].password \in Passwords
          /\ late[r] \in BOOLEAN
      BY DEF TypeOK, RequestsOK, RedisOK, RowOK, Row
    <3> QED BY <3>1, NewTokenType
  <2>2. Track(<<a, b>>)
    BY <1>1 DEF IssueBoth
  <2> HIDE DEF a, b
  <2>3. <<a, b>> \in Seq(Token)
    BY <2>1
  <2> QED BY <1>0, <2>2, <2>3, TrackAppends
<1>2. ASSUME NEW r \in Requests, Mint(r)
      PROVE  Len(tokens) <= Len(tokens') /\ \A t \in 1..Len(tokens) : tokens'[t] = tokens[t]
  <2> DEFINE a == NewToken(r, version, AccessLife, tokens[held[r]].pw, tokens[held[r]].late)
  <2>1. a \in Token
    <3>1. tokens[held[r]] \in Token /\ version \in Nat
      BY <1>2 DEF TypeOK, TokenInHand, RedisOK, Mint
    <3>2. tokens[held[r]].pw \in Passwords /\ tokens[held[r]].late \in BOOLEAN
      BY <3>1 DEF Token
    <3> QED BY <3>1, <3>2, NewTokenType
  <2>2. Track(<<a>>)
    BY <1>2 DEF Mint
  <2> HIDE DEF a
  <2>3. <<a>> \in Seq(Token)
    BY <2>1
  <2> QED BY <1>0, <2>2, <2>3, TrackAppends
<1>3. ASSUME NEW r \in Requests,
             BeginLogin(r) \/ (\E op \in Ops, t \in 1..Len(tokens) : Present(r, op, t))
             \/ WrongPassword(r) \/ RightPassword(r) \/ ReadVersionForAccess(r)
             \/ CheckVersion(r) \/ LoadUser(r) \/ WriteVersion(r) \/ CommitChange(r)
             \/ Fail(r) \/ (\E new \in Passwords : CheckPasswords(r, new))
             \/ (\E t \in 1..Len(tokens) : RevokeFirst(r, t) \/ RevokeSecond(r, t))
      PROVE tokens' = tokens
  BY <1>3 DEF BeginLogin, Present, WrongPassword, RightPassword, ReadVersionForAccess,
     CheckVersion, LoadUser, WriteVersion, CommitChange, Fail, CheckPasswords,
     RevokeFirst, RevokeSecond, Revoke
<1>4. CASE LockRunsOut \/ Tick \/ UNCHANGED vars
  BY <1>0, <1>4 DEF RedisOK, LockRunsOut, Tick, vars
<1>5. Len(tokens) \in Nat /\ Len(tokens') \in Nat
  BY <1>0 DEF RedisOK
<1> QED BY <1>1, <1>2, <1>3, <1>4, <1>5 DEF Next, Begin, Step

LEMMA FinishType ==
    ASSUME NEW r \in Requests, RequestsOK, Finish(r)
    PROVE  RequestsOK'
<1>1. /\ pc' \in [Requests -> {"idle", "verify", "access", "tokens", "refresh",
                            "logout", "change", "mint", "revoke", "revoke2",
                            "load", "check", "bump", "commit"}]
      /\ held' \in [Requests -> Nat]
  BY DEF RequestsOK
<1>2. seen' \in [Requests -> Nat] /\ late' \in [Requests -> BOOLEAN]
  BY DEF RequestsOK
<1> QED BY <1>1, <1>2 DEF RequestsOK

\* Where the requests stand.
LEMMA RequestsStep == TypeOK /\ [Next]_vars => RequestsOK'
<1> SUFFICES ASSUME TypeOK, [Next]_vars PROVE RequestsOK'
    OBVIOUS
<1>0. RequestsOK /\ version \in Nat /\ RedisOK
  BY DEF TypeOK, RedisOK
<1> USE DEF RequestsOK
<1>1. ASSUME NEW r \in Requests, BeginLogin(r) \/ RightPassword(r) \/ ReadVersionForAccess(r)
      PROVE RequestsOK'
  BY <1>0, <1>1 DEF BeginLogin, RightPassword, ReadVersionForAccess
<1>2. ASSUME NEW r \in Requests, NEW op \in Ops, NEW t \in 1..Len(tokens), Present(r, op, t)
      PROVE RequestsOK'
  <2>1. t \in Nat
    BY <1>0 DEF RedisOK
  <2> QED BY <1>0, <1>2, <2>1 DEF Present
<1>3. ASSUME NEW r \in Requests, WrongPassword(r) \/ IssueBoth(r) \/ Mint(r) \/ Fail(r)
      PROVE RequestsOK'
  <2>1. Finish(r)
    BY <1>3 DEF WrongPassword, IssueBoth, Mint, Fail
  <2> QED BY <1>0, <2>1, FinishType
<1>4. ASSUME NEW r \in Requests, CheckVersion(r) PROVE RequestsOK'
  <2>1. CASE Outdated(held[r])
    <3>1. Finish(r)
      BY <1>4, <2>1 DEF CheckVersion
    <3> QED BY <1>0, <3>1, FinishType
  <2>2. CASE ~Outdated(held[r])
    <3>1. \E s \in {"mint", "revoke", "load"} : pc' = [pc EXCEPT ![r] = s]
      BY <1>4, <2>2 DEF CheckVersion
    <3>2. UNCHANGED session
      BY <1>4, <2>2 DEF CheckVersion
    <3> QED BY <1>0, <3>1, <3>2
  <2> QED BY <2>1, <2>2
<1>5. ASSUME NEW r \in Requests, NEW t \in 1..Len(tokens), RevokeFirst(r, t) PROVE RequestsOK'
  BY <1>0, <1>5 DEF RevokeFirst
<1>6. ASSUME NEW r \in Requests, NEW t \in 1..Len(tokens), RevokeSecond(r, t) PROVE RequestsOK'
  BY <1>0, <1>6 DEF RevokeSecond
<1>7. ASSUME NEW r \in Requests, LoadUser(r) \/ WriteVersion(r) PROVE RequestsOK'
  BY <1>0, <1>7 DEF LoadUser, WriteVersion
<1>8. ASSUME NEW r \in Requests, NEW new \in Passwords, CheckPasswords(r, new) PROVE RequestsOK'
  BY <1>0, <1>8 DEF CheckPasswords
<1>9. ASSUME NEW r \in Requests, CommitChange(r) PROVE RequestsOK'
  <2>1. late' \in [Requests -> BOOLEAN]
    BY <1>0, <1>9 DEF CommitChange, Overtaken
  <2> QED BY <1>0, <1>9, <2>1 DEF CommitChange
<1>10. CASE LockRunsOut \/ Tick \/ UNCHANGED vars
  BY <1>0, <1>10 DEF LockRunsOut, Tick, vars
<1> QED
  BY <1>1, <1>2, <1>3, <1>4, <1>5, <1>6, <1>7, <1>8, <1>9, <1>10 DEF Next, Begin, Step

\* The token of a request is one that was issued.
LEMMA TokenStep == TypeOK /\ [Next]_vars => TokenInHand'
<1> DEFINE Holding == {"refresh", "logout", "change", "mint"}
<1> SUFFICES ASSUME TypeOK, [Next]_vars,
                    NEW q \in Requests, pc'[q] \in Holding
             PROVE  held'[q] \in 1..Len(tokens')
    BY DEF TokenInHand
<1>0. RequestsOK /\ (pc[q] \in Holding => held[q] \in 1..Len(tokens))
  BY DEF TypeOK, TokenInHand
<1>a. /\ Len(tokens) \in Nat /\ Len(tokens') \in Nat
      /\ Len(tokens) <= Len(tokens')
  BY TokensGrow
<1>b. SUFFICES held'[q] \in 1..Len(tokens)
  BY <1>a
<1> USE DEF RequestsOK
<1>1. ASSUME NEW r \in Requests, BeginLogin(r) \/ RightPassword(r) \/ ReadVersionForAccess(r)
      PROVE held'[q] \in 1..Len(tokens)
  BY <1>0, <1>1 DEF BeginLogin, RightPassword, ReadVersionForAccess
<1>2. ASSUME NEW r \in Requests, NEW op \in Ops, NEW t \in 1..Len(tokens), Present(r, op, t)
      PROVE held'[q] \in 1..Len(tokens)
  BY <1>0, <1>2 DEF Present
<1>3. ASSUME NEW r \in Requests, WrongPassword(r) \/ IssueBoth(r) \/ Mint(r) \/ Fail(r)
      PROVE held'[q] \in 1..Len(tokens)
  BY <1>0, <1>3 DEF WrongPassword, IssueBoth, Mint, Fail
<1>4. ASSUME NEW r \in Requests, CheckVersion(r) PROVE held'[q] \in 1..Len(tokens)
  BY <1>0, <1>4 DEF CheckVersion
<1>5. ASSUME NEW r \in Requests, NEW t \in 1..Len(tokens), RevokeFirst(r, t) \/ RevokeSecond(r, t)
      PROVE held'[q] \in 1..Len(tokens)
  BY <1>0, <1>5 DEF RevokeFirst, RevokeSecond
<1>6. ASSUME NEW r \in Requests,
             LoadUser(r) \/ WriteVersion(r) \/ CommitChange(r)
             \/ (\E new \in Passwords : CheckPasswords(r, new))
      PROVE held'[q] \in 1..Len(tokens)
  BY <1>0, <1>6 DEF LoadUser, WriteVersion, CommitChange, CheckPasswords
<1>7. CASE LockRunsOut \/ Tick \/ UNCHANGED vars
  BY <1>0, <1>7 DEF LockRunsOut, Tick, vars
<1> QED BY <1>1, <1>2, <1>3, <1>4, <1>5, <1>6, <1>7 DEF Next, Begin, Step

LEMMA TypeStep == TypeOK /\ [Next]_vars => TypeOK'
<1> SUFFICES ASSUME TypeOK, [Next]_vars PROVE TypeOK'
    OBVIOUS
<1>1. RowOK' /\ RedisOK' /\ RequestsOK' /\ TokenInHand'
  BY RowStep, RedisStep, RequestsStep, TokenStep
<1> DEFINE Flags == /\ raced \in BOOLEAN /\ crossed \in BOOLEAN
                    /\ expired \in BOOLEAN /\ lifted \in BOOLEAN
<1>0. Flags
  BY DEF TypeOK
<1>2. ASSUME NEW r \in Requests, Begin(r) PROVE Flags'
  BY <1>0, <1>2 DEF Begin, BeginLogin, Present
<1>3. ASSUME NEW r \in Requests, Step(r) PROVE Flags'
  BY <1>0, <1>3 DEF Step, WrongPassword, RightPassword, ReadVersionForAccess, IssueBoth,
     CheckVersion, Mint, RevokeFirst, RevokeSecond, LoadUser, CheckPasswords,
     WriteVersion, CommitChange, Fail
<1>4. ASSUME LockRunsOut \/ Tick \/ UNCHANGED vars PROVE Flags'
  BY <1>0, <1>4 DEF LockRunsOut, Tick, vars
<1>5. Flags'
  BY <1>2, <1>3, <1>4 DEF Next
<1> QED BY <1>1, <1>5 DEF TypeOK

\* The row, Redis, the tokens and the requests keep their types.
THEOREM TypeCorrect == Spec => []TypeOK
BY TypeInit, TypeStep, PTL DEF Spec

-----------------------------------------------------------------------------
(* Locks.  Until one has run out, nobody has seen one: a locked row is not *)
(* loaded by a login, so that no request finds a lock to reset.            *)

NoLockSeen ==
    expired \/ /\ row.locked # "past"
               /\ \A r \in Requests : pc[r] = "verify" => copy[r].locked = "none"
               /\ row.fails = Threshold => row.locked = "future"
               /\ ~lifted

LEMMA LocksStep ==
    ASSUME TypeOK, NoLockSeen, [Next]_vars
    PROVE  NoLockSeen'
<1>0. /\ row \in Row /\ copy \in [Requests -> Row] /\ Threshold \in Nat \ {0}
      /\ pc = [r \in Requests |-> pc[r]] /\ copy = [r \in Requests |-> copy[r]]
  BY UserAuthAssumption DEF TypeOK, RowOK, RequestsOK
<1>1. ASSUME NEW r \in Requests, BeginLogin(r) PROVE NoLockSeen'
  BY <1>0, <1>1 DEF NoLockSeen, BeginLogin, Row
<1>2. ASSUME NEW r \in Requests, WrongPassword(r) PROVE NoLockSeen'
  BY <1>0, <1>2 DEF NoLockSeen, WrongPassword, Row
<1>3. ASSUME NEW r \in Requests, RightPassword(r) PROVE NoLockSeen'
  BY <1>0, <1>3 DEF NoLockSeen, RightPassword, Row
<1>4. ASSUME NEW r \in Requests,
             ReadVersionForAccess(r) \/ IssueBoth(r) \/ Mint(r) \/ Fail(r) \/ WriteVersion(r)
      PROVE NoLockSeen'
  BY <1>0, <1>4 DEF NoLockSeen, ReadVersionForAccess, IssueBoth, Mint, Fail, WriteVersion
<1>5. ASSUME NEW r \in Requests, NEW t \in 1..Len(tokens),
             RevokeFirst(r, t) \/ RevokeSecond(r, t)
      PROVE NoLockSeen'
  BY <1>0, <1>5 DEF NoLockSeen, RevokeFirst, RevokeSecond, Revoke
<1>6. ASSUME NEW r \in Requests,
             CheckVersion(r) \/ LoadUser(r) \/ (\E new \in Passwords : CheckPasswords(r, new))
      PROVE NoLockSeen'
  BY <1>0, <1>6 DEF NoLockSeen, CheckVersion, LoadUser, CheckPasswords
<1>7. ASSUME NEW r \in Requests, NEW op \in Ops, NEW t \in 1..Len(tokens), Present(r, op, t)
      PROVE NoLockSeen'
  <2>1. op # "verify" /\ pc' = [pc EXCEPT ![r] = op]
    BY <1>7 DEF Present
  <2> QED BY <1>0, <1>7, <2>1 DEF NoLockSeen, Present
<1>8. ASSUME NEW r \in Requests, CommitChange(r) PROVE NoLockSeen'
  <2>1. row'.fails = row.fails /\ row'.locked = row.locked
    BY <1>0, <1>8 DEF CommitChange, Row
  <2> QED BY <1>0, <1>8, <2>1 DEF NoLockSeen, CommitChange
<1>9. CASE LockRunsOut \/ Tick \/ UNCHANGED vars
  BY <1>0, <1>9 DEF NoLockSeen, LockRunsOut, Tick, vars
<1> QED BY <1>1, <1>2, <1>3, <1>4, <1>5, <1>6, <1>7, <1>8, <1>9 DEF Next, Begin, Step

\* For any threshold and any number of logins at a time: until a lock has run
\* out none is lifted, and a full count means a lock.
THEOREM LocksAreKept == Spec => []LocksHold
<1>1. Init => NoLockSeen
  <2> SUFFICES ASSUME Init PROVE NoLockSeen
      OBVIOUS
  <2>1. row.fails = 0 /\ row.locked = "none" /\ 0 # Threshold /\ ~lifted
    BY UserAuthAssumption DEF Init, Registered
  <2>2. \A r \in Requests : pc[r] # "verify"
    BY DEF Init
  <2> QED BY <2>1, <2>2 DEF NoLockSeen
<1>2. NoLockSeen => LocksHold
  BY DEF NoLockSeen, LocksHold
<1> QED BY <1>1, <1>2, TypeInit, TypeStep, LocksStep, PTL DEF Spec

-----------------------------------------------------------------------------
(* Logout.  What was logged out in a later second than it was issued in is *)
(* on the blacklist until after the end of an access token.                *)

EntryOutlastsAccess ==
    \A t \in loggedOut : tokens[t].born < now
                         /\ revoked[t] > tokens[t].born + AccessLife

LEMMA NumbersOfTokens ==
    ASSUME RedisOK
    PROVE  \A t \in 1..Len(tokens) : tokens[t].born \in Nat /\ revoked[t] \in Nat
<1> SUFFICES ASSUME NEW t \in 1..Len(tokens)
             PROVE  tokens[t].born \in Nat /\ revoked[t] \in Nat
    OBVIOUS
<1>1. tokens[t] \in Token
  BY DEF RedisOK
<1>2. t \in 1..KeptTokens
  BY UserAuthAssumption DEF RedisOK
<1>3. revoked[t] \in Nat
  BY <1>2 DEF RedisOK
<1> QED BY <1>1, <1>3 DEF Token

LEMMA LogoutStep ==
    ASSUME TypeOK, EntryOutlastsAccess, [Next]_vars
    PROVE  EntryOutlastsAccess'
<1>0. /\ RedisOK /\ RedisOK' /\ AccessLife \in Nat
      /\ Len(tokens) \in Nat /\ Len(tokens') \in Nat
      /\ \A t \in 1..Len(tokens) : tokens'[t] = tokens[t]
  BY TokensGrow, RedisStep, UserAuthAssumption DEF TypeOK
<1>a. \A t \in 1..Len(tokens) : tokens[t].born \in Nat /\ revoked[t] \in Nat
  BY <1>0, NumbersOfTokens
<1>1. ASSUME loggedOut' = loggedOut, revoked' = revoked, now' = now \/ now' = now + 1
      PROVE  EntryOutlastsAccess'
  <2> SUFFICES ASSUME NEW t \in loggedOut
               PROVE  tokens'[t].born < now' /\ revoked'[t] > tokens'[t].born + AccessLife
      BY <1>1 DEF EntryOutlastsAccess
  <2>1. t \in 1..Len(tokens) /\ now \in Nat
    BY <1>0 DEF RedisOK
  <2>2. tokens[t].born < now /\ revoked[t] > tokens[t].born + AccessLife
    BY DEF EntryOutlastsAccess
  <2> QED BY <1>0, <1>a, <1>1, <2>1, <2>2
<1>2. ASSUME NEW t \in 1..Len(tokens), Revoke(t), now' = now
      PROVE  EntryOutlastsAccess'
  <2> SUFFICES ASSUME NEW x \in loggedOut'
               PROVE  tokens'[x].born < now' /\ revoked'[x] > tokens'[x].born + AccessLife
      BY DEF EntryOutlastsAccess
  <2>1. x \in 1..Len(tokens) /\ now \in Nat /\ tokens' = tokens
    BY <1>0, <1>2 DEF RedisOK, Revoke
  <2>2. revoked \in [1..KeptTokens -> Nat] /\ x \in 1..KeptTokens
    BY <1>0, <2>1, UserAuthAssumption DEF RedisOK
  <2>3. CASE x = t
    <3>1. tokens[x].born < now
      BY <1>2, <2>1, <2>3 DEF Revoke, EntryOutlastsAccess
    <3>2. revoked'[x] = now + AccessLife
      BY <1>2, <2>2, <2>3 DEF Revoke
    <3> QED BY <1>0, <1>a, <1>2, <2>1, <3>1, <3>2
  <2>4. CASE x # t
    <3>1. x \in loggedOut /\ revoked'[x] = revoked[x]
      BY <1>2, <2>2, <2>4 DEF Revoke
    <3> QED BY <1>2, <2>1, <3>1 DEF EntryOutlastsAccess
  <2> QED BY <2>3, <2>4
<1>3. ASSUME NEW r \in Requests, Begin(r) PROVE EntryOutlastsAccess'
  BY <1>1, <1>3 DEF Begin, BeginLogin, Present
<1>4. ASSUME NEW r \in Requests, NEW t \in 1..Len(tokens),
             RevokeFirst(r, t) \/ RevokeSecond(r, t)
      PROVE  EntryOutlastsAccess'
  BY <1>2, <1>4 DEF RevokeFirst, RevokeSecond
<1>5. ASSUME NEW r \in Requests,
             WrongPassword(r) \/ RightPassword(r) \/ ReadVersionForAccess(r) \/ IssueBoth(r)
             \/ CheckVersion(r) \/ Mint(r) \/ LoadUser(r)
             \/ (\E new \in Passwords : CheckPasswords(r, new))
             \/ WriteVersion(r) \/ CommitChange(r) \/ Fail(r)
      PROVE  EntryOutlastsAccess'
  <2>1. UNCHANGED <<loggedOut, revoked, now>>
    BY <1>5 DEF WrongPassword, RightPassword, ReadVersionForAccess, IssueBoth,
       CheckVersion, Mint, LoadUser, CheckPasswords, WriteVersion, CommitChange, Fail
  <2> QED BY <1>1, <2>1
<1>6. CASE LockRunsOut \/ Tick \/ UNCHANGED vars
  BY <1>1, <1>6 DEF LockRunsOut, Tick, vars
<1> QED BY <1>3, <1>4, <1>5, <1>6 DEF Next, Step

\* For any life times, clock and requests: an access token that was logged out
\* is refused for good, although its blacklist entry ends.
THEOREM LogoutOfAccessTokens == Spec => []AccessLogoutIsFinal
<1>1. Init => EntryOutlastsAccess
  BY DEF Init, EntryOutlastsAccess
<1>2. TypeOK /\ EntryOutlastsAccess => AccessLogoutIsFinal
  <2> SUFFICES ASSUME TypeOK, EntryOutlastsAccess, NEW t \in loggedOut,
                      tokens[t].life = AccessLife
               PROVE  ~Accepted(t)
      BY DEF AccessLogoutIsFinal
  <2>1. t \in 1..Len(tokens) /\ now \in Nat /\ AccessLife \in Nat
    BY UserAuthAssumption DEF TypeOK, RedisOK
  <2>2. tokens[t].born \in Nat /\ revoked[t] \in Nat
    BY <2>1, NumbersOfTokens DEF TypeOK
  <2>3. revoked[t] > tokens[t].born + AccessLife
    BY DEF EntryOutlastsAccess
  <2> QED BY <2>1, <2>2, <2>3 DEF Accepted, Revoked, Outlived
<1> QED BY <1>1, <1>2, TypeInit, TypeStep, LogoutStep, PTL DEF Spec

-----------------------------------------------------------------------------
(* Password changes.  OldPasswordIsOut says nothing of the requests that   *)
(* are going to issue tokens: they know the password as it is, or are      *)
(* marked.  From the write of the version on, all tokens that are not      *)
(* outdated are marked, so that the commit may replace the password.       *)

Signing == {"verify", "access", "tokens"}

Fine(t) == Outdated(t) \/ tokens[t].pw = row.password \/ tokens[t].late

NoneAhead ==
    /\ \A t \in 1..Len(tokens) : tokens[t].ver <= version
    /\ \A r \in Requests : pc[r] = "tokens" => seen[r] <= version

TokensFine == \A t \in 1..Len(tokens) : Fine(t)

MarkedForCommit ==
    ChangeUnderWay => \A t \in 1..Len(tokens) : Outdated(t) \/ tokens[t].late

SignersKnow ==
    \A r \in Requests : pc[r] \in Signing /\ ~late[r] => copy[r].password = row.password

MintersKnow ==
    \A r \in Requests : pc[r] = "mint" /\ ~late[r]
        => tokens[held[r]].pw = row.password \/ tokens[held[r]].late

\* While no two changes have overlapped.
Unraced == raced \/ (NoneAhead /\ TokensFine /\ MarkedForCommit /\ MintersKnow)

\* New tokens leave the invariant as it is, if they are no better than they
\* should be.
LEMMA IssueStep ==
    ASSUME TypeOK, Unraced, NEW new \in Seq(Token), Track(new),
           NEW r \in Requests, pc' = [pc EXCEPT ![r] = "idle"],
           UNCHANGED <<version, raced, row>>,
           \A q \in Requests \ {r} : seen'[q] = seen[q] /\ held'[q] = held[q] /\ late'[q] = late[q],
           ~raced => \A i \in 1..Len(new) :
                        /\ new[i].ver <= version
                        /\ new[i].pw = row.password \/ new[i].late
                        /\ ChangeUnderWay => new[i].late
    PROVE  Unraced'
<1> SUFFICES ASSUME ~raced PROVE (NoneAhead /\ TokensFine /\ MarkedForCommit /\ MintersKnow)'
    BY DEF Unraced
<1>0. NoneAhead /\ TokensFine /\ MarkedForCommit /\ MintersKnow
  BY DEF Unraced
<1>1. /\ \A t \in 1..Len(tokens) : tokens'[t] = tokens[t]
      /\ \A t \in 1..Len(tokens') :
            t \in 1..Len(tokens) \/ \E i \in 1..Len(new) : tokens'[t] = new[i]
  BY TrackAppends DEF TypeOK
<1>2. \A q \in Requests : pc'[q] # "idle" => q # r /\ pc[q] = pc'[q]
  BY DEF TypeOK, RequestsOK
<1>3. ChangeUnderWay' => ChangeUnderWay
  BY <1>2 DEF ChangeUnderWay
<1>4. ASSUME NEW t \in 1..Len(tokens')
      PROVE  /\ tokens'[t].ver <= version'
             /\ Fine(t)'
             /\ ChangeUnderWay' => Outdated(t)' \/ tokens'[t].late
  <2>1. CASE t \in 1..Len(tokens)
    BY <1>0, <1>1, <1>3, <2>1 DEF NoneAhead, TokensFine, MarkedForCommit, Fine, Outdated
  <2>2. CASE \E i \in 1..Len(new) : tokens'[t] = new[i]
    BY <1>3, <2>2 DEF Fine, Outdated
  <2> QED BY <1>1, <2>1, <2>2
<1>5. ASSUME NEW q \in Requests, pc'[q] = "tokens" PROVE seen'[q] <= version'
  BY <1>0, <1>2, <1>5 DEF NoneAhead
<1>6. MintersKnow'
  <2> SUFFICES ASSUME NEW q \in Requests, pc'[q] = "mint", ~late'[q]
               PROVE  tokens'[held'[q]].pw = row'.password \/ tokens'[held'[q]].late
      BY DEF MintersKnow
  <2>1. q # r /\ pc[q] = "mint" /\ ~late[q] /\ held'[q] = held[q]
    BY <1>2
  <2>2. held[q] \in 1..Len(tokens)
    BY <2>1 DEF TypeOK, TokenInHand
  <2> QED BY <1>0, <1>1, <2>1, <2>2 DEF MintersKnow
<1> QED BY <1>4, <1>5, <1>6 DEF NoneAhead, TokensFine, MarkedForCommit

\* A request that is going to sign tokens has the password, or is marked.
LEMMA SignersStep ==
    ASSUME TypeOK, SignersKnow, [Next]_vars
    PROVE  SignersKnow'
<1>0. RequestsOK /\ RowOK
  BY DEF TypeOK
<1> USE DEF SignersKnow, Signing, RequestsOK, RowOK
<1>1. ASSUME NEW r \in Requests, BeginLogin(r) PROVE SignersKnow'
  BY <1>0, <1>1 DEF BeginLogin
<1>2. ASSUME NEW r \in Requests, NEW op \in Ops, NEW t \in 1..Len(tokens), Present(r, op, t)
      PROVE SignersKnow'
  <2>1. op \notin Signing /\ pc' = [pc EXCEPT ![r] = op] /\ UNCHANGED <<row, copy, late>>
    BY <1>2 DEF Present
  <2> QED BY <1>0, <2>1
<1>3. ASSUME NEW r \in Requests,
             WrongPassword(r) \/ IssueBoth(r) \/ Mint(r) \/ Fail(r)
             \/ (\E t \in 1..Len(tokens) : RevokeSecond(r, t))
      PROVE SignersKnow'
  <2>1. Finish(r)
    BY <1>3 DEF WrongPassword, IssueBoth, Mint, Fail, RevokeSecond
  <2>2. row'.password = row.password
    BY <1>0, <1>3 DEF WrongPassword, IssueBoth, Mint, Fail, RevokeSecond, Row
  <2> QED BY <1>0, <2>1, <2>2
<1>4. ASSUME NEW r \in Requests, RightPassword(r) PROVE SignersKnow'
  <2>1. row'.password = row.password
    BY <1>0, <1>4 DEF RightPassword, Row
  <2> QED BY <1>0, <1>4, <2>1 DEF RightPassword
<1>5. ASSUME NEW r \in Requests, ReadVersionForAccess(r) PROVE SignersKnow'
  BY <1>0, <1>5 DEF ReadVersionForAccess
<1>6. ASSUME NEW r \in Requests, CheckVersion(r) PROVE SignersKnow'
  BY <1>0, <1>6 DEF CheckVersion
<1>7. ASSUME NEW r \in Requests,
             LoadUser(r) \/ WriteVersion(r)
             \/ (\E t \in 1..Len(tokens) : RevokeFirst(r, t))
             \/ (\E new \in Passwords : CheckPasswords(r, new))
      PROVE SignersKnow'
  BY <1>0, <1>7 DEF LoadUser, CheckPasswords, WriteVersion, RevokeFirst
<1>8. ASSUME NEW r \in Requests, CommitChange(r) PROVE SignersKnow'
  BY <1>0, <1>8 DEF CommitChange, Overtaken
<1>9. CASE LockRunsOut
  <2>1. row'.password = row.password
    BY <1>0, <1>9 DEF LockRunsOut, Row
  <2> QED BY <1>0, <1>9, <2>1 DEF LockRunsOut
<1>10. CASE Tick \/ UNCHANGED vars
  BY <1>0, <1>10 DEF Tick, vars
<1> QED
  BY <1>1, <1>2, <1>3, <1>4, <1>5, <1>6, <1>7, <1>8, <1>9, <1>10 DEF Next, Begin, Step

\* Steps that issue nothing, change nothing in Redis but the blacklist and
\* leave the password alone.
LEMMA QuietStep ==
    ASSUME TypeOK, Unraced,
           UNCHANGED <<version, tokens, raced>>, row'.password = row.password,
           \A q \in Requests :
              /\ pc'[q] = "tokens" => raced \/ seen'[q] <= version
              /\ pc'[q] = "commit" => pc[q] = "commit"
              /\ pc'[q] = "mint" /\ ~late'[q] =>
                    raced \/ tokens[held'[q]].pw = row.password \/ tokens[held'[q]].late
    PROVE  Unraced'
<1> SUFFICES ASSUME ~raced PROVE (NoneAhead /\ TokensFine /\ MarkedForCommit /\ MintersKnow)'
    BY DEF Unraced
<1>0. NoneAhead /\ TokensFine /\ MarkedForCommit /\ MintersKnow
  BY DEF Unraced
<1>1. NoneAhead' /\ MintersKnow'
  BY <1>0 DEF NoneAhead, MintersKnow
<1>2. TokensFine'
  BY <1>0 DEF TokensFine, Fine, Outdated
<1>3. MarkedForCommit'
  BY <1>0 DEF MarkedForCommit, ChangeUnderWay, Outdated
<1> QED BY <1>1, <1>2, <1>3

LEMMA UnracedStep ==
    ASSUME TypeOK, SignersKnow, Unraced, [Next]_vars
    PROVE  Unraced'
<1>0. RequestsOK /\ RowOK /\ RedisOK /\ TokenInHand /\ raced \in BOOLEAN
  BY DEF TypeOK
<1>a. \A q \in Requests : pc[q] = "tokens" => raced \/ seen[q] <= version
  BY DEF Unraced, NoneAhead
<1>b. \A q \in Requests : pc[q] = "mint" /\ ~late[q]
         => raced \/ tokens[held[q]].pw = row.password \/ tokens[held[q]].late
  BY DEF Unraced, MintersKnow
<1>1. ASSUME NEW r \in Requests, BeginLogin(r) PROVE Unraced'
  BY <1>0, <1>a, <1>b, <1>1, QuietStep DEF BeginLogin, RequestsOK
<1>2. ASSUME NEW r \in Requests, NEW op \in Ops, NEW t \in 1..Len(tokens), Present(r, op, t)
      PROVE Unraced'
  <2>1. op \notin {"tokens", "commit", "mint"} /\ pc' = [pc EXCEPT ![r] = op]
    BY <1>2 DEF Present
  <2>2. UNCHANGED <<row, version, tokens, raced, seen, late>> /\ held' = [held EXCEPT ![r] = t]
    BY <1>2 DEF Present
  <2>3. \A q \in Requests : q # r => pc'[q] = pc[q] /\ held'[q] = held[q]
    BY <1>0, <2>1, <2>2 DEF RequestsOK
  <2>4. pc'[r] \notin {"tokens", "commit", "mint"}
    BY <1>0, <2>1 DEF RequestsOK
  <2> QED BY <1>a, <1>b, <2>2, <2>3, <2>4, QuietStep
<1>3. ASSUME NEW r \in Requests,
             WrongPassword(r) \/ Fail(r) \/ (\E t \in 1..Len(tokens) : RevokeSecond(r, t))
      PROVE Unraced'
  <2>1. Finish(r) /\ UNCHANGED <<version, tokens, raced>>
    BY <1>3 DEF WrongPassword, Fail, RevokeSecond, Revoke
  <2>2. row'.password = row.password
    BY <1>0, <1>3 DEF WrongPassword, Fail, RevokeSecond, RowOK, Row
  <2>3. \A q \in Requests : q # r => pc'[q] = pc[q] /\ held'[q] = held[q]
                                     /\ seen'[q] = seen[q] /\ late'[q] = late[q]
    BY <1>0, <2>1 DEF RequestsOK
  <2>4. pc'[r] = "idle"
    BY <1>0, <2>1 DEF RequestsOK
  <2> QED BY <1>a, <1>b, <2>1, <2>2, <2>3, <2>4, QuietStep
<1>4. ASSUME NEW r \in Requests, RightPassword(r) PROVE Unraced'
  <2>1. row'.password = row.password
    BY <1>0, <1>4 DEF RightPassword, RowOK, Row
  <2>2. pc' = [pc EXCEPT ![r] = "access"] /\ UNCHANGED <<version, tokens, raced, seen, held, late>>
    BY <1>4 DEF RightPassword
  <2> QED BY <1>0, <1>a, <1>b, <2>1, <2>2, QuietStep DEF RequestsOK
<1>5. ASSUME NEW r \in Requests, ReadVersionForAccess(r) PROVE Unraced'
  BY <1>0, <1>a, <1>b, <1>5, QuietStep DEF ReadVersionForAccess, RequestsOK, RedisOK
<1>6. ASSUME NEW r \in Requests, IssueBoth(r) PROVE Unraced'
  <2> DEFINE a == NewToken(r, seen[r], AccessLife, copy[r].password, late[r])
             b == NewToken(r, version, RefreshLife, copy[r].password, late[r])
  <2>1. a \in Token /\ b \in Token
    <3>1. seen[r] \in Nat /\ version \in Nat /\ copy[r].password \in Passwords
          /\ late[r] \in BOOLEAN
      BY <1>0 DEF RequestsOK, RedisOK, RowOK, Row
    <3> QED BY <3>1, NewTokenType
  <2>2. Track(<<a, b>>) /\ Finish(r) /\ UNCHANGED <<version, raced, row>>
    BY <1>6 DEF IssueBoth
  <2>3. copy[r].password = row.password \/ late[r]
    BY <1>6 DEF SignersKnow, Signing, IssueBoth
  <2>4. ~raced => seen[r] <= version
    BY <1>6, <1>a DEF IssueBoth
  <2>5. /\ a.pw = row.password \/ a.late
        /\ b.pw = row.password \/ b.late
        /\ ChangeUnderWay => a.late /\ b.late
        /\ a.ver = seen[r] /\ b.ver = version /\ version <= version
    <3>1. /\ a.ver = seen[r] /\ a.pw = copy[r].password
          /\ late[r] \/ ChangeUnderWay => a.late
      BY <1>0, NewTokenFields DEF RequestsOK
    <3>2. /\ b.ver = version /\ b.pw = copy[r].password
          /\ late[r] \/ ChangeUnderWay => b.late
      BY <1>0, NewTokenFields DEF RequestsOK
    <3>3. version <= version
      BY <1>0 DEF RedisOK
    <3> HIDE DEF a, b
    <3> QED BY <2>3, <3>1, <3>2, <3>3
  <2> HIDE DEF a, b
  <2>6. /\ <<a, b>> \in Seq(Token)
        /\ \A i \in 1..Len(<<a, b>>) : <<a, b>>[i] = a \/ <<a, b>>[i] = b
    BY <2>1
  <2>7. pc' = [pc EXCEPT ![r] = "idle"]
        /\ \A q \in Requests \ {r} : seen'[q] = seen[q] /\ held'[q] = held[q] /\ late'[q] = late[q]
    BY <1>0, <2>2 DEF RequestsOK
  <2>8. ~raced => \A i \in 1..Len(<<a, b>>) :
           /\ <<a, b>>[i].ver <= version
           /\ <<a, b>>[i].pw = row.password \/ <<a, b>>[i].late
           /\ ChangeUnderWay => <<a, b>>[i].late
    BY <2>4, <2>5, <2>6
  <2> QED BY <2>2, <2>6, <2>7, <2>8, IssueStep
<1>7. ASSUME NEW r \in Requests, Mint(r) PROVE Unraced'
  <2> DEFINE h == tokens[held[r]]
             a == NewToken(r, version, AccessLife, h.pw, h.late)
  <2>1. h \in Token /\ version \in Nat
    BY <1>0, <1>7 DEF TokenInHand, RedisOK, Mint
  <2>2. h.pw \in Passwords /\ h.late \in BOOLEAN
    BY <2>1 DEF Token
  <2>3. a \in Token
    BY <2>1, <2>2, NewTokenType
  <2>4. Track(<<a>>) /\ Finish(r) /\ UNCHANGED <<version, raced, row>>
    BY <1>7 DEF Mint
  <2>5. late[r] \/ raced \/ h.pw = row.password \/ h.late
    BY <1>7, <1>b DEF Mint
  <2>6. /\ a.ver = version /\ version <= version
        /\ ~raced => a.pw = row.password \/ a.late
        /\ ChangeUnderWay => a.late
    BY <2>1, <2>2, <2>5, NewTokenFields
  <2> HIDE DEF a, h
  <2>7. /\ <<a>> \in Seq(Token)
        /\ \A i \in 1..Len(<<a>>) : <<a>>[i] = a
    BY <2>3
  <2>8. pc' = [pc EXCEPT ![r] = "idle"]
        /\ \A q \in Requests \ {r} : seen'[q] = seen[q] /\ held'[q] = held[q] /\ late'[q] = late[q]
    BY <1>0, <2>4 DEF RequestsOK
  <2>9. ~raced => \A i \in 1..Len(<<a>>) :
           /\ <<a>>[i].ver <= version
           /\ <<a>>[i].pw = row.password \/ <<a>>[i].late
           /\ ChangeUnderWay => <<a>>[i].late
    BY <2>6, <2>7
  <2> QED BY <2>4, <2>7, <2>8, <2>9, IssueStep
<1>8. ASSUME NEW r \in Requests, CheckVersion(r) PROVE Unraced'
  <2>1. CASE Outdated(held[r])
    <3>1. Finish(r) /\ UNCHANGED <<row, version, tokens, raced>>
      BY <1>8, <2>1 DEF CheckVersion
    <3>2. pc'[r] = "idle" /\ \A q \in Requests : q # r =>
             pc'[q] = pc[q] /\ held'[q] = held[q] /\ seen'[q] = seen[q] /\ late'[q] = late[q]
      BY <1>0, <3>1 DEF RequestsOK
    <3> QED BY <1>a, <1>b, <3>1, <3>2, QuietStep
  <2>2. CASE ~Outdated(held[r])
    <3>1. UNCHANGED <<row, version, tokens, raced, seen, held, late>>
          /\ \E s \in {"mint", "revoke", "load"} : pc' = [pc EXCEPT ![r] = s]
      BY <1>8, <2>2 DEF CheckVersion
    <3>2. held[r] \in 1..Len(tokens)
      BY <1>0, <1>8 DEF TokenInHand, CheckVersion
    <3>3. raced \/ tokens[held[r]].pw = row.password \/ tokens[held[r]].late
      BY <2>2, <3>2 DEF Unraced, TokensFine, Fine
    <3>4. pc'[r] \notin {"tokens", "commit"} /\ \A q \in Requests : q # r => pc'[q] = pc[q]
      BY <1>0, <3>1 DEF RequestsOK
    <3> QED BY <1>a, <1>b, <3>1, <3>3, <3>4, QuietStep
  <2> QED BY <2>1, <2>2
<1>9. ASSUME NEW r \in Requests,
             LoadUser(r) \/ (\E t \in 1..Len(tokens) : RevokeFirst(r, t))
      PROVE Unraced'
  <2>1. UNCHANGED <<row, version, tokens, raced, seen, held, late>>
        /\ \E s \in {"revoke2", "check"} : pc' = [pc EXCEPT ![r] = s]
    BY <1>9 DEF LoadUser, RevokeFirst, Revoke
  <2>2. pc'[r] \notin {"tokens", "commit", "mint"} /\ \A q \in Requests : q # r => pc'[q] = pc[q]
    BY <1>0, <2>1 DEF RequestsOK
  <2> QED BY <1>a, <1>b, <2>1, <2>2, QuietStep
<1>10. ASSUME NEW r \in Requests, NEW new \in Passwords, CheckPasswords(r, new) PROVE Unraced'
  <2>1. UNCHANGED <<row, version, tokens, raced, held, late>>
        /\ pc' = [pc EXCEPT ![r] = "bump"] /\ seen' = [seen EXCEPT ![r] = version]
    BY <1>10 DEF CheckPasswords
  <2>2. pc'[r] = "bump" /\ \A q \in Requests : q # r => pc'[q] = pc[q] /\ seen'[q] = seen[q]
    BY <1>0, <2>1 DEF RequestsOK
  <2> QED BY <1>a, <1>b, <2>1, <2>2, QuietStep
<1>11. ASSUME NEW r \in Requests, WriteVersion(r) PROVE Unraced'
  <2> SUFFICES ASSUME ~raced'
               PROVE  (NoneAhead /\ TokensFine /\ MarkedForCommit /\ MintersKnow)'
      BY DEF Unraced
  <2>1. /\ ~raced /\ version = seen[r] /\ version' = version + 1 /\ version \in Nat
        /\ UNCHANGED <<row, tokens, seen, held, late>> /\ pc' = [pc EXCEPT ![r] = "commit"]
    BY <1>0, <1>11 DEF WriteVersion, RedisOK
  <2>2. NoneAhead /\ MintersKnow
    BY <2>1 DEF Unraced
  <2>3. \A t \in 1..Len(tokens) : tokens[t] \in Token
    BY <1>0 DEF RedisOK
  <2>4. \A t \in 1..Len(tokens) : tokens[t].ver \in Nat
    BY <2>3 DEF Token
  <2>5. \A t \in 1..Len(tokens) : tokens[t].ver < version'
    BY <2>1, <2>2, <2>4 DEF NoneAhead
  <2>6. TokensFine' /\ MarkedForCommit'
    BY <2>1, <2>5 DEF TokensFine, MarkedForCommit, Fine, Outdated
  <2>7. \A q \in Requests : pc'[q] # "commit" => pc'[q] = pc[q]
    BY <1>0, <2>1 DEF RequestsOK
  <2>8. NoneAhead'
    BY <1>0, <2>1, <2>2, <2>4, <2>7 DEF NoneAhead, RequestsOK
  <2>9. MintersKnow'
    BY <2>1, <2>2, <2>7 DEF MintersKnow
  <2> QED BY <2>6, <2>8, <2>9
<1>12. ASSUME NEW r \in Requests, CommitChange(r) PROVE Unraced'
  <2> SUFFICES ASSUME ~raced'
               PROVE  (NoneAhead /\ TokensFine /\ MarkedForCommit /\ MintersKnow)'
      BY DEF Unraced
  <2>1. ~raced /\ UNCHANGED <<version, tokens>> /\ ChangeUnderWay
    BY <1>12 DEF CommitChange, ChangeUnderWay
  <2>2. NoneAhead /\ MarkedForCommit
    BY <2>1 DEF Unraced
  <2>3. \A t \in 1..Len(tokens) : Outdated(t) \/ tokens[t].late
    BY <2>1, <2>2 DEF MarkedForCommit
  <2>4. TokensFine' /\ MarkedForCommit'
    BY <2>1, <2>3 DEF TokensFine, MarkedForCommit, Fine, Outdated
  <2>5. \A q \in Requests : pc'[q] # "idle" => pc'[q] = pc[q] /\ q # r /\ seen'[q] = seen[q]
    BY <1>0, <1>12 DEF CommitChange, RequestsOK
  <2>6. NoneAhead'
    BY <2>1, <2>2, <2>5 DEF NoneAhead
  <2>7. \A q \in Requests : pc'[q] = "mint" => late'[q]
    BY <1>12, <2>5 DEF CommitChange, Overtaken
  <2>8. MintersKnow'
    BY <2>7 DEF MintersKnow
  <2> QED BY <2>4, <2>6, <2>8
<1>13. CASE LockRunsOut \/ Tick \/ UNCHANGED vars
  <2>1. row'.password = row.password
    BY <1>0, <1>13 DEF LockRunsOut, Tick, vars, RowOK, Row
  <2>2. UNCHANGED <<version, tokens, raced, pc, seen, held, late>>
    BY <1>13 DEF LockRunsOut, Tick, vars
  <2> QED BY <1>a, <1>b, <2>1, <2>2, QuietStep
<1> QED
  BY <1>1, <1>2, <1>3, <1>4, <1>5, <1>6, <1>7, <1>8, <1>9, <1>10, <1>11, <1>12, <1>13
  DEF Next, Begin, Step

\* For any number of requests, changes and tokens: unless two password changes
\* overlapped, every token that is accepted was obtained with the present
\* password or issued to a request that ran while a change was committed.
THEOREM OldPasswordsAreOut == Spec => []OldPasswordIsOut
<1>1. Init => SignersKnow /\ Unraced
  <2> SUFFICES ASSUME Init PROVE SignersKnow /\ Unraced
      OBVIOUS
  <2>1. \A r \in Requests : pc[r] = "idle"
    BY DEF Init
  <2>2. Len(tokens) = 0
    BY DEF Init
  <2>3. SignersKnow /\ MintersKnow
    BY <2>1 DEF SignersKnow, Signing, MintersKnow
  <2>4. NoneAhead /\ TokensFine /\ MarkedForCommit
    BY <2>1, <2>2 DEF NoneAhead, TokensFine, MarkedForCommit
  <2> QED BY <2>3, <2>4 DEF Unraced
<1>2. Unraced => OldPasswordIsOut
  BY DEF Unraced, TokensFine, Fine, OldPasswordIsOut, Accepted
<1> QED BY <1>1, <1>2, TypeInit, TypeStep, SignersStep, UnracedStep, PTL DEF Spec

-----------------------------------------------------------------------------
(* The password history.                                                   *)

\* The last n elements, one by one.
LEMMA LastOfElements ==
    ASSUME NEW s \in Seq(Passwords), NEW n \in Nat
    PROVE  /\ Len(LastOf(s, n)) = IF Len(s) > n THEN n ELSE Len(s)
           /\ \A k \in 1..Len(LastOf(s, n)) :
                  LastOf(s, n)[k] = s[Len(s) - Len(LastOf(s, n)) + k]
<1> DEFINE from == IF Len(s) > n THEN Len(s) - n + 1 ELSE 1
<1>1. Len(s) \in Nat /\ from \in Int /\ from >= 1
  OBVIOUS
<1>2. \A i \in from..Len(s) : s[i] \in Passwords
  BY <1>1
<1>3. /\ Len(SubSeq(s, from, Len(s))) = IF from <= Len(s) THEN Len(s) - from + 1 ELSE 0
      /\ \A i \in 1..Len(s) - from + 1 : SubSeq(s, from, Len(s))[i] = s[from + i - 1]
  BY <1>1, <1>2, SubSeqProperties
<1>4. LastOf(s, n) = SubSeq(s, from, Len(s))
  BY DEF LastOf
<1>5. Len(LastOf(s, n)) = IF Len(s) > n THEN n ELSE Len(s)
  <2>1. CASE Len(s) > n
    <3>1. from = Len(s) - n + 1
      BY <2>1
    <3>2. from <= Len(s) => Len(s) - from + 1 = n
      BY <1>1, <3>1
    <3>3. ~(from <= Len(s)) => n = 0
      BY <1>1, <3>1
    <3> QED BY <1>3, <1>4, <2>1, <3>2, <3>3
  <2>2. CASE ~(Len(s) > n)
    <3>1. from = 1
      BY <2>2
    <3>2. from <= Len(s) => Len(s) - from + 1 = Len(s)
      BY <1>1, <3>1
    <3>3. ~(from <= Len(s)) => Len(s) = 0
      BY <1>1, <3>1
    <3> QED BY <1>3, <1>4, <2>2, <3>2, <3>3
  <2> QED BY <2>1, <2>2
<1>6. ASSUME NEW k \in 1..Len(LastOf(s, n))
      PROVE  LastOf(s, n)[k] = s[Len(s) - Len(LastOf(s, n)) + k]
  <2>1. k \in 1..Len(s) - from + 1 /\ from + k - 1 = Len(s) - Len(LastOf(s, n)) + k
    BY <1>1, <1>5
  <2> QED BY <1>3, <1>4, <2>1
<1> QED BY <1>5, <1>6

\* Keeping the last elements loses nothing that is kept after one more.
LEMMA LastOfAppend ==
    ASSUME NEW s \in Seq(Passwords), NEW p \in Passwords, NEW n \in Nat
    PROVE  LastOf(Append(LastOf(s, n), p), n) = LastOf(Append(s, p), n)
<1> DEFINE k == LastOf(s, n)
           a == Append(k, p)
           b == Append(s, p)
<1>1. k \in Seq(Passwords)
  BY LastOfType
<1>2. /\ Len(k) = IF Len(s) > n THEN n ELSE Len(s)
      /\ \A i \in 1..Len(k) : k[i] = s[Len(s) - Len(k) + i]
  BY LastOfElements
<1>3. Len(s) \in Nat /\ Len(k) \in Nat
  BY <1>1
<1> HIDE DEF k
<1>4. /\ a \in Seq(Passwords) /\ Len(a) = Len(k) + 1
      /\ \A i \in 1..Len(k) : a[i] = k[i]
      /\ a[Len(k) + 1] = p
  BY <1>1, AppendProperties
<1>5. /\ b \in Seq(Passwords) /\ Len(b) = Len(s) + 1
      /\ \A i \in 1..Len(s) : b[i] = s[i]
      /\ b[Len(s) + 1] = p
  BY AppendProperties
<1> HIDE DEF a, b
<1>6. \A i \in 1..Len(a) : a[i] = b[Len(b) - Len(a) + i]
  <2> SUFFICES ASSUME NEW i \in 1..Len(a) PROVE a[i] = b[Len(b) - Len(a) + i]
    OBVIOUS
  <2>1. Len(b) - Len(a) = Len(s) - Len(k)
    BY <1>3, <1>4, <1>5
  <2>2. CASE i \in 1..Len(k)
    <3>1. Len(s) - Len(k) + i \in 1..Len(s)
      BY <1>2, <1>3, <2>2
    <3>2. a[i] = k[i] /\ k[i] = s[Len(s) - Len(k) + i]
      BY <1>2, <1>4, <2>2
    <3> QED BY <1>5, <2>1, <3>1, <3>2
  <2>3. CASE i = Len(k) + 1
    <3>1. Len(s) - Len(k) + i = Len(s) + 1
      BY <1>3, <2>3
    <3> QED BY <1>4, <1>5, <2>1, <2>3, <3>1
  <2> QED BY <1>3, <1>4, <2>2, <2>3
<1>7. /\ LastOf(a, n) \in Seq(Passwords) /\ LastOf(b, n) \in Seq(Passwords)
      /\ Len(LastOf(a, n)) = IF Len(a) > n THEN n ELSE Len(a)
      /\ Len(LastOf(b, n)) = IF Len(b) > n THEN n ELSE Len(b)
  BY <1>4, <1>5, LastOfType, LastOfElements
<1>8. Len(LastOf(a, n)) = Len(LastOf(b, n)) /\ Len(LastOf(a, n)) <= Len(a)
  BY <1>2, <1>3, <1>4, <1>5, <1>7
<1>9. ASSUME NEW i \in 1..Len(LastOf(a, n)) PROVE LastOf(a, n)[i] = LastOf(b, n)[i]
  <2> DEFINE m == Len(LastOf(a, n))
  <2>1. m \in Nat /\ m = Len(LastOf(b, n)) /\ m <= Len(a)
    BY <1>4, <1>7, <1>8
  <2>2. LastOf(a, n)[i] = a[Len(a) - m + i]
    BY <1>4, LastOfElements
  <2>3. LastOf(b, n)[i] = b[Len(b) - m + i]
    <3>1. i \in 1..Len(LastOf(b, n))
      BY <2>1
    <3>2. LastOf(b, n)[i] = b[Len(b) - Len(LastOf(b, n)) + i]
      BY <1>5, <3>1, LastOfElements
    <3> QED BY <2>1, <3>2
  <2> HIDE DEF m
  <2>4. i \in 1..m
    BY DEF m
  <2>5. Len(a) - m + i \in 1..Len(a)
    BY <1>3, <1>4, <2>1, <2>4
  <2>6. a[Len(a) - m + i] = b[Len(b) - Len(a) + (Len(a) - m + i)]
    BY <1>6, <2>5
  <2>7. Len(b) - Len(a) + (Len(a) - m + i) = Len(b) - m + i
    BY <1>3, <1>4, <1>5, <2>1, <2>4
  <2> QED BY <2>2, <2>3, <2>6, <2>7
<1>10. LastOf(a, n) = LastOf(b, n)
  BY <1>7, <1>8, <1>9, SeqEqual
<1> QED BY <1>10 DEF a, b, k

\* Who keeps n elements can check the last d of them.
LEMMA LastOfReaches ==
    ASSUME NEW s \in Seq(Passwords), NEW n \in Nat, NEW d \in Nat, d <= n,
           NEW i \in 1..Len(s), i + d > Len(s)
    PROVE  s[i] \in RangeOf(LastOf(LastOf(s, n), d))
<1> DEFINE k == LastOf(s, n)
           c == LastOf(k, d)
<1>1. k \in Seq(Passwords)
  BY LastOfType
<1>2. /\ Len(k) = IF Len(s) > n THEN n ELSE Len(s)
      /\ \A j \in 1..Len(k) : k[j] = s[Len(s) - Len(k) + j]
  BY LastOfElements
<1>3. Len(s) \in Nat /\ Len(k) \in Nat
  BY <1>1
<1> HIDE DEF k
<1>4. /\ Len(c) = IF Len(k) > d THEN d ELSE Len(k)
      /\ \A j \in 1..Len(c) : c[j] = k[Len(k) - Len(c) + j]
  BY <1>1, LastOfElements
<1> HIDE DEF c
<1> DEFINE j == i - (Len(s) - Len(c))
<1>a. Len(c) \in Nat /\ Len(c) <= Len(k) /\ Len(k) <= Len(s)
  BY <1>2, <1>3, <1>4
<1>b. i + Len(c) > Len(s) /\ i \in Nat /\ 1 <= i /\ i <= Len(s)
  <2>1. i \in Nat /\ 1 <= i /\ i <= Len(s)
    BY <1>3
  <2>2. Len(c) = d \/ Len(c) = Len(s)
    BY <1>2, <1>3, <1>4
  <2> QED BY <1>3, <2>1, <2>2
<1>5. j \in 1..Len(c) /\ Len(k) - Len(c) + j \in 1..Len(k)
  BY <1>3, <1>a, <1>b
<1>6. Len(s) - Len(k) + (Len(k) - Len(c) + j) = i
  BY <1>3, <1>a, <1>b
<1>7. c[j] = k[Len(k) - Len(c) + j]
  BY <1>4, <1>5
<1>8. k[Len(k) - Len(c) + j] = s[Len(s) - Len(k) + (Len(k) - Len(c) + j)]
  BY <1>2, <1>5
<1>9. c[j] = s[i]
  BY <1>6, <1>7, <1>8
<1> QED BY <1>5, <1>9 DEF RangeOf, c, k

\* Steps that leave the passwords alone.
LEMMA HistoryQuiet ==
    ASSUME HistoryKept, NoQuickReuse,
           UNCHANGED <<past, crossed>>,
           row'.history = row.history, row'.password = row.password,
           \A q \in Requests : pc'[q] \in {"bump", "commit"} =>
              pc[q] \in {"bump", "commit"} /\ want'[q] = want[q] /\ copy'[q] = copy[q]
    PROVE  HistoryKept' /\ NoQuickReuse'
<1>1. HistoryKept'
  BY DEF HistoryKept
<1>2. NoQuickReuse'
  BY DEF NoQuickReuse
<1> QED BY <1>1, <1>2

LEMMA HistoryStep ==
    ASSUME CheckDepth <= Keep, TypeOK, HistoryKept, NoQuickReuse, [Next]_vars
    PROVE  HistoryKept' /\ NoQuickReuse'
<1>0. RequestsOK /\ RowOK /\ crossed \in BOOLEAN
  BY DEF TypeOK
<1> USE UserAuthAssumption
<1>1. ASSUME NEW r \in Requests, BeginLogin(r) PROVE HistoryKept' /\ NoQuickReuse'
  <2>1. \A q \in Requests : pc'[q] \in {"bump", "commit"} => pc'[q] = pc[q] /\ q # r
    BY <1>0, <1>1 DEF BeginLogin, RequestsOK
  <2>2. \A q \in Requests : q # r => copy'[q] = copy[q]
    BY <1>0, <1>1 DEF BeginLogin, RowOK
  <2> QED BY <1>1, <2>1, <2>2, HistoryQuiet DEF BeginLogin
<1>2. ASSUME NEW r \in Requests, NEW op \in Ops, NEW t \in 1..Len(tokens), Present(r, op, t)
      PROVE HistoryKept' /\ NoQuickReuse'
  <2>1. op \notin {"bump", "commit"}
    BY <1>2 DEF Present
  <2>2. \A q \in Requests : pc'[q] \in {"bump", "commit"} => pc'[q] = pc[q]
    BY <1>0, <1>2, <2>1 DEF Present, RequestsOK
  <2> QED BY <1>2, <2>2, HistoryQuiet DEF Present
<1>3. ASSUME NEW r \in Requests,
             WrongPassword(r) \/ IssueBoth(r) \/ Mint(r) \/ Fail(r)
             \/ (\E t \in 1..Len(tokens) : RevokeSecond(r, t))
      PROVE HistoryKept' /\ NoQuickReuse'
  <2>1. Finish(r) /\ UNCHANGED <<past, crossed>>
    BY <1>3 DEF WrongPassword, IssueBoth, Mint, Fail, RevokeSecond
  <2>2. row'.password = row.password /\ row'.history = row.history
    BY <1>0, <1>3 DEF WrongPassword, IssueBoth, Mint, Fail, RevokeSecond, RowOK, Row
  <2>3. pc'[r] = "idle"
        /\ \A q \in Requests : q # r => pc'[q] = pc[q] /\ want'[q] = want[q] /\ copy'[q] = copy[q]
    BY <1>0, <2>1 DEF RequestsOK, RowOK
  <2> QED BY <2>1, <2>2, <2>3, HistoryQuiet
<1>4. ASSUME NEW r \in Requests, RightPassword(r) PROVE HistoryKept' /\ NoQuickReuse'
  <2>1. row'.password = row.password /\ row'.history = row.history
    BY <1>0, <1>4 DEF RightPassword, RowOK, Row
  <2>2. \A q \in Requests : pc'[q] \in {"bump", "commit"} => pc'[q] = pc[q]
    BY <1>0, <1>4 DEF RightPassword, RequestsOK
  <2> QED BY <1>4, <2>1, <2>2, HistoryQuiet DEF RightPassword
<1>5. ASSUME NEW r \in Requests,
             ReadVersionForAccess(r) \/ (\E t \in 1..Len(tokens) : RevokeFirst(r, t))
      PROVE HistoryKept' /\ NoQuickReuse'
  <2>1. \A q \in Requests : pc'[q] \in {"bump", "commit"} => pc'[q] = pc[q]
    BY <1>0, <1>5 DEF ReadVersionForAccess, RevokeFirst, RequestsOK
  <2> QED BY <1>5, <2>1, HistoryQuiet DEF ReadVersionForAccess, RevokeFirst
<1>6. ASSUME NEW r \in Requests, CheckVersion(r) PROVE HistoryKept' /\ NoQuickReuse'
  <2>1. CASE Outdated(held[r])
    <3>1. Finish(r) /\ UNCHANGED <<row, past, crossed>>
      BY <1>6, <2>1 DEF CheckVersion
    <3>2. pc'[r] = "idle"
          /\ \A q \in Requests : q # r => pc'[q] = pc[q] /\ want'[q] = want[q] /\ copy'[q] = copy[q]
      BY <1>0, <3>1 DEF RequestsOK, RowOK
    <3> QED BY <3>1, <3>2, HistoryQuiet
  <2>2. CASE ~Outdated(held[r])
    <3>1. UNCHANGED <<row, past, crossed, want, copy>>
          /\ \E s \in {"mint", "revoke", "load"} : pc' = [pc EXCEPT ![r] = s]
      BY <1>6, <2>2 DEF CheckVersion
    <3>2. \A q \in Requests : pc'[q] \in {"bump", "commit"} => pc'[q] = pc[q]
      BY <1>0, <3>1 DEF RequestsOK
    <3> QED BY <3>1, <3>2, HistoryQuiet
  <2> QED BY <2>1, <2>2
<1>7. ASSUME NEW r \in Requests, LoadUser(r) PROVE HistoryKept' /\ NoQuickReuse'
  <2>1. \A q \in Requests : pc'[q] \in {"bump", "commit"} => pc'[q] = pc[q] /\ q # r
    BY <1>0, <1>7 DEF LoadUser, RequestsOK
  <2>2. \A q \in Requests : q # r => copy'[q] = copy[q]
    BY <1>0, <1>7 DEF LoadUser, RowOK
  <2> QED BY <1>7, <2>1, <2>2, HistoryQuiet DEF LoadUser
<1>8. ASSUME NEW r \in Requests, NEW new \in Passwords, CheckPasswords(r, new)
      PROVE HistoryKept' /\ NoQuickReuse'
  <2>1. new \notin RangeOf(LastOf(copy[r].history, CheckDepth))
        /\ UNCHANGED <<row, copy, past, crossed>>
        /\ want' = [want EXCEPT ![r] = new] /\ pc' = [pc EXCEPT ![r] = "bump"]
    BY <1>8 DEF CheckPasswords
  <2>2. want'[r] = new /\ \A q \in Requests : q # r => want'[q] = want[q] /\ pc'[q] = pc[q]
    BY <1>0, <2>1 DEF RowOK, RequestsOK
  <2>3. HistoryKept'
    BY <2>1, <2>2 DEF HistoryKept
  <2>4. NoQuickReuse'
    BY <2>1 DEF NoQuickReuse
  <2> QED BY <2>3, <2>4
<1>9. ASSUME NEW r \in Requests, WriteVersion(r) PROVE HistoryKept' /\ NoQuickReuse'
  <2>1. pc[r] = "bump" /\ \A q \in Requests : q # r => pc'[q] = pc[q]
    BY <1>0, <1>9 DEF WriteVersion, RequestsOK
  <2> QED BY <1>9, <2>1, HistoryQuiet DEF WriteVersion
<1>10. ASSUME NEW r \in Requests, CommitChange(r) PROVE HistoryKept' /\ NoQuickReuse'
  <2>1. \A q \in Requests : pc'[q] \in {"bump", "commit"} =>
           pc'[q] = pc[q] /\ want'[q] = want[q] /\ copy'[q] = copy[q]
    BY <1>0, <1>10 DEF CommitChange, RequestsOK, RowOK
  <2>2. CASE crossed'
    BY <2>1, <2>2 DEF HistoryKept, NoQuickReuse
  <2>3. CASE ~crossed'
    <3>1. /\ ~crossed /\ copy[r].password = row.password /\ copy[r].history = row.history
          /\ past' = Append(past, row.password)
      BY <1>10, <2>3 DEF CommitChange
    <3>2. /\ past \in Seq(Passwords) /\ row.password \in Passwords /\ want[r] \in Passwords
          /\ row.history \in Seq(Passwords)
      BY <1>0 DEF RowOK, Row
    <3>3. row.history = LastOf(past, Keep)
      BY <3>1 DEF HistoryKept
    <3>4. row'.password = want[r]
          /\ row'.history = LastOf(Append(copy[r].history, copy[r].password), Keep)
      BY <1>0, <1>10 DEF CommitChange, RowOK, Row
    <3>5. row'.history = LastOf(past', Keep)
      BY <3>1, <3>2, <3>3, <3>4, LastOfAppend
    <3>6. HistoryKept'
      BY <2>1, <3>5 DEF HistoryKept
    <3>7. want[r] \notin RangeOf(LastOf(LastOf(past, Keep), CheckDepth))
      BY <1>10, <3>1, <3>3 DEF HistoryKept, CommitChange
    <3> DEFINE before == Append(past, row.password)
               after == Append(before, want[r])
    <3>8. /\ before \in Seq(Passwords) /\ Len(before) = Len(past) + 1 /\ Len(past) \in Nat
          /\ \A i \in 1..Len(past) : before[i] = past[i]
      BY <3>2, AppendProperties
    <3> HIDE DEF before
    <3>9. /\ Len(after) = Len(before) + 1 /\ after[Len(before) + 1] = want[r]
          /\ \A i \in 1..Len(before) : after[i] = before[i]
      BY <3>2, <3>8, AppendProperties
    <3>10. Append(past', row'.password) = after
      BY <3>1, <3>4 DEF before
    <3> HIDE DEF after
    <3>11. ASSUME NEW i \in 1..Len(after), NEW j \in 1..Len(after),
                  i + 1 < j, j <= i + CheckDepth + 1, after[i] = after[j]
           PROVE  FALSE
      <4>1. CASE j \in 1..Len(before)
        <5>1. i \in 1..Len(before)
          BY <3>8, <3>11, <4>1
        <5>2. before[i] = before[j]
          BY <3>9, <3>11, <4>1, <5>1
        <5> QED BY <3>1, <3>11, <4>1, <5>1, <5>2 DEF NoQuickReuse, before
      <4>2. CASE j = Len(before) + 1
        <5>1. i \in 1..Len(past) /\ i + CheckDepth > Len(past)
          BY <3>8, <3>11, <4>2
        <5>2. past[i] \in RangeOf(LastOf(LastOf(past, Keep), CheckDepth))
          BY <3>2, <5>1, LastOfReaches
        <5>3. i \in 1..Len(before) /\ after[i] = past[i]
          BY <3>8, <3>9, <5>1
        <5> QED BY <3>7, <3>9, <3>11, <4>2, <5>2, <5>3
      <4> QED BY <3>8, <3>9, <4>1, <4>2
    <3>12. NoQuickReuse'
      BY <3>10, <3>11 DEF NoQuickReuse
    <3> QED BY <3>6, <3>12
  <2> QED BY <2>2, <2>3
<1>11. CASE LockRunsOut
  <2>1. row'.password = row.password /\ row'.history = row.history
    BY <1>0, <1>11 DEF LockRunsOut, RowOK, Row
  <2> QED BY <1>11, <2>1, HistoryQuiet DEF LockRunsOut
<1>12. CASE Tick \/ UNCHANGED vars
  BY <1>12, HistoryQuiet DEF Tick, vars
<1> QED
  BY <1>1, <1>2, <1>3, <1>4, <1>5, <1>6, <1>7, <1>8, <1>9, <1>10, <1>11, <1>12
  DEF Next, Begin, Step

\* For any depths with no more passwords checked than kept (the code checks 5 and
\* keeps 10): unless two changes overlapped, no password is set again before as
\* many others as are checked, except the one just replaced.
THEOREM OldPasswordsStayOut ==
    ASSUME CheckDepth <= Keep
    PROVE  Spec => []NoQuickReuse
<1>1. Init => HistoryKept /\ NoQuickReuse
  <2> SUFFICES ASSUME Init PROVE HistoryKept /\ NoQuickReuse
      OBVIOUS
  <2> USE UserAuthAssumption
  <2>1. past = << >> /\ row.history = << >> /\ row.password = First
    BY DEF Init, Registered
  <2>2. past \in Seq(Passwords) /\ Len(past) = 0 /\ Keep \in Nat
    BY <2>1
  <2>3. Len(LastOf(past, Keep)) = 0 /\ LastOf(past, Keep) \in Seq(Passwords)
    <3>1. Len(LastOf(past, Keep)) = IF Len(past) > Keep THEN Keep ELSE Len(past)
      BY <2>2, LastOfElements
    <3>2. LastOf(past, Keep) \in Seq(Passwords)
      BY <2>2, LastOfType
    <3> QED BY <2>2, <3>1, <3>2
  <2>4. LastOf(past, Keep) = << >>
    BY <2>3
  <2>5. HistoryKept
    BY <2>1, <2>4 DEF Init, HistoryKept
  <2>6. Len(Append(past, row.password)) = 1
    BY <2>1
  <2>7. NoQuickReuse
    BY <2>6 DEF NoQuickReuse
  <2> QED BY <2>5, <2>7
<1>2. TypeOK /\ HistoryKept /\ NoQuickReuse /\ [Next]_vars => (HistoryKept /\ NoQuickReuse)'
  BY HistoryStep
<1> QED BY <1>1, <1>2, TypeInit, TypeStep, PTL DEF Spec
=============================================================================
