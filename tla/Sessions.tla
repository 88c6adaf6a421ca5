------------------------------ MODULE Sessions ------------------------------
(***************************************************************************)
(* Registration, logins with their lock, and sessions with refresh tokens. *)
(*                                                                         *)
(* Every request is a goroutine of the API: it reads the user or the       *)
(* session, works on what it has read, and writes in further statements;   *)
(* only the registration has a transaction.  A refresh token is a number,  *)
(* its hash is the number itself; access tokens, which no table remembers, *)
(* profiles and the audit are left out.                                    *)
(***************************************************************************)
EXTENDS Integers, FiniteSets

CONSTANTS Client, User,
          LockAfter,  \* wrong passwords until the user is locked
          LockTime, RefreshTTL,
          MaxSessions, MaxTokens, MaxTime, MaxGuesses, \* bounds
          None

SessionId == 1..MaxSessions
Token == 1..MaxTokens
UserRow == [fails : Nat, locked : BOOLEAN, until : Nat]
SessionRow == [user : User, hash : Token, active : BOOLEAN, expires : Nat]

SessionsAssumption ==
  /\ IsFiniteSet(Client) /\ None \notin UserRow \cup SessionRow
  /\ LockAfter \in Nat \ {0} /\ LockTime \in Nat /\ RefreshTTL \in Nat
  /\ MaxSessions \in Nat /\ MaxTokens \in Nat /\ MaxTime \in Nat /\ MaxGuesses \in Nat

VARIABLES
  users,     \* the users, None until registered
  sessions,  \* user_sessions
  now,
  tokens,    \* refresh tokens generated so far
  req,       \* the request of each client
  guesses,   \* wrong passwords since the user last logged in, until logins overlap; no code counts them
  overlaps,  \* users with two logins in flight at once, or one cut short
  uses,      \* refreshes that succeeded, per token
  together   \* refreshes in flight at once, per token, at most

ghosts == <<guesses, overlaps, uses, together>>
vars == <<users, sessions, now, tokens, req, ghosts>>

Stage == {"idle", "read", "fail", "lock", "touch", "issue", "rotate"}
Request == [stage : Stage, user : User \cup {None}, fails : Nat,
            session : SessionId \cup {None}, token : Token \cup {None}]
NoRequest == [stage |-> "idle", user |-> None, fails |-> 0, session |-> None, token |-> None]

Init ==
  /\ users = [u \in User |-> None] /\ sessions = [i \in SessionId |-> None]
  /\ now = 0 /\ tokens = 0
  /\ req = [c \in Client |-> NoRequest]
  /\ guesses = [u \in User |-> 0] /\ overlaps = {}
  /\ uses = [t \in Token |-> 0] /\ together = [t \in Token |-> 0]

-----------------------------------------------------------------------------
At(c, stage) == req[c].stage = stage
Answer(c) == req' = [req EXCEPT ![c] = NoRequest]
Go(c, stage) == req' = [req EXCEPT ![c].stage = stage]
LoggingIn(u) == {c \in Client : req[c].user = u /\ req[c].stage \in {"read", "fail", "lock", "touch"}}

\* is_locked, or locked_until ahead.
Locked(u) == users[u].locked \/ users[u].until > now

\* INSERT INTO users; username and email are UNIQUE.
InsertUser(u) ==
  /\ users[u] = None
  /\ users' = [users EXCEPT ![u] = [fails |-> 0, locked |-> FALSE, until |-> 0]]

\* The first user, when the process starts and finds none.
SeedAdmin(u) ==
  /\ \A v \in User : users[v] = None
  /\ InsertUser(u) /\ UNCHANGED <<sessions, now, tokens, req, ghosts>>

\* By an administrator: no tokens are issued.
CreateUser(u) == InsertUser(u) /\ UNCHANGED <<sessions, now, tokens, req, ghosts>>

\* Organization, user and role in one transaction; the tokens come after it.
Register(c, u) ==
  /\ At(c, "idle") /\ InsertUser(u)
  /\ req' = [req EXCEPT ![c] = [NoRequest EXCEPT !.stage = "issue", !.user = u]]
  /\ UNCHANGED <<sessions, now, tokens, ghosts>>

\* ByLogin, and the refusal of users who are locked.
Login(c, u) ==
  /\ At(c, "idle") /\ users[u] # None /\ ~Locked(u)
  /\ req' = [req EXCEPT ![c] = [NoRequest EXCEPT !.stage = "read", !.user = u, !.fails = users[u].fails]]
  /\ overlaps' = IF LoggingIn(u) # {} THEN overlaps \cup {u} ELSE overlaps
  /\ UNCHANGED <<users, sessions, now, tokens, guesses, uses, together>>

CheckPassword(c, correct) ==
  /\ At(c, "read")
  /\ correct \/ (guesses[req[c].user] < MaxGuesses /\ req[c].fails < MaxGuesses)
  /\ Go(c, IF correct THEN "touch" ELSE "fail")
  /\ guesses' = IF correct \/ req[c].user \in overlaps THEN guesses ELSE [guesses EXCEPT ![req[c].user] = @ + 1]
  /\ UNCHANGED <<users, sessions, now, tokens, overlaps, uses, together>>

\* Mutant of Fails: the count stays as it was read.
FailsAsRead(c) == req[c].fails

\* The count read, plus one.
Fails(c) == req[c].fails + 1

\* The first statement of FailLogin.
FailLogin(c) ==
  /\ At(c, "fail")
  /\ users' = [users EXCEPT ![req[c].user].fails = Fails(c)]
  /\ IF Fails(c) >= LockAfter THEN Go(c, "lock") ELSE Answer(c)
  /\ UNCHANGED <<sessions, now, tokens, ghosts>>

LockUser(c) ==
  /\ At(c, "lock")
  /\ users' = [users EXCEPT ![req[c].user] = [fails |-> 0, locked |-> TRUE, until |-> now + LockTime]]
  /\ Answer(c)
  /\ UNCHANGED <<sessions, now, tokens, ghosts>>

TouchLogin(c) ==
  /\ At(c, "touch")
  /\ users' = [users EXCEPT ![req[c].user] = [fails |-> 0, locked |-> FALSE, until |-> 0]]
  /\ guesses' = [guesses EXCEPT ![req[c].user] = 0]
  /\ Go(c, "issue")
  /\ UNCHANGED <<sessions, now, tokens, overlaps, uses, together>>

\* issueTokens; the ids of sessions and the tokens are new ones.
CreateSession(c) ==
  /\ At(c, "issue") /\ tokens < MaxTokens
  /\ \E i \in SessionId :
       /\ sessions[i] = None /\ \A k \in 1..i-1 : sessions[k] # None
       /\ sessions' = [sessions EXCEPT ![i] = [user |-> req[c].user, hash |-> tokens + 1,
                                               active |-> TRUE, expires |-> now + RefreshTTL]]
  /\ tokens' = tokens + 1 /\ Answer(c)
  /\ UNCHANGED <<users, now, ghosts>>

-----------------------------------------------------------------------------
Of(t) == {i \in SessionId : sessions[i] # None /\ sessions[i].hash = t}
Refreshing(t) == {c \in Client : req[c].stage = "rotate" /\ req[c].token = t}

\* SessionByRefresh with a token handed out before: an active session that has not expired.
Refresh(c, t) ==
  /\ At(c, "idle") /\ t <= tokens
  /\ \E i \in Of(t) :
       /\ sessions[i].active /\ sessions[i].expires >= now
       /\ req' = [req EXCEPT ![c] = [NoRequest EXCEPT !.stage = "rotate", !.session = i, !.token = t]]
  /\ together' = [together EXCEPT ![t] = IF @ > Cardinality(Refreshing(t)) THEN @
                                         ELSE Cardinality(Refreshing(t)) + 1]
  /\ UNCHANGED <<users, sessions, now, tokens, guesses, overlaps, uses>>

\* Mutant of RotateSession: the hash is not among the columns written.
RotateKeepingHash(c) ==
  /\ At(c, "rotate") /\ tokens < MaxTokens
  /\ sessions' = [sessions EXCEPT ![req[c].session].expires = now + RefreshTTL]
  /\ tokens' = tokens + 1
  /\ uses' = [uses EXCEPT ![req[c].token] = @ + 1]
  /\ Answer(c) /\ UNCHANGED <<users, now, guesses, overlaps, together>>

\* Mutant of RotateSession: the whole row is written.
RotateWhole(c) ==
  /\ At(c, "rotate") /\ tokens < MaxTokens
  /\ sessions' = [sessions EXCEPT ![req[c].session].hash = tokens + 1, ![req[c].session].active = TRUE]
  /\ tokens' = tokens + 1
  /\ uses' = [uses EXCEPT ![req[c].token] = @ + 1]
  /\ Answer(c) /\ UNCHANGED <<users, now, guesses, overlaps, together>>

\* By id: neither the hash nor is_active is looked at again.
RotateSession(c) ==
  /\ At(c, "rotate") /\ tokens < MaxTokens
  /\ sessions' = [sessions EXCEPT ![req[c].session].hash = tokens + 1,
                                  ![req[c].session].expires = now + RefreshTTL]
  /\ tokens' = tokens + 1
  /\ uses' = [uses EXCEPT ![req[c].token] = @ + 1]
  /\ Answer(c)
  /\ UNCHANGED <<users, now, guesses, overlaps, together>>

\* DeactivateByRefresh: no row, if the token has been rotated.
Logout(t) ==
  /\ t <= tokens /\ Of(t) # {}
  /\ sessions' = [i \in SessionId |-> IF i \in Of(t) THEN [sessions[i] EXCEPT !.active = FALSE] ELSE sessions[i]]
  /\ UNCHANGED <<users, now, tokens, req, ghosts>>

\* The request is cut short: what it has written stays.
Abort(c) ==
  /\ ~At(c, "idle") /\ Answer(c)
  /\ overlaps' = overlaps \cup {u \in User : c \in LoggingIn(u)}
  /\ UNCHANGED <<users, sessions, now, tokens, guesses, uses, together>>

Tick == now < MaxTime /\ now' = now + 1 /\ UNCHANGED <<users, sessions, tokens, req, ghosts>>

Next ==
  \/ \E c \in Client :
       \/ \E u \in User : Register(c, u) \/ Login(c, u)
       \/ \E correct \in BOOLEAN : CheckPassword(c, correct)
       \/ FailLogin(c) \/ LockUser(c) \/ TouchLogin(c) \/ CreateSession(c) \/ RotateSession(c)
       \/ \E t \in Token : Refresh(c, t)
       \/ Abort(c)
  \/ \E u \in User : SeedAdmin(u) \/ CreateUser(u)
  \/ \E t \in Token : Logout(t)
  \/ Tick

Spec == Init /\ [][Next]_vars

-----------------------------------------------------------------------------
\* Every variable keeps its shape; no two sessions have the same refresh token.
TypeOK ==
  /\ users \in [User -> UserRow \cup {None}]
  /\ sessions \in [SessionId -> SessionRow \cup {None}]
  /\ now \in 0..MaxTime /\ tokens \in 0..MaxTokens
  /\ req \in [Client -> Request]
  /\ guesses \in [User -> 0..MaxGuesses] /\ overlaps \in SUBSET User
  /\ uses \in [Token -> Nat] /\ together \in [Token -> Nat]
  /\ \A i, k \in SessionId : sessions[i] # None /\ sessions[k] # None /\ i # k
                               => sessions[i].hash # sessions[k].hash

\* As long as the logins of a user come one by one and run to their end, LockAfter
\* wrong passwords are the most there can be, and after them the user is locked:
\* it takes overlapping logins, whose counts overwrite each other, or one cut
\* short, to guess more often (Login, FailLogin).
GuessesBounded ==
  \A u \in User : u \notin overlaps /\ users[u] # None =>
    /\ guesses[u] <= LockAfter
    /\ guesses[u] = LockAfter /\ LoggingIn(u) = {} => Locked(u)

\* A refresh token works once: more than one refresh with it succeeds only if as
\* many were in flight together (Refresh, RotateSession).
TokenUsedOnce == \A t \in Token : uses[t] <= together[t]

\* The tables keep their shape and a refresh token its single use.
TokensAgree == TypeOK /\ TokenUsedOnce

\* A session that was logged out never becomes active again, whatever refresh
\* was under way with its token (Logout, RotateSession).
LogoutIsFinal ==
  [][\A i \in SessionId : sessions[i] # None /\ ~sessions[i].active => ~sessions'[i].active]_vars

=============================================================================
