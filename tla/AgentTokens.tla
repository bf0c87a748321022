---------------------------- MODULE AgentTokens -----------------------------
(***************************************************************************)
(* The agent's JWTs over time: validToken, refresh and Post of             *)
(* internal/transport/client.go, the copy in the config file, and          *)
(* handleRefresh and jwtMiddleware of the server, which keeps no record of *)
(* the tokens it has issued: a token is valid until its exp claim, however *)
(* many newer ones there are.                                              *)
(*                                                                         *)
(* Time is the server's clock, a number of units that Tick advances; the   *)
(* agent's clock may be wrong by Skew either way.  A token is its expiry.  *)
(* A call ends within Timeout, the limit of http.Client; what the agent    *)
(* does between two calls takes no time.                                   *)
(*                                                                         *)
(* os.WriteFile empties the config file before it writes: a save that      *)
(* fails on the way leaves less than the tokens (Torn), and its error is   *)
(* ignored.  The client does not notice until it starts again; from then   *)
(* on no refresh succeeds, and the agent has to be enrolled anew, which    *)
(* Enrollment has, with the crash that comes in the middle of a save.      *)
(***************************************************************************)
EXTENDS Integers

CONSTANTS
  Caller,      \* goroutines that call Post: scans, cache flushes
  AccessTTL, RefreshTTL,
  Margin,      \* refresh when no more than this remains: 2 minutes
  Timeout,     \* 30 seconds
  Skew,        \* how wrong the agent's clock may be
  MaxTime      \* bound: the clock

\* The margin makes up for the time a request takes and for the clock, and a token is
\* good for its own refresh and the request that follows.
ASSUME TimeAssumption ==
  /\ AccessTTL \in Nat /\ RefreshTTL \in Nat /\ Margin \in Nat
  /\ Timeout \in Nat /\ Skew \in Nat /\ MaxTime \in Nat
  /\ Timeout + Skew <= Margin
  /\ 2 * Timeout < AccessTTL /\ AccessTTL <= RefreshTTL

Unknown == 0   \* no token

VARIABLES
  now,
  mem,     \* the client's access and refresh token
  known,   \* tokenExpiry is set
  disk,    \* the tokens in the config file
  saved,   \* when tokens were last saved whole
  pc,      \* where each call of Post is
  since,   \* when its request was sent
  issued,  \* when the server issued the answer to its refresh
  token    \* the access token of its post

callVars == <<pc, since, issued, token>>
vars == <<now, mem, known, disk, saved, callVars>>

Pair == [access : Nat, refresh : Nat]
Issue(t) == [access |-> t + AccessTTL, refresh |-> t + RefreshTTL]
Torn == [access |-> Unknown, refresh |-> Unknown]
Goto(c, l) == pc' = [pc EXCEPT ![c] = l]

\* The calls of the goroutines C are over.
Over(C) ==
  /\ pc' = [c \in Caller |-> IF c \in C THEN "idle" ELSE pc[c]]
  /\ since' = [c \in Caller |-> IF c \in C THEN 0 ELSE since[c]]
  /\ issued' = [c \in Caller |-> IF c \in C THEN 0 ELSE issued[c]]
  /\ token' = [c \in Caller |-> IF c \in C THEN Unknown ELSE token[c]]

\* The client's mutex is held during a refresh.
Refreshing(c) == pc[c] \in {"refresh", "answered"}
Locked == \E c \in Caller : Refreshing(c)

InFlight(c) == Refreshing(c) \/ pc[c] = "post"

-----------------------------------------------------------------------------
\* Mutant of Tick: no time limit on requests.
TickOn ==
  /\ now < MaxTime /\ now' = now + 1
  /\ UNCHANGED <<mem, known, disk, saved, callVars>>

Tick ==
  /\ now < MaxTime
  /\ \A c \in Caller : InFlight(c) => now < since[c] + Timeout
  /\ now' = now + 1
  /\ UNCHANGED <<mem, known, disk, saved, callVars>>

Post(c, t) ==
  /\ Goto(c, "post") /\ token' = [token EXCEPT ![c] = t]
  /\ since' = [since EXCEPT ![c] = now] /\ issued' = [issued EXCEPT ![c] = 0]

\* Mutant of ValidToken: a token is used until it expires.
UseUntilExpiry(c) ==
  /\ pc[c] = "idle" /\ ~Locked
  /\ \E clock \in (now - Skew)..(now + Skew) :
       IF known /\ mem.access - clock > 0
       THEN Post(c, mem.access)
       ELSE /\ Goto(c, "refresh") /\ since' = [since EXCEPT ![c] = now]
            /\ UNCHANGED <<issued, token>>
  /\ UNCHANGED <<now, mem, known, disk, saved>>

\* validToken: the token is good for more than Margin by the agent's clock, or it is
\* refreshed.
ValidToken(c) ==
  /\ pc[c] = "idle" /\ ~Locked
  /\ \E clock \in (now - Skew)..(now + Skew) :
       IF known /\ mem.access - clock > Margin
       THEN Post(c, mem.access)
       ELSE /\ Goto(c, "refresh") /\ since' = [since EXCEPT ![c] = now]
            /\ UNCHANGED <<issued, token>>
  /\ UNCHANGED <<now, mem, known, disk, saved>>

\* handleRefresh: a refresh token that is not expired gets a new pair.
HandleRefresh(c) ==
  /\ pc[c] = "refresh" /\ now < mem.refresh
  /\ issued' = [issued EXCEPT ![c] = now] /\ Goto(c, "answered")
  /\ UNCHANGED <<now, mem, known, disk, saved, since, token>>

\* config.Save, whose error is ignored ("best-effort persist"): the file is written; or
\* it is not opened; or it is empty or cut off.
Save(tokens) == \/ disk' = tokens /\ saved' = now
                \/ disk' \in {disk, Torn} /\ UNCHANGED saved

\* Mutant of Refreshed: the config gets the refresh token that was used.
RefreshedAccessOnly(c) ==
  /\ pc[c] = "answered"
  /\ mem' = Issue(issued[c]) /\ known' = TRUE
  /\ Save([mem' EXCEPT !.refresh = mem.refresh])
  /\ Post(c, mem'.access)
  /\ UNCHANGED now

\* The answer arrives.  The new token goes straight into the post.
Refreshed(c) ==
  /\ pc[c] = "answered"
  /\ mem' = Issue(issued[c]) /\ known' = TRUE
  /\ Save(mem')
  /\ Post(c, mem'.access)
  /\ UNCHANGED now

\* The post is answered; or a request or its answer is lost, late or not readable,
\* or a refresh is refused.
End(c) ==
  /\ InFlight(c) /\ Over({c})
  /\ UNCHANGED <<now, mem, known, disk, saved>>

\* The agent ends and starts again, at once or later: transport.New.
Restart ==
  /\ mem' = disk /\ known' = FALSE
  /\ Over(Caller)
  /\ UNCHANGED <<now, disk, saved>>

-----------------------------------------------------------------------------
\* Time 0 is the enrollment.
Init ==
  /\ now = 0 /\ saved = 0
  /\ mem = Issue(0) /\ disk = Issue(0) /\ known = FALSE
  /\ pc = [c \in Caller |-> "idle"] /\ since = [c \in Caller |-> 0]
  /\ issued = [c \in Caller |-> 0] /\ token = [c \in Caller |-> Unknown]

Next ==
  \/ Tick \/ Restart
  \/ \E c \in Caller : ValidToken(c) \/ HandleRefresh(c) \/ Refreshed(c) \/ End(c)

Spec == Init /\ [][Next]_vars

-----------------------------------------------------------------------------
\* Every variable has its type; one call at a time refreshes, and no request is in
\* flight for longer than Timeout.
TypeOK ==
  /\ now \in 0..MaxTime /\ saved \in 0..now
  /\ mem \in Pair /\ disk \in Pair /\ known \in BOOLEAN
  /\ pc \in [Caller -> {"idle", "refresh", "answered", "post"}]
  /\ since \in [Caller -> 0..now] /\ issued \in [Caller -> 0..now]
  /\ token \in [Caller -> Nat]
  /\ \A c \in Caller : InFlight(c) => now <= since[c] + Timeout
  /\ \A c \in Caller, d \in Caller : Refreshing(c) /\ Refreshing(d) => c = d

\* The server never refuses a scan because of its token: whichever goroutine sends it,
\* after however many refreshes, lost answers and restarts, the token is valid for as
\* long as the request may take, though the clocks differ.
SentValid == \A c \in Caller : pc[c] = "post" => now < token[c]

\* An agent whose tokens were last saved within the life of a refresh token can
\* refresh, now and after a restart, though answers were lost and refreshes failed.
\* What takes its access is a save that fails halfway, and only in this way: the file
\* is torn, and the agent starts again before a later save has mended it.
KeepsAccess ==
  now + Timeout < saved + RefreshTTL =>
    /\ now < mem.refresh \/ (mem = Torn /\ disk = Torn)
    /\ now < disk.refresh \/ disk = Torn

-----------------------------------------------------------------------------
(* What these invariants rest on (AgentTokensProofs).                      *)

\* An answer was issued while its request was in flight.  Whole tokens, the client's
\* and those on disk, were issued at most Timeout before the last save, or later; the
\* client's are torn only if those on disk are.
Fresh ==
  /\ \A c \in Caller : pc[c] = "answered" => since[c] <= issued[c]
  /\ mem # Torn => saved + RefreshTTL <= mem.refresh + Timeout
  /\ disk # Torn => saved + RefreshTTL <= disk.refresh + Timeout
  /\ mem = Torn => disk = Torn

\* A token in flight outlives its request.
Outlives == \A c \in Caller : pc[c] = "post" => since[c] + Timeout < token[c]

IInv == TypeOK /\ Fresh /\ Outlives

=============================================================================
