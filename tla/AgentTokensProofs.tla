------------------------- MODULE AgentTokensProofs --------------------------
(***************************************************************************)
(* The agent's tokens for every set of goroutines, all life times and      *)
(* clocks within TimeAssumption.                                           *)
(*                                                                         *)
(* IInv is inductive.  A post goes out with a token that has more than     *)
(* Margin left by a clock that is off by at most Skew, or with one that    *)
(* was issued during the refresh before it; either outlives Timeout        *)
(* (Outlives).  The tokens on disk, and the client's, were issued at most  *)
(* Timeout before the last save, unless a save tore them (Fresh).          *)
(***************************************************************************)
EXTENDS AgentTokens, TLAPS

LEMMA InitIInv == ASSUME Init PROVE IInv
<1>1. Issue(0) \in Pair /\ Issue(0).refresh = RefreshTTL
  BY TimeAssumption DEF Issue, Pair
<1>2. TypeOK
  <2>1. 0 \in 0..MaxTime /\ 0 \in 0..0
    BY TimeAssumption
  <2>2. now \in 0..MaxTime /\ saved \in 0..now /\ mem \in Pair /\ disk \in Pair /\ known \in BOOLEAN
    BY <1>1, <2>1 DEF Init
  <2>3. /\ pc \in [Caller -> {"idle", "refresh", "answered", "post"}]
        /\ since \in [Caller -> 0..now] /\ issued \in [Caller -> 0..now]
        /\ token \in [Caller -> Nat]
    BY <2>1 DEF Init, Unknown
  <2>4. \A c \in Caller : ~InFlight(c) /\ ~Refreshing(c)
    BY DEF Init, InFlight, Refreshing
  <2> QED  BY <2>2, <2>3, <2>4 DEF TypeOK
<1>3. Fresh /\ Outlives
  BY <1>1, TimeAssumption DEF Init, Fresh, Outlives, Refreshing
<1> QED  BY <1>2, <1>3 DEF IInv

\* The calls that Over ends no longer matter; the others are as they were.
LEMMA OverKeeps ==
  ASSUME IInv, NEW C \in SUBSET Caller, Over(C), UNCHANGED <<now, disk, saved>>,
         mem' \in {mem, disk}, known' \in BOOLEAN
  PROVE  IInv'
<1>1. TypeOK'
  BY DEF IInv, TypeOK, Over, Unknown, InFlight, Refreshing, Pair
<1>2. Fresh'
  BY TimeAssumption DEF IInv, TypeOK, Fresh, Over, Pair, Refreshing
<1>3. Outlives'
  BY DEF IInv, Outlives, Over
<1> QED  BY <1>1, <1>2, <1>3 DEF IInv

LEMMA TickKeeps == ASSUME IInv, Tick PROVE IInv'
<1> USE DEF Tick, callVars
<1>1. TypeOK'
  BY TimeAssumption DEF IInv, TypeOK, InFlight, Refreshing
<1>2. Fresh' /\ Outlives'
  BY TimeAssumption DEF IInv, TypeOK, Fresh, Outlives, Refreshing, Pair
<1> QED  BY <1>1, <1>2 DEF IInv

LEMMA PostKeeps ==
  ASSUME IInv, NEW c \in Caller, NEW t \in Nat, Post(c, t), now + Timeout < t,
         UNCHANGED <<now, mem, known, disk, saved>>
  PROVE  IInv'
<1> USE DEF Post, Goto
<1>1. TypeOK'
  BY TimeAssumption DEF IInv, TypeOK, InFlight, Refreshing
<1>2. Fresh' /\ Outlives'
  BY DEF IInv, TypeOK, Fresh, Outlives, Refreshing
<1> QED  BY <1>1, <1>2 DEF IInv

LEMMA ValidTokenKeeps == ASSUME IInv, NEW c \in Caller, ValidToken(c) PROVE IInv'
<1>1. PICK clock \in (now - Skew)..(now + Skew) :
        IF known /\ mem.access - clock > Margin
        THEN Post(c, mem.access)
        ELSE /\ Goto(c, "refresh") /\ since' = [since EXCEPT ![c] = now]
             /\ UNCHANGED <<issued, token>>
  BY DEF ValidToken
<1>2. UNCHANGED <<now, mem, known, disk, saved>>
  BY DEF ValidToken
<1>3. CASE known /\ mem.access - clock > Margin
  <2>1. mem.access \in Nat /\ now + Timeout < mem.access
    BY <1>3, TimeAssumption DEF IInv, TypeOK, Pair
  <2> QED  BY <1>1, <1>2, <1>3, <2>1, PostKeeps
<1>4. CASE ~(known /\ mem.access - clock > Margin)
  <2>1. Goto(c, "refresh") /\ since' = [since EXCEPT ![c] = now] /\ UNCHANGED <<issued, token>>
    BY <1>1, <1>4
  <2>2. \A d \in Caller : ~Refreshing(d)
    BY DEF ValidToken, Locked, Refreshing
  <2>3. TypeOK'
    BY <1>2, <2>1, <2>2, TimeAssumption DEF IInv, TypeOK, Goto, InFlight, Refreshing
  <2>4. Fresh' /\ Outlives'
    BY <1>2, <2>1 DEF IInv, TypeOK, Fresh, Outlives, Refreshing, Goto
  <2> QED  BY <2>3, <2>4 DEF IInv
<1> QED  BY <1>3, <1>4

LEMMA HandleRefreshKeeps == ASSUME IInv, NEW c \in Caller, HandleRefresh(c) PROVE IInv'
<1> USE DEF HandleRefresh, Goto
<1>1. TypeOK'
  BY DEF IInv, TypeOK, InFlight, Refreshing
<1>2. Fresh' /\ Outlives'
  BY DEF IInv, TypeOK, Fresh, Outlives, Refreshing
<1> QED  BY <1>1, <1>2 DEF IInv

LEMMA RefreshedKeeps == ASSUME IInv, NEW c \in Caller, Refreshed(c) PROVE IInv'
<1> DEFINE new == Issue(issued[c])
<1>1. /\ pc[c] = "answered" /\ mem' = new /\ known' = TRUE /\ now' = now
      /\ (disk' = new /\ saved' = now) \/ (disk' \in {disk, Torn} /\ saved' = saved)
      /\ Post(c, new.access)
  BY DEF Refreshed, Save
<1>2. /\ issued[c] \in Nat /\ since[c] <= issued[c] /\ issued[c] <= now
      /\ now <= since[c] + Timeout /\ since[c] \in Nat /\ now \in Nat
  BY <1>1 DEF IInv, TypeOK, Fresh, InFlight, Refreshing
<1>3. new \in Pair /\ new.access = issued[c] + AccessTTL /\ new.refresh = issued[c] + RefreshTTL
  BY <1>2, TimeAssumption DEF Issue, Pair
<1>4. TypeOK'
  <2>1. mem' \in Pair /\ disk' \in Pair /\ saved' \in 0..now' /\ now' \in 0..MaxTime
    BY <1>1, <1>2, <1>3 DEF IInv, TypeOK, Torn, Unknown, Pair
  <2>2. pc' = [pc EXCEPT ![c] = "post"] /\ token' = [token EXCEPT ![c] = new.access]
        /\ since' = [since EXCEPT ![c] = now] /\ issued' = [issued EXCEPT ![c] = 0]
    BY <1>1 DEF Post, Goto
  <2>3. new.access \in Nat
    BY <1>2, <1>3, TimeAssumption
  <2> HIDE DEF new
  <2> QED  BY <1>1, <1>2, <2>1, <2>2, <2>3, TimeAssumption DEF IInv, TypeOK, InFlight, Refreshing
<1>5. saved' + RefreshTTL <= new.refresh + Timeout
  <2>1. saved \in Nat /\ saved <= now /\ now <= issued[c] + Timeout
    BY <1>2, TimeAssumption DEF IInv, TypeOK
  <2> HIDE DEF new
  <2> QED  BY <1>1, <1>2, <1>3, <2>1, TimeAssumption
<1>6. Fresh'
  <2>1. mem' # Torn
    <3>1. new.refresh # 0
      BY <1>2, <1>3, TimeAssumption
    <3> HIDE DEF new
    <3> QED  BY <1>1, <3>1 DEF Torn, Unknown
  <2>2. \A d \in Caller : pc'[d] = "answered" => since'[d] <= issued'[d]
    BY <1>1 DEF IInv, TypeOK, Fresh, Post, Goto
  <2> HIDE DEF new
  <2>3. disk' # Torn => saved' + RefreshTTL <= disk'.refresh + Timeout
    BY <1>1, <1>5 DEF IInv, Fresh
  <2> QED  BY <1>1, <1>5, <2>1, <2>2, <2>3 DEF Fresh
<1>7. Outlives'
  <2>1. now + Timeout < new.access
    BY <1>2, <1>3, TimeAssumption
  <2> HIDE DEF new
  <2> QED  BY <1>1, <2>1 DEF IInv, TypeOK, Outlives, Post, Goto
<1> QED  BY <1>4, <1>6, <1>7 DEF IInv

LEMMA NextKeeps == IInv /\ [Next]_vars => IInv'
<1> SUFFICES ASSUME IInv, [Next]_vars PROVE IInv'
  OBVIOUS
<1>1. CASE Tick
  BY <1>1, TickKeeps
<1>2. CASE Restart
  <2>1. Caller \in SUBSET Caller /\ Over(Caller) /\ mem' = disk /\ known' = FALSE
    BY <1>2 DEF Restart
  <2>2. UNCHANGED <<now, disk, saved>>
    BY <1>2 DEF Restart
  <2> QED  BY <2>1, <2>2, OverKeeps
<1>3. ASSUME NEW c \in Caller, ValidToken(c) PROVE IInv'
  BY <1>3, ValidTokenKeeps
<1>4. ASSUME NEW c \in Caller, HandleRefresh(c) PROVE IInv'
  BY <1>4, HandleRefreshKeeps
<1>5. ASSUME NEW c \in Caller, Refreshed(c) PROVE IInv'
  BY <1>5, RefreshedKeeps
<1>6. ASSUME NEW c \in Caller, End(c) PROVE IInv'
  <2>1. {c} \in SUBSET Caller /\ Over({c}) /\ UNCHANGED <<now, mem, known, disk, saved>>
    BY <1>6 DEF End
  <2>2. known' \in BOOLEAN
    BY <2>1 DEF IInv, TypeOK
  <2> QED  BY <2>1, <2>2, OverKeeps
<1>7. CASE UNCHANGED vars
  BY <1>7 DEF vars, callVars, IInv, TypeOK, Fresh, Outlives, InFlight, Refreshing
<1> QED  BY <1>1, <1>2, <1>3, <1>4, <1>5, <1>6, <1>7 DEF Next

LEMMA Inductive == Spec => []IInv
  BY InitIInv, NextKeeps, PTL DEF Spec

\* Every variable keeps its type, at most one goroutine refreshes at a time, and no
\* request outlives its time limit.
THEOREM TypeCorrect == Spec => []TypeOK
<1>1. IInv => TypeOK
  BY DEF IInv
<1> QED  BY <1>1, Inductive, PTL

\* No access token expires on its way: with any life times, margin and clock error
\* that TimeAssumption allows, the server never refuses a scan for its token.
THEOREM NoTokenExpiresInFlight == Spec => []SentValid
<1>1. IInv => SentValid
  <2> SUFFICES ASSUME IInv, NEW c \in Caller, pc[c] = "post" PROVE now < token[c]
    BY DEF SentValid
  <2>1. now <= since[c] + Timeout /\ since[c] + Timeout < token[c]
    BY DEF IInv, TypeOK, Outlives, InFlight
  <2>2. now \in Nat /\ since[c] \in Nat /\ token[c] \in Nat
    BY DEF IInv, TypeOK
  <2> QED  BY <2>1, <2>2, TimeAssumption
<1> QED  BY <1>1, Inductive, PTL

\* An agent that saved its tokens less than the life of a refresh token ago can
\* refresh, whatever was lost since and however often it restarts, unless a save has
\* torn its config file since: and then until it restarts.
THEOREM SavedTokensKeepAccess == Spec => []KeepsAccess
<1>1. IInv => KeepsAccess
  <2> SUFFICES ASSUME IInv, now + Timeout < saved + RefreshTTL
               PROVE  /\ now < mem.refresh \/ (mem = Torn /\ disk = Torn)
                      /\ now < disk.refresh \/ disk = Torn
    BY DEF KeepsAccess
  <2>1. /\ mem # Torn => saved + RefreshTTL <= mem.refresh + Timeout
        /\ disk # Torn => saved + RefreshTTL <= disk.refresh + Timeout
        /\ mem = Torn => disk = Torn
    BY DEF IInv, Fresh
  <2>2. now \in Nat /\ saved \in Nat /\ disk.refresh \in Nat /\ mem.refresh \in Nat
    BY DEF IInv, TypeOK, Pair
  <2> QED  BY <2>1, <2>2, TimeAssumption
<1> QED  BY <1>1, Inductive, PTL

=============================================================================
