-------------------------- MODULE ServerLinkProofs --------------------------
(***************************************************************************)
(* Proofs about ServerLink, for any number of connections, refusals and    *)
(* other programs.                                                         *)
(***************************************************************************)
EXTENDS ServerLink, FiniteSetTheorems, TLAPS

States == {"none", "refused", "open", "replaced", "closing"}
Live == {"refused", "open", "replaced", "closing"}
Count(tab, S) == Cardinality({c \in Conns : tab[c] \in S})
One(b) == IF b THEN 1 ELSE 0

(* The attempts under way, as RetryChains adds them up.                    *)
N == Count(conn, Live)
R == Count(conn, {"refused"})

(* The 'error' events so far and those that may still come.                *)
WithinBound == errors + R <= MaxErrors

(* The inductive invariant.                                                *)
IInv == TypeOK /\ RetryChains /\ WithinBound

-----------------------------------------------------------------------------
(* Counting connections.                                                   *)

(* Counts are numbers.                                                     *)
LEMMA CountType ==
  ASSUME NEW tab, NEW S
  PROVE  Count(tab, S) \in Nat
<1>1. IsFiniteSet({c \in Conns : tab[c] \in S})
  BY ConnsAssumption, FS_Subset
<1> QED
  BY <1>1, FS_CardinalityType DEF Count

(* Only connection c may come into S or go out of it.                      *)
LEMMA CountStep ==
  ASSUME NEW f, NEW g, NEW S, NEW c \in Conns,
         \A d \in Conns : d # c => (g[d] \in S <=> f[d] \in S)
  PROVE  Count(g, S) = Count(f, S) + One(g[c] \in S) - One(f[c] \in S)
<1> DEFINE F == {d \in Conns : f[d] \in S}
           G == {d \in Conns : g[d] \in S}
<1>1. IsFiniteSet(F) /\ IsFiniteSet(G)
  BY ConnsAssumption, FS_Subset
<1>2. Cardinality(F) \in Nat /\ Cardinality(G) \in Nat
  BY <1>1, FS_CardinalityType
<1>3. Count(f, S) = Cardinality(F) /\ Count(g, S) = Cardinality(G)
  BY DEF Count
<1>4. CASE f[c] \in S <=> g[c] \in S
  <2>1. F = G
    BY <1>4
  <2> HIDE DEF F, G
  <2> QED
    BY <1>2, <1>3, <1>4, <2>1 DEF One
<1>5. CASE f[c] \notin S /\ g[c] \in S
  <2>1. G = F \cup {c} /\ c \notin F
    BY <1>5
  <2>2. Cardinality(G) = Cardinality(F) + 1
    BY <1>1, <2>1, FS_AddElement
  <2> HIDE DEF F, G
  <2> QED
    BY <1>2, <1>3, <1>5, <2>2 DEF One
<1>6. CASE f[c] \in S /\ g[c] \notin S
  <2>1. G = F \ {c} /\ c \in F
    BY <1>6
  <2>2. Cardinality(G) = Cardinality(F) - 1
    BY <1>1, <2>1, FS_RemoveElement
  <2> HIDE DEF F, G
  <2> QED
    BY <1>2, <1>3, <1>6, <2>2 DEF One
<1> QED
  BY <1>4, <1>5, <1>6

(* One connection comes into S.                                            *)
LEMMA Enters ==
  ASSUME NEW f, NEW g, NEW S, NEW c \in Conns,
         \A d \in Conns : d # c => (g[d] \in S <=> f[d] \in S),
         f[c] \notin S, g[c] \in S
  PROVE  Count(g, S) = Count(f, S) + 1
<1>1. Count(g, S) = Count(f, S) + One(g[c] \in S) - One(f[c] \in S)
  BY CountStep
<1>2. One(g[c] \in S) = 1 /\ One(f[c] \in S) = 0
  BY DEF One
<1> QED
  BY <1>1, <1>2, CountType

(* One connection goes out of S.                                           *)
LEMMA Leaves ==
  ASSUME NEW f, NEW g, NEW S, NEW c \in Conns,
         \A d \in Conns : d # c => (g[d] \in S <=> f[d] \in S),
         f[c] \in S, g[c] \notin S
  PROVE  Count(g, S) = Count(f, S) - 1
<1>1. Count(g, S) = Count(f, S) + One(g[c] \in S) - One(f[c] \in S)
  BY CountStep
<1>2. One(g[c] \in S) = 0 /\ One(f[c] \in S) = 1
  BY DEF One
<1> QED
  BY <1>1, <1>2, CountType

(* A connection goes out of S, others may, and none comes in.              *)
LEMMA Shrinks ==
  ASSUME NEW f, NEW g, NEW S, NEW c \in Conns, f[c] \in S, g[c] \notin S,
         \A d \in Conns : g[d] \in S => f[d] \in S
  PROVE  Count(g, S) <= Count(f, S) - 1
<1> DEFINE F == {d \in Conns : f[d] \in S}
           G == {d \in Conns : g[d] \in S}
<1>1. IsFiniteSet(F)
  BY ConnsAssumption, FS_Subset
<1>2. G \subseteq F \ {c} /\ c \in F
  OBVIOUS
<1>3. IsFiniteSet(F \ {c}) /\ Cardinality(F \ {c}) = Cardinality(F) - 1
  BY <1>1, <1>2, FS_RemoveElement
<1>4. Cardinality(G) <= Cardinality(F \ {c})
  BY <1>2, <1>3, FS_Subset
<1>5. Count(f, S) = Cardinality(F) /\ Count(g, S) = Cardinality(G)
  BY DEF Count
<1> QED
  BY <1>3, <1>4, <1>5

(* Nothing comes into S or goes out of it.                                 *)
LEMMA CountSame ==
  ASSUME NEW f, NEW g, NEW S,
         \A d \in Conns : g[d] \in S <=> f[d] \in S
  PROVE  Count(g, S) = Count(f, S)
<1>1. {d \in Conns : g[d] \in S} = {d \in Conns : f[d] \in S}
  OBVIOUS
<1> QED
  BY <1>1 DEF Count

-----------------------------------------------------------------------------

(* What RetryChains says of the numbers.                                   *)
Sum(t, n, f) == t + n = IF Doubled THEN 1 + f ELSE 1

(* The counts are numbers, before and after a step.                        *)
LEMMA Counts == N \in Nat /\ R \in Nat /\ N' \in Nat /\ R' \in Nat
  BY CountType DEF N, R

(* RetryChains as a sum.                                                   *)
LEMMA Chains == RetryChains <=> Sum(timers, N, errors)
  BY DEF RetryChains, InState, Count, Live, N, Sum, Extra

(* The same after a step.                                                  *)
LEMMA ChainsAfter ==
  ASSUME UNCHANGED kind
  PROVE  RetryChains' <=> Sum(timers', N', errors')
<1>1. Doubled' <=> Doubled
  BY DEF Doubled
<1> QED
  BY <1>1 DEF RetryChains, InState, Count, Live, N, Sum, Extra

(* A summand is bounded by the sum.                                        *)
LEMMA Bounded ==
  ASSUME NEW t \in Nat, NEW n \in Nat, NEW e \in Nat, t + n = 1 + e
  PROVE  t \in 0..(1 + e)
  OBVIOUS

(* A step that leaves kind alone keeps the invariant when it keeps the sum *)
(* and the bound: the timers are bounded by the chains.                    *)
LEMMA Conclude ==
  ASSUME IInv, UNCHANGED kind,
         conn' \in [Conns -> States], timers' \in Nat,
         errors' \in Nat, errors' + R' <= MaxErrors,
         current' \in Conns \cup {NoConn},
         path' \in {"absent", "stale", "bound", "listening"},
         backlog' \in Seq(Conns), client' \in Conns \cup {NoConn},
         others' \in 0..MaxOthers,
         Sum(timers, N, errors) => Sum(timers', N', errors')
  PROVE  IInv'
<1>1. Sum(timers', N', errors')
  BY Chains DEF IInv
<1>2. RetryChains'
  BY <1>1, ChainsAfter
<1>3. Doubled' <=> Doubled
  BY DEF Doubled
<1>4. timers' + N' = 1 + Extra' /\ Extra' \in Nat
  BY <1>1, <1>3 DEF Sum, Extra
<1>5. timers' \in 0..(1 + Extra')
  BY <1>4, Counts, Bounded
<1>6. errors' \in 0..MaxErrors
  BY Counts, BoundsAssumption
<1>7. kind' \in {"connectUnixSocket", "BridgeClient"}
  BY DEF IInv, TypeOK
<1>8. TypeOK'
  BY <1>5, <1>6, <1>7 DEF TypeOK, States
<1> QED
  BY <1>2, <1>8 DEF IInv, WithinBound

-----------------------------------------------------------------------------

(* The invariant holds initially.                                          *)
LEMMA Initially == Init => IInv
<1> SUFFICES ASSUME Init PROVE IInv
  OBVIOUS
<1>1. conn \in [Conns -> States] /\ \A c \in Conns : conn[c] = "none"
  BY DEF Init, States
<1>2. {c \in Conns : conn[c] \in Live} = {}
      /\ {c \in Conns : conn[c] \in {"refused"}} = {}
  BY <1>1 DEF Live
<1>3. N = 0 /\ R = 0
  BY <1>2, FS_EmptySet DEF N, R, Count
<1>4. timers = 1 /\ errors = 0 /\ Extra = 0
  BY DEF Init, Extra
<1>5. RetryChains
  BY <1>3, <1>4, Chains DEF Sum
<1>6. TypeOK
  BY <1>1, <1>4, BoundsAssumption DEF Init, TypeOK, States
<1>7. WithinBound
  BY <1>3, <1>4, BoundsAssumption DEF WithinBound
<1> QED
  BY <1>5, <1>6, <1>7 DEF IInv

(* The counters are numbers.                                               *)
LEMMA Numbers ==
  ASSUME IInv
  PROVE  timers \in Nat /\ errors \in Nat /\ MaxErrors \in Nat
         /\ errors + R <= MaxErrors
  BY BoundsAssumption DEF IInv, TypeOK, WithinBound, Extra

(* The steps of connect().                                                 *)
LEMMA Connecting ==
  ASSUME IInv,
         \/ ConnectAbsent
         \/ \E c \in Conns : ConnectRefused(c) \/ Connect(c)
  PROVE  IInv'
<1>1. CASE ConnectAbsent
  <2>1. UNCHANGED <<conn, timers, current, errors, handlerVars, kind>>
    BY <1>1 DEF ConnectAbsent, Rescheduled
  <2> QED
    BY <2>1 DEF IInv, TypeOK, RetryChains, InState, Extra, Doubled,
                handlerVars, WithinBound, R, Count
<1>2. ASSUME NEW c \in Conns, ConnectRefused(c) PROVE IInv'
  <2>1. /\ conn[c] = "none" /\ conn' = [conn EXCEPT ![c] = "refused"]
        /\ timers > 0 /\ timers' = timers - 1
        /\ errors + R < MaxErrors
        /\ current' = c /\ UNCHANGED <<errors, handlerVars, kind>>
    BY <1>2 DEF ConnectRefused, Unused, InState, Count, R
  <2>2. /\ conn' \in [Conns -> States] /\ conn'[c] = "refused"
        /\ \A d \in Conns : d # c => conn'[d] = conn[d]
    BY <2>1 DEF IInv, TypeOK, States
  <2>3. N' = N + 1
    <3>1. \A d \in Conns : d # c => (conn'[d] \in Live <=> conn[d] \in Live)
      BY <2>2
    <3>2. conn[c] \notin Live /\ conn'[c] \in Live
      BY <2>1, <2>2 DEF Live
    <3> QED
      BY <3>1, <3>2, Enters DEF N
  <2>7. R' = R + 1
    <3>1. \A d \in Conns : d # c =>
            (conn'[d] \in {"refused"} <=> conn[d] \in {"refused"})
      BY <2>2
    <3>2. conn[c] \notin {"refused"} /\ conn'[c] \in {"refused"}
      BY <2>1, <2>2
    <3> QED
      BY <3>1, <3>2, Enters DEF R
  <2>4. /\ timers' \in Nat /\ errors' \in Nat
        /\ errors' + R' <= MaxErrors
    BY <2>1, <2>7, Numbers, Counts
  <2>5. Sum(timers, N, errors) => Sum(timers', N', errors')
    BY <2>1, <2>3, <2>7, Counts, Numbers DEF Sum
  <2>6. /\ current' \in Conns \cup {NoConn}
        /\ path' = path /\ backlog' = backlog
        /\ client' = client /\ others' = others
    BY <2>1 DEF handlerVars
  <2> QED
    BY <2>1, <2>2, <2>4, <2>5, <2>6, Conclude DEF IInv, TypeOK
<1>3. ASSUME NEW c \in Conns, Connect(c) PROVE IInv'
  <2>1. /\ conn[c] = "none" /\ conn' = [conn EXCEPT ![c] = "open"]
        /\ timers > 0 /\ timers' = timers - 1
        /\ backlog' = Append(backlog, c)
        /\ current' = c /\ UNCHANGED <<errors, path, client, others, kind>>
    BY <1>3 DEF Connect, Unused
  <2>2. /\ conn' \in [Conns -> States] /\ conn'[c] = "open"
        /\ \A d \in Conns : d # c => conn'[d] = conn[d]
    BY <2>1 DEF IInv, TypeOK, States
  <2>3. N' = N + 1
    <3>1. \A d \in Conns : d # c => (conn'[d] \in Live <=> conn[d] \in Live)
      BY <2>2
    <3>2. conn[c] \notin Live /\ conn'[c] \in Live
      BY <2>1, <2>2 DEF Live
    <3> QED
      BY <3>1, <3>2, Enters DEF N
  <2>6. R' = R
    <3>1. \A d \in Conns : conn'[d] \in {"refused"} <=> conn[d] \in {"refused"}
      BY <2>1, <2>2
    <3> QED
      BY <3>1, CountSame DEF R
  <2>4. /\ timers' \in Nat /\ backlog' \in Seq(Conns)
        /\ errors' \in Nat /\ errors' + R' <= MaxErrors
    BY <2>1, <2>6, Numbers DEF IInv, TypeOK
  <2>5. Sum(timers, N, errors) => Sum(timers', N', errors')
    BY <2>1, <2>3, <2>6, Counts, Numbers DEF Sum
  <2> QED
    BY <2>1, <2>2, <2>4, <2>5, Conclude DEF IInv, TypeOK
<1> QED
  BY <1>1, <1>2, <1>3

(* The callbacks of a connection that ends.                                *)
LEMMA Ending ==
  ASSUME IInv, NEW c \in Conns, OnError(c) \/ OnClose(c)
  PROVE  IInv'
<1>2. CASE OnError(c)
  <2>1. /\ conn[c] = "refused"
        /\ conn' = Destroyed([conn EXCEPT ![c] = "closing"])
        /\ current' \in {NoConn, current}
        /\ timers' = IF Doubled THEN timers + 1 ELSE timers
        /\ errors' = errors + 1 /\ UNCHANGED <<handlerVars, kind>>
    BY <1>2 DEF OnError, RetriesOnError, Doubled
  <2>2. /\ conn' \in [Conns -> States] /\ conn'[c] = "closing"
        /\ \A d \in Conns : d # c =>
             \/ conn'[d] = conn[d]
             \/ conn[d] \in {"refused", "open", "replaced"}
                /\ conn'[d] = "closing"
    BY <2>1 DEF Destroyed, IInv, TypeOK, States
  <2>3. N' = N
    <3>1. \A d \in Conns : conn'[d] \in Live <=> conn[d] \in Live
      BY <2>1, <2>2 DEF Live
    <3> QED
      BY <3>1, CountSame DEF N
  <2>4. R' <= R - 1
    <3>1. Count(conn', {"refused"}) <= Count(conn, {"refused"}) - 1
      BY <2>1, <2>2, Shrinks
    <3> QED
      BY <3>1 DEF R
  <2>5. /\ timers' \in Nat /\ errors' \in Nat
        /\ errors' + R' <= MaxErrors
    BY <2>1, <2>4, Numbers, Counts
  <2>6. Sum(timers, N, errors) => Sum(timers', N', errors')
    BY <2>1, <2>3, Counts, Numbers DEF Sum
  <2>7. /\ current' \in Conns \cup {NoConn}
        /\ path' = path /\ backlog' = backlog
        /\ client' = client /\ others' = others
    BY <2>1 DEF handlerVars, IInv, TypeOK
  <2> QED
    BY <2>1, <2>2, <2>5, <2>6, <2>7, Conclude DEF IInv, TypeOK
<1>3. CASE OnClose(c)
  <2>1. /\ conn[c] \in {"closing", "replaced"}
        /\ conn' = [conn EXCEPT ![c] = "none"]
        /\ current' = NoConn /\ timers' = timers + 1
        /\ UNCHANGED <<errors, handlerVars, kind>>
    BY <1>3 DEF OnClose
  <2>2. /\ conn' \in [Conns -> States] /\ conn'[c] = "none"
        /\ \A d \in Conns : d # c => conn'[d] = conn[d]
    BY <2>1 DEF IInv, TypeOK, States
  <2>3. N' = N - 1
    <3>1. \A d \in Conns : d # c => (conn'[d] \in Live <=> conn[d] \in Live)
      BY <2>2
    <3>2. conn[c] \in Live /\ conn'[c] \notin Live
      BY <2>1, <2>2 DEF Live
    <3> QED
      BY <3>1, <3>2, Leaves DEF N
  <2>4. R' = R
    <3>1. \A d \in Conns : conn'[d] \in {"refused"} <=> conn[d] \in {"refused"}
      BY <2>1, <2>2
    <3> QED
      BY <3>1, CountSame DEF R
  <2>5. /\ timers' \in Nat /\ errors' \in Nat
        /\ errors' + R' <= MaxErrors
    BY <2>1, <2>4, Numbers
  <2>6. Sum(timers, N, errors) => Sum(timers', N', errors')
    BY <2>1, <2>3, <2>4, Counts, Numbers DEF Sum
  <2>7. /\ current' \in Conns \cup {NoConn}
        /\ path' = path /\ backlog' = backlog
        /\ client' = client /\ others' = others
    BY <2>1 DEF handlerVars
  <2> QED
    BY <2>1, <2>2, <2>5, <2>6, <2>7, Conclude DEF IInv, TypeOK
<1> QED
  BY <1>2, <1>3

(* The handler replaces a client, which ends no attempt by itself.         *)
LEMMA Accepting ==
  ASSUME IInv, Accept \/ AcceptOther
  PROVE  IInv'
<1>1. /\ conn' = Replaced
      /\ UNCHANGED <<path, current, timers, errors, kind>>
  BY DEF Accept, AcceptOther
<1>2. /\ conn' \in [Conns -> States]
      /\ \A d \in Conns : \/ conn'[d] = conn[d]
                          \/ conn[d] = "open" /\ conn'[d] = "replaced"
  BY <1>1 DEF Replaced, IInv, TypeOK, States
<1>3. N' = N
  <2>1. \A d \in Conns : conn'[d] \in Live <=> conn[d] \in Live
    BY <1>2 DEF Live
  <2> QED
    BY <2>1, CountSame DEF N
<1>4. R' = R
  <2>1. \A d \in Conns : conn'[d] \in {"refused"} <=> conn[d] \in {"refused"}
    BY <1>2
  <2> QED
    BY <2>1, CountSame DEF R
<1>5. /\ backlog' \in Seq(Conns) /\ client' \in Conns \cup {NoConn}
      /\ others' \in 0..MaxOthers
  <2>1. CASE Accept
    BY <2>1 DEF Accept, IInv, TypeOK
  <2>2. CASE AcceptOther
    <3>1. others < MaxOthers /\ others' = others + 1 /\ client' = NoConn
          /\ backlog' = backlog /\ others \in 0..MaxOthers /\ MaxOthers \in Nat
          /\ backlog \in Seq(Conns)
      BY <2>2, BoundsAssumption DEF AcceptOther, IInv, TypeOK
    <3> QED
      BY <3>1
  <2> QED
    BY <2>1, <2>2
<1>6. timers' \in Nat /\ errors' \in Nat /\ errors' + R' <= MaxErrors
  BY <1>1, <1>4, Numbers
<1>7. Sum(timers, N, errors) => Sum(timers', N', errors')
  BY <1>1, <1>3, <1>4
<1> QED
  BY <1>1, <1>2, <1>5, <1>6, <1>7, Conclude DEF IInv, TypeOK

(* The listener is opened.                                                 *)
LEMMA Opening ==
  ASSUME IInv, OpenListener
  PROVE  IInv'
<1>1. /\ path' \in {"absent", "stale", "bound", "listening"}
      /\ UNCHANGED <<nodeVars, backlog, client, others, kind>>
  BY DEF OpenListener, Step
<1> QED
  BY <1>1 DEF IInv, TypeOK, RetryChains, InState, Extra, Doubled, nodeVars,
              WithinBound, R, Count

(* Every step keeps the invariant.                                         *)
LEMMA Inductive == IInv /\ [Next]_vars => IInv'
<1> SUFFICES ASSUME IInv, [Next]_vars PROVE IInv'
  OBVIOUS
<1>1. CASE UNCHANGED vars
  BY <1>1 DEF IInv, TypeOK, RetryChains, InState, Extra, Doubled, vars,
              nodeVars, handlerVars, WithinBound, R, Count
<1>2. CASE Node
  BY <1>2, Connecting, Ending DEF Node
<1>3. CASE OpenListener
  BY <1>3, Opening
<1>4. CASE Accept \/ AcceptOther
  BY <1>4, Accepting
<1> QED
  BY <1>1, <1>2, <1>3, <1>4 DEF Next, Quiet

(* The inductive invariant holds in every behaviour of ServerLink.         *)
THEOREM Invariance == Spec => []IInv
  BY Initially, Inductive, PTL DEF Spec

(* Every variable keeps its type: the timers of BridgeClient never pile    *)
(* up, those of connectUnixSocket are bounded by the 'error' events.       *)
THEOREM TypeCorrect == Spec => []TypeOK
<1>1. IInv => TypeOK
  BY DEF IInv
<1> QED
  BY <1>1, Invariance, PTL

(* However the refusals, the replacements and the callbacks fall, a client *)
(* never loses its attempt to connect (BridgeClient has exactly one), and  *)
(* each 'error' event of connectUnixSocket, but no refusal that another    *)
(* attempt's 'error' forestalls, adds one for good (unix-socket.ts:40-50). *)
THEOREM RetriesKept == Spec => []RetryChains
<1>1. IInv => RetryChains
  BY DEF IInv
<1> QED
  BY <1>1, Invariance, PTL
=============================================================================
