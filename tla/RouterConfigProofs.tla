------------------------- MODULE RouterConfigProofs -------------------------
(***************************************************************************)
(* The goroutines that configure routers never wait, their outcomes are    *)
(* not lost, and no script is started without its files: proofs for        *)
(* RouterConfig, for any number of runs and routers.                       *)
(***************************************************************************)
EXTENDS RouterConfig, FiniteSetTheorems, TLAPS

Done(c) == { r \in rs[c] : work[c][r] = "done" }

(* Only the routers that a run looked at have a goroutine; none before.    *)
Started ==
  \A c \in Runs :
    /\ \A r \in Routers : work[c][r] # "none" => r \in rs[c]
    /\ run[c] = "new" => rs[c] = {}

(* What is in the channel was sent, once by each goroutine that is done.   *)
Sent == \A c \in Runs : Len(ch[c]) <= Cardinality(Done(c))

Bad(c) == \E r \in rs[c] : err[c][r]
InChannel(c) == \E k \in DOMAIN ch[c] : ch[c][k]

(* An error is with its goroutine, in the channel, or has been heard.      *)
Followed ==
  \A c \in Runs :
    /\ \A r \in Routers : err[c][r] => work[c][r] \in {"send", "done"}
    /\ InChannel(c) \/ failed[c] => Bad(c)
    /\ \A r \in Routers : work[c][r] = "done" /\ err[c][r] => InChannel(c) \/ failed[c]

(* The files that the goroutine of a router has copied are on its node.    *)
Copied ==
  \A c \in Runs, r \in Routers :
    /\ work[c][r] \in {"chart", "bootstrap", "start"} => "do-quagga-config.sh" \in onNode[r]
    /\ work[c][r] \in {"bootstrap", "start"} => "rc.json" \in onNode[r]
    /\ work[c][r] = "start" => "bootstrap.sh" \in onNode[r]

IInv == TypeOK /\ Started /\ Sent /\ Followed /\ Copied

LEMMA RoutersFinite ==
  ASSUME TypeOK, NEW c \in Runs
  PROVE  /\ IsFiniteSet(rs[c]) /\ IsFiniteSet(Done(c))
         /\ Cardinality(rs[c]) \in Nat /\ Cardinality(Done(c)) \in Nat
<1>1. rs[c] \in SUBSET Routers
  BY DEF TypeOK
<1>2. IsFiniteSet(rs[c])
  BY <1>1, RoutersAssumption, FS_Subset
<1>3. IsFiniteSet(Done(c))
  <2>1. Done(c) \in SUBSET rs[c]
    BY DEF Done
  <2> QED BY <1>2, <2>1, FS_Subset
<1> QED BY <1>2, <1>3, FS_CardinalityType

LEMMA InitIInv == Init => IInv
<1> SUFFICES ASSUME Init PROVE IInv
  OBVIOUS
<1>1. TypeOK
  BY DEF Init, TypeOK, Working, Copying
<1>2. Sent
  <2>1. \A c \in Runs : Cardinality(Done(c)) \in Nat /\ Len(ch[c]) = 0
    BY <1>1, RoutersFinite DEF Init
  <2> QED BY <2>1 DEF Sent
<1>3. Started /\ Copied
  BY DEF Init, Started, Copied
<1>4. Followed
  <2>1. \A c \in Runs : ch[c] = << >> /\ failed[c] = FALSE /\ \A r \in Routers : err[c][r] = FALSE
    BY DEF Init
  <2> QED BY <2>1 DEF Followed, InChannel
<1> QED BY <1>1, <1>2, <1>3, <1>4 DEF IInv

LEMMA OnRunKeeps ==
  ASSUME IInv, NEW c \in Runs, OnRun(c)
  PROVE  IInv'
<1>1. PICK now \in SUBSET Routers :
        /\ rs' = [rs EXCEPT ![c] = now]
        /\ work' = [work EXCEPT ![c] = [r \in Routers |-> IF r \in now THEN "config" ELSE "none"]]
  BY DEF OnRun
<1>2. /\ run[c] = "new" /\ run' = [run EXCEPT ![c] = "hearing"]
      /\ UNCHANGED <<err, ch, failed, onNode>>
  BY DEF OnRun
<1>3. rs[c] = {} /\ \A r \in Routers : work[c][r] = "none"
  BY <1>2 DEF IInv, Started
<1>4. TypeOK'
  BY <1>1, <1>2 DEF IInv, TypeOK, Working, Copying
<1>5. \A g \in Runs \ {c} : work'[g] = work[g] /\ rs'[g] = rs[g]
  BY <1>1 DEF IInv, TypeOK
<1>6. rs'[c] = now /\ \A r \in Routers : work'[c][r] = IF r \in now THEN "config" ELSE "none"
  BY <1>1 DEF IInv, TypeOK
<1>7. Started'
  BY <1>2, <1>5, <1>6 DEF IInv, Started, TypeOK
<1>8. Sent'
  <2>1. Len(ch[c]) = 0
    <3>1. Done(c) = {}
      BY <1>3 DEF Done
    <3>2. Len(ch[c]) <= 0
      BY <3>1, FS_EmptySet DEF IInv, Sent
    <3>3. ch[c] \in Seq(BOOLEAN)
      BY DEF IInv, TypeOK
    <3> QED BY <3>2, <3>3
  <2>2. Cardinality(Done(c)') \in Nat
    BY <1>4, RoutersFinite, RoutersAssumption, FS_Subset, FS_CardinalityType DEF Done, TypeOK
  <2>3. \A g \in Runs \ {c} : Done(g)' = Done(g)
    BY <1>5 DEF Done
  <2> QED BY <1>2, <2>1, <2>2, <2>3 DEF IInv, Sent
<1>9. Followed'
  <2>1. ~Bad(c) /\ ~InChannel(c) /\ ~failed[c] /\ \A r \in Routers : ~err[c][r]
    BY <1>3 DEF IInv, Followed, Bad
  <2>2. \A g \in Runs : InChannel(g)' = InChannel(g)
    BY <1>2 DEF InChannel
  <2>3. \A g \in Runs \ {c} : Bad(g)' = Bad(g)
    BY <1>2, <1>5 DEF Bad
  <2> QED BY <1>2, <1>5, <2>1, <2>2, <2>3 DEF IInv, Followed
<1>10. Copied'
  BY <1>2, <1>5, <1>6 DEF IInv, Copied
<1> QED BY <1>4, <1>7, <1>8, <1>9, <1>10 DEF IInv

(* A goroutine that goes on, without sending, copies or has failed.        *)
LEMMA WorkKeeps ==
  ASSUME IInv, NEW c \in Runs, NEW r \in Routers,
         \/ SyncConfig(c, r) \/ SyncChart(c, r) \/ SyncBootstrap(c, r)
         \/ Bootstrap(c, r) \/ Fails(c, r)
  PROVE  IInv'
<1>1. PICK from \in Copying \cup {"start"}, to \in Copying \cup {"start", "send"} : Go(c, r, from, to)
  BY DEF SyncConfig, SyncChart, SyncBootstrap, Bootstrap, Fails, Copy, Copying
<1>2. /\ work[c][r] = from /\ work' = [work EXCEPT ![c][r] = to]
      /\ UNCHANGED <<run, rs, ch, failed>>
  BY <1>1 DEF Go
<1>3. /\ work'[c][r] = to /\ \A q \in Routers \ {r} : work'[c][q] = work[c][q]
      /\ \A g \in Runs \ {c} : work'[g] = work[g]
  BY <1>2 DEF IInv, TypeOK
<1>4. TypeOK'
  <2>1. onNode' \in [Routers -> SUBSET Files]
    BY DEF SyncConfig, SyncChart, SyncBootstrap, Bootstrap, Fails, Copy, Files, IInv, TypeOK
  <2>2. err' \in [Runs -> [Routers -> BOOLEAN]]
    <3>1. CASE Fails(c, r)
      BY <3>1 DEF Fails, IInv, TypeOK
    <3>2. CASE ~Fails(c, r)
      BY <3>2 DEF SyncConfig, SyncChart, SyncBootstrap, Bootstrap, Copy, IInv, TypeOK
    <3> QED BY <3>1, <3>2
  <2>3. work' \in [Runs -> [Routers -> Working \cup {"none", "done"}]]
    <3>1. [work[c] EXCEPT ![r] = to] \in [Routers -> Working \cup {"none", "done"}]
      BY DEF IInv, TypeOK, Working
    <3> QED BY <1>2, <3>1 DEF IInv, TypeOK
  <2> QED BY <1>2, <2>1, <2>2, <2>3 DEF IInv, TypeOK
<1>5. Started'
  BY <1>2, <1>3 DEF IInv, Started, Copying
<1>6. Sent'
  <2>1. \A g \in Runs : Done(g)' = Done(g)
    BY <1>2, <1>3 DEF Done, Copying, IInv, TypeOK
  <2> QED BY <1>2, <2>1 DEF IInv, Sent
<1>7. Copied'
  <2>1. \A q \in Routers : onNode[q] \subseteq onNode'[q]
    BY DEF SyncConfig, SyncChart, SyncBootstrap, Bootstrap, Fails, Copy, IInv, TypeOK
  <2>2. ASSUME NEW g \in Runs, NEW q \in Routers, g # c \/ q # r
        PROVE  work'[g][q] = work[g][q]
    BY <1>3, <2>2
  <2>3. /\ work'[c][r] \in {"chart", "bootstrap", "start"} => "do-quagga-config.sh" \in onNode'[r]
        /\ work'[c][r] \in {"bootstrap", "start"} => "rc.json" \in onNode'[r]
        /\ work'[c][r] = "start" => "bootstrap.sh" \in onNode'[r]
    <3>1. CASE SyncConfig(c, r)
      BY <3>1, <2>1 DEF SyncConfig, Copy, Go, IInv, TypeOK, Copied
    <3>2. CASE SyncChart(c, r)
      BY <3>2, <2>1 DEF SyncChart, Copy, Go, IInv, TypeOK, Copied
    <3>3. CASE SyncBootstrap(c, r)
      BY <3>3, <2>1 DEF SyncBootstrap, Copy, Go, IInv, TypeOK, Copied
    <3>4. CASE Bootstrap(c, r) \/ Fails(c, r)
      BY <3>4 DEF Bootstrap, Fails, Go, IInv, TypeOK
    <3> QED BY <3>1, <3>2, <3>3, <3>4
  <2> QED BY <2>1, <2>2, <2>3 DEF IInv, Copied
<1>8. Followed'
  <2>1. \A g \in Runs : InChannel(g)' = InChannel(g)
    BY <1>2 DEF InChannel
  <2>2. CASE err' = err
    <3>1. \A g \in Runs : Bad(g)' = Bad(g)
      BY <1>2, <2>2 DEF Bad
    <3>2. ~err[c][r]
      BY <1>2 DEF IInv, Followed, Copying
    <3> QED BY <1>2, <1>3, <2>1, <2>2, <3>1, <3>2 DEF IInv, Followed, Copying
  <2>3. CASE err' = [err EXCEPT ![c][r] = TRUE] /\ to = "send"
    <3>1. /\ err'[c][r] = TRUE /\ \A q \in Routers \ {r} : err'[c][q] = err[c][q]
          /\ \A g \in Runs \ {c} : err'[g] = err[g]
      BY <2>3 DEF IInv, TypeOK
    <3>2. r \in rs[c] /\ rs[c] \subseteq Routers
      BY <1>2 DEF IInv, Started, TypeOK, Copying
    <3>3. Bad(c)' /\ \A g \in Runs \ {c} : Bad(g)' = Bad(g)
      BY <1>2, <3>1, <3>2 DEF Bad
    <3> QED BY <1>2, <1>3, <2>1, <2>3, <3>1, <3>3 DEF IInv, Followed
  <2>4. err' = err \/ (err' = [err EXCEPT ![c][r] = TRUE] /\ to = "send")
    <3>1. CASE Fails(c, r)
      <4>1. work'[c][r] = "send"
        BY <3>1 DEF Fails, Go, IInv, TypeOK
      <4> QED BY <1>3, <3>1, <4>1 DEF Fails
    <3>2. CASE ~Fails(c, r)
      BY <3>2 DEF SyncConfig, SyncChart, SyncBootstrap, Bootstrap, Copy
    <3> QED BY <3>1, <3>2
  <2> QED BY <2>2, <2>3, <2>4
<1> QED BY <1>4, <1>5, <1>6, <1>7, <1>8 DEF IInv

LEMMA SendKeeps ==
  ASSUME IInv, NEW c \in Runs, NEW r \in Routers, Send(c, r)
  PROVE  IInv'
<1>1. /\ work[c][r] = "send" /\ work' = [work EXCEPT ![c][r] = "done"]
      /\ ch' = [ch EXCEPT ![c] = Append(@, err[c][r])]
      /\ UNCHANGED <<run, rs, err, failed, onNode>>
  BY DEF Send
<1>2. /\ work'[c][r] = "done" /\ \A q \in Routers \ {r} : work'[c][q] = work[c][q]
      /\ \A g \in Runs \ {c} : work'[g] = work[g] /\ ch'[g] = ch[g]
      /\ ch'[c] = Append(ch[c], err[c][r])
      /\ ch[c] \in Seq(BOOLEAN) /\ err[c][r] \in BOOLEAN
      /\ rs[c] \subseteq Routers
  BY <1>1 DEF IInv, TypeOK
<1>3. TypeOK'
  <2>1. ch' \in [Runs -> Seq(BOOLEAN)]
    BY <1>1, <1>2 DEF IInv, TypeOK
  <2>2. [work[c] EXCEPT ![r] = "done"] \in [Routers -> Working \cup {"none", "done"}]
    BY DEF IInv, TypeOK
  <2>3. work' \in [Runs -> [Routers -> Working \cup {"none", "done"}]]
    BY <1>1, <2>2 DEF IInv, TypeOK
  <2> QED BY <1>1, <2>1, <2>3 DEF IInv, TypeOK
<1>4. r \in rs[c]
  BY <1>1 DEF IInv, Started
<1>5. Started'
  BY <1>1, <1>2, <1>4 DEF IInv, Started
<1>6. Sent'
  <2>1. Done(c)' = Done(c) \cup {r} /\ r \notin Done(c)
    BY <1>1, <1>2, <1>4 DEF Done
  <2>2. Cardinality(Done(c)') = Cardinality(Done(c)) + 1 /\ Cardinality(Done(c)) \in Nat
    BY <2>1, RoutersFinite, FS_AddElement DEF IInv
  <2>3. Len(ch'[c]) = Len(ch[c]) + 1 /\ Len(ch[c]) \in Nat
    BY <1>2
  <2>4. \A g \in Runs \ {c} : Done(g)' = Done(g)
    BY <1>1, <1>2 DEF Done
  <2> QED BY <1>2, <2>2, <2>3, <2>4 DEF IInv, Sent
<1>7. Followed'
  <2>1. \A g \in Runs \ {c} : InChannel(g)' = InChannel(g)
    BY <1>2 DEF InChannel
  <2>2. InChannel(c)' <=> InChannel(c) \/ err[c][r]
    <3>1. /\ \A k \in DOMAIN ch[c] : k \in DOMAIN ch'[c] /\ ch'[c][k] = ch[c][k]
          /\ Len(ch[c]) + 1 \in DOMAIN ch'[c] /\ ch'[c][Len(ch[c]) + 1] = err[c][r]
          /\ \A k \in DOMAIN ch'[c] : k \in DOMAIN ch[c] \/ k = Len(ch[c]) + 1
      BY <1>2
    <3> QED BY <3>1 DEF InChannel
  <2>3. \A g \in Runs : Bad(g)' = Bad(g)
    BY <1>1 DEF Bad
  <2> QED BY <1>1, <1>2, <1>4, <2>1, <2>2, <2>3 DEF IInv, Followed, Bad
<1>8. Copied'
  BY <1>1, <1>2 DEF IInv, Copied
<1> QED BY <1>3, <1>5, <1>6, <1>7, <1>8 DEF IInv

LEMMA TailOf ==
  ASSUME NEW S, NEW s \in Seq(S), s # << >>
  PROVE  /\ Tail(s) \in Seq(S) /\ Len(Tail(s)) = Len(s) - 1
         /\ Head(s) = s[1] /\ Head(s) \in S /\ 1 \in DOMAIN s
         /\ \A k \in DOMAIN Tail(s) : k + 1 \in DOMAIN s /\ Tail(s)[k] = s[k + 1]
         /\ \A k \in DOMAIN s \ {1} : k - 1 \in DOMAIN Tail(s) /\ Tail(s)[k - 1] = s[k]
OBVIOUS

LEMMA HearKeeps ==
  ASSUME IInv, NEW c \in Runs, Hear(c)
  PROVE  IInv'
<1>1. /\ ch[c] # << >> /\ ch' = [ch EXCEPT ![c] = Tail(@)]
      /\ failed' = [failed EXCEPT ![c] = @ \/ Head(ch[c])]
      /\ UNCHANGED <<run, rs, work, err, onNode>>
  BY DEF Hear
<1>2. /\ ch[c] \in Seq(BOOLEAN)
      /\ ch'[c] = Tail(ch[c]) /\ failed'[c] = (failed[c] \/ Head(ch[c]))
      /\ \A g \in Runs \ {c} : ch'[g] = ch[g] /\ failed'[g] = failed[g]
  <2>1. ch \in [Runs -> Seq(BOOLEAN)] /\ failed \in [Runs -> BOOLEAN]
    BY DEF IInv, TypeOK
  <2> QED BY <1>1, <2>1
<1>3. TypeOK'
  <2>1. ch' \in [Runs -> Seq(BOOLEAN)]
    <3>1. Tail(ch[c]) \in Seq(BOOLEAN)
      BY <1>1, <1>2, TailOf
    <3> QED BY <1>1, <3>1 DEF IInv, TypeOK
  <2>2. failed' \in [Runs -> BOOLEAN]
    BY <1>1, <1>2 DEF IInv, TypeOK
  <2> QED BY <1>1, <2>1, <2>2 DEF IInv, TypeOK
<1>4. Started' /\ Copied'
  BY <1>1 DEF IInv, Started, Copied
<1>5. Sent'
  <2>1. Len(ch'[c]) = Len(ch[c]) - 1 /\ Len(ch[c]) \in Nat
    <3>1. Len(Tail(ch[c])) = Len(ch[c]) - 1
      BY <1>1, <1>2, TailOf
    <3>2. Len(ch[c]) \in Nat
      <4>1. ch[c] \in Seq(BOOLEAN)
        BY DEF IInv, TypeOK
      <4> QED BY <4>1
    <3>3. ch'[c] = Tail(ch[c])
      BY <1>2
    <3> QED BY <3>1, <3>2, <3>3
  <2>2. \A g \in Runs : Done(g)' = Done(g) /\ Cardinality(Done(g)) \in Nat
    BY <1>1, RoutersFinite DEF Done, IInv
  <2>3. \A g \in Runs \ {c} : ch'[g] = ch[g]
    BY <1>2
  <2>4. \A g \in Runs : Len(ch[g]) <= Cardinality(Done(g))
    BY DEF IInv, Sent
  <2> QED BY <2>1, <2>2, <2>3, <2>4 DEF Sent
<1>6. Followed'
  <2>1. \A g \in Runs \ {c} : InChannel(g)' = InChannel(g)
    BY <1>2 DEF InChannel
  <2>2. InChannel(c) <=> InChannel(c)' \/ Head(ch[c])
    <3>1. /\ 1 \in DOMAIN ch[c] /\ Head(ch[c]) = ch[c][1]
          /\ \A k \in DOMAIN ch'[c] : k + 1 \in DOMAIN ch[c] /\ ch'[c][k] = ch[c][k + 1]
          /\ \A k \in DOMAIN ch[c] \ {1} : k - 1 \in DOMAIN ch'[c] /\ ch'[c][k - 1] = ch[c][k]
      <4>1. ch'[c] = Tail(ch[c])
        BY <1>2
      <4>2. /\ 1 \in DOMAIN ch[c] /\ Head(ch[c]) = ch[c][1]
            /\ \A k \in DOMAIN Tail(ch[c]) : k + 1 \in DOMAIN ch[c] /\ Tail(ch[c])[k] = ch[c][k + 1]
            /\ \A k \in DOMAIN ch[c] \ {1} : k - 1 \in DOMAIN Tail(ch[c])
                                            /\ Tail(ch[c])[k - 1] = ch[c][k]
        <5>1. ch[c] \in Seq(BOOLEAN) /\ ch[c] # << >>
          BY <1>1 DEF IInv, TypeOK
        <5> QED BY ONLY <5>1, TailOf
      <4> QED BY <4>1, <4>2
    <3> QED BY <3>1 DEF InChannel
  <2>3. \A g \in Runs : Bad(g)' = Bad(g)
    BY <1>1 DEF Bad
  <2> QED BY <1>1, <1>2, <2>1, <2>2, <2>3 DEF IInv, Followed
<1> QED BY <1>3, <1>4, <1>5, <1>6 DEF IInv

LEMMA StepIInv == IInv /\ [Next]_vars => IInv'
<1> SUFFICES ASSUME IInv, [Next]_vars PROVE IInv'
  OBVIOUS
<1>1. ASSUME NEW c \in Runs, OnRun(c) \/ Hear(c) PROVE IInv'
  BY <1>1, OnRunKeeps, HearKeeps
<1>2. ASSUME NEW c \in Runs, NEW r \in Routers, ConfigRouter(c, r) PROVE IInv'
  BY <1>2, WorkKeeps, SendKeeps DEF ConfigRouter
<1>3. CASE UNCHANGED vars
  BY <1>3 DEF vars, IInv, TypeOK, Started, Sent, Done, Followed, InChannel, Bad, Copied
<1> QED BY <1>1, <1>2, <1>3 DEF Next

LEMMA Invariant == Spec => []IInv
BY InitIInv, StepIInv, PTL DEF Spec

---------------------------------------------------------------------------
(* However many routers there are, each goroutine has room for its outcome *)
(* in the channel that configRouters makes, whether or not it is heard.    *)
THEOREM SendersAlwaysPass == Spec => []SendersPass
<1>1. IInv => SendersPass
  <2> SUFFICES ASSUME IInv, NEW c \in Runs, NEW r \in Routers, work[c][r] = "send"
               PROVE  Len(ch[c]) < Capacity(c)
    BY DEF SendersPass
  <2>1. r \in rs[c] /\ Done(c) \in SUBSET (rs[c] \ {r})
    BY DEF IInv, Started, Done
  <2>2. /\ IsFiniteSet(rs[c] \ {r})
        /\ Cardinality(rs[c] \ {r}) = Cardinality(rs[c]) - 1
    BY <2>1, RoutersFinite, FS_RemoveElement DEF IInv
  <2>3. Cardinality(Done(c)) <= Cardinality(rs[c]) - 1
    BY <2>1, <2>2, FS_Subset
  <2>4. /\ Cardinality(Done(c)) \in Nat /\ Cardinality(rs[c]) \in Nat /\ Len(ch[c]) \in Nat
        /\ Len(ch[c]) <= Cardinality(Done(c))
    BY RoutersFinite DEF IInv, Sent, TypeOK
  <2> QED BY <2>3, <2>4 DEF Capacity
<1> QED BY <1>1, Invariant, PTL

(* Once all goroutines of a run have sent and it has heard them, it knows  *)
(* of an error if and only if one of them has failed.                      *)
THEOREM FailuresAreKept == Spec => []FailureKept
<1>1. IInv => FailureKept
  <2> SUFFICES ASSUME IInv, NEW c \in Runs, ch[c] = << >>,
                      \A r \in rs[c] : work[c][r] = "done"
               PROVE  failed[c] <=> \E r \in rs[c] : err[c][r]
    BY DEF FailureKept
  <2>1. ~InChannel(c) /\ rs[c] \subseteq Routers
    BY DEF InChannel, IInv, TypeOK
  <2> QED BY <2>1 DEF IInv, Followed, Bad
<1> QED BY <1>1, Invariant, PTL

(* The script is only started on a node that has the three files, however  *)
(* many runs configure the router at once.                                 *)
THEOREM BootstrapsArePrepared == Spec => BootstrapPrepared
<1>1. IInv /\ [Next]_vars =>
        [\A c \in Runs, r \in Routers : Bootstrap(c, r) => onNode[r] = Files]_vars
  <2> SUFFICES ASSUME IInv, NEW c \in Runs, NEW r \in Routers, Bootstrap(c, r)
               PROVE  onNode[r] = Files
    OBVIOUS
  <2>1. work[c][r] = "start"
    BY DEF Bootstrap, Go
  <2>2. onNode[r] \subseteq Files
    BY DEF IInv, TypeOK
  <2> QED BY <2>1, <2>2 DEF IInv, Copied, Files
<1> QED BY <1>1, Invariant, PTL DEF Spec, BootstrapPrepared
=============================================================================
