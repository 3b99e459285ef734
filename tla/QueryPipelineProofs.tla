------------------------ MODULE QueryPipelineProofs ------------------------
(***************************************************************************)
(* Proofs about QueryPipeline for every number of client threads and of    *)
(* queries.                                                                *)
(***************************************************************************)
EXTENDS QueryPipeline, TLAPS

Entry == [of : Nat, next : Nat, by : Clients]

Local == [query : Nat \union {None}, taken : Nat \union {None},
          begun : Nat \union {None}, named : Nat \union {None}]

(* The local variables a thread may use where it is.                       *)
Assigned(c) ==
  /\ pc[c] # "idle" => local[c].query \in 1 .. served
  /\ pc[c] \in {"storing", "clearing"} => local[c].taken \in Nat
  /\ pc[c] \in {"naming", "consolidating"} => local[c].begun \in Nat
  /\ pc[c] = "consolidating" => local[c].named \in Nat

TypeInv == StateOK /\ \A c \in Clients : Assigned(c)

(* The query of c has not recorded its transition yet.                     *)
Unrecorded(c) ==
  pc[c] \in {"observing", "observed", "searched", "taking", "storing", "clearing",
             "deciding", "recording"}

(* A stored transition is about to be cleared by the thread that stored    *)
(* it, or it is gone: nobody who stored it can come by it again.           *)
Settled(i) ==
  LET n == buffer[i].of
      c == buffer[i].by
  IN /\ n \in finished
     /\ \/ pc[c] = "clearing" /\ local[c].taken = n
        \/ /\ last = None \/ last # n
           /\ ~(pc[c] = "storing" /\ local[c].taken = n)

(* Numbers of queries identify them.                                       *)
Numbered ==
  /\ last # None => last \in finished
  /\ \A c \in Clients :
       /\ pc[c] \in {"storing", "clearing"} => local[c].taken \in finished
       /\ Unrecorded(c) => local[c].query \notin finished
  /\ \A c, d \in Clients :
       Unrecorded(c) /\ Unrecorded(d) /\ local[c].query = local[d].query => c = d
  /\ finished \subseteq 1 .. served

OnceInv ==
  /\ Numbered
  /\ \A i \in DOMAIN buffer : Settled(i)
  /\ StoredOncePerClient

-----------------------------------------------------------------------------

LEMMA InitType == Init => TypeInv
<1> SUFFICES ASSUME Init PROVE TypeInv
  OBVIOUS
<1>1. served \in 0 .. MaxQueries /\ finished \subseteq 1 .. MaxQueries
      /\ missed \subseteq 1 .. MaxQueries
  BY PipelineAssumption DEF Init
<1>2. /\ last = None
      /\ phase \in Nat \ {0} /\ since \in 0 .. Full
      /\ recent_states \in 0 .. MinStates
  BY PipelineAssumption DEF Init, Clock!Init
<1>3. buffer = <<>> /\ consolidated = <<>>
  BY DEF Init
<1>4. /\ pc \in [Clients -> Places] /\ local \in [Clients -> Local]
      /\ \A c \in Clients : pc[c] = "idle"
  BY DEF Init, Places, Idle, Serving, Local
<1> QED
  BY <1>1, <1>2, <1>3, <1>4 DEF TypeInv, StateOK, Assigned, Local

(* A thread that moves to another place with new local variables.          *)
LEMMA MoveType ==
  ASSUME TypeInv, NEW c \in Clients, NEW p \in Places, NEW v \in Local,
         Goto(c, p), local' = [local EXCEPT ![c] = v], UNCHANGED served,
         p # "idle" => v.query \in 1 .. served,
         p \in {"storing", "clearing"} => v.taken \in Nat,
         p \in {"naming", "consolidating"} => v.begun \in Nat,
         p = "consolidating" => v.named \in Nat
  PROVE  /\ pc' \in [Clients -> Places] /\ local' \in [Clients -> Local]
         /\ \A d \in Clients : Assigned(d)'
<1>1. pc' \in [Clients -> Places] /\ local' \in [Clients -> Local]
  BY DEF TypeInv, StateOK, Goto, Local
<1>2. Assigned(c)'
  BY DEF TypeInv, StateOK, Goto, Assigned, Local
<1>3. \A d \in Clients : d # c => Assigned(d)'
  BY DEF TypeInv, StateOK, Goto, Assigned, Local
<1> QED
  BY <1>1, <1>2, <1>3

LEMMA IdleType == Idle \in Local
  BY DEF Idle, Serving, Local

(* Answering needs nothing.                                                *)
LEMMA AnswerType ==
  ASSUME TypeInv, NEW c \in Clients, Answer(c), UNCHANGED served
  PROVE  /\ pc' \in [Clients -> Places] /\ local' \in [Clients -> Local]
         /\ \A d \in Clients : Assigned(d)'
<1>1. Goto(c, "idle") /\ local' = [local EXCEPT ![c] = Idle]
  BY DEF Answer
<1>2. "idle" \in Places
  BY DEF Places
<1> QED
  BY <1>1, <1>2, IdleType, MoveType

(* A thread that only moves on.                                            *)
LEMMA GotoType ==
  ASSUME TypeInv, NEW c \in Clients, NEW p \in Places,
         Goto(c, p), UNCHANGED <<local, served>>,
         p # "idle" => pc[c] # "idle",
         p \in {"storing", "clearing"} => pc[c] \in {"storing", "clearing"},
         p \in {"naming", "consolidating"} => FALSE
  PROVE  /\ pc' \in [Clients -> Places] /\ local' \in [Clients -> Local]
         /\ \A d \in Clients : Assigned(d)'
<1>1. local[c] \in Local /\ local' = [local EXCEPT ![c] = local[c]]
  BY DEF TypeInv, StateOK, Local
<1>2. Assigned(c)
  BY DEF TypeInv
<1> QED
  BY <1>1, <1>2, MoveType DEF Assigned

LEMMA StepType == TypeInv /\ [Next]_vars => TypeInv'
<1> SUFFICES ASSUME TypeInv, [Next]_vars PROVE TypeInv'
  OBVIOUS
<1> USE DEF learning, drift, history
<1>1. ASSUME NEW c \in Clients, Begin(c) PROVE TypeInv'
  <2> DEFINE v == Serving(served + 1)
  <2>1. /\ served' = served + 1 /\ served' \in 0 .. MaxQueries
        /\ local' = [local EXCEPT ![c] = v]
        /\ Goto(c, "observing")
        /\ UNCHANGED <<last, learning, drift, history>>
    BY <1>1, PipelineAssumption DEF Begin, TypeInv, StateOK
  <2>2. v \in Local /\ v.query \in 1 .. (served + 1)
    BY DEF TypeInv, StateOK, Serving, Local
  <2>3. pc' \in [Clients -> Places] /\ local' \in [Clients -> Local]
    BY <2>1, <2>2 DEF TypeInv, StateOK, Local, Goto, Places
  <2>4. Assigned(c)'
    BY <2>1, <2>2 DEF TypeInv, StateOK, Local, Goto, Assigned
  <2>5. \A d \in Clients : d # c => Assigned(d)'
    BY <2>1 DEF TypeInv, StateOK, Goto, Assigned
  <2> QED
    BY <2>1, <2>3, <2>4, <2>5 DEF TypeInv, StateOK, Local
<1>2. ASSUME NEW c \in Clients, Observe(c) \/ FindSimilar(c) PROVE TypeInv'
  <2>1. /\ pc[c] # "idle"
        /\ UNCHANGED <<served, last, learning, drift, finished>>
    BY <1>2 DEF Observe, FindSimilar
  <2>2. CASE Miss(c)
    <3>1. /\ pc' \in [Clients -> Places] /\ local' \in [Clients -> Local]
          /\ \A d \in Clients : Assigned(d)'
      BY <2>1, <2>2, AnswerType DEF Miss
    <3>2. missed' \subseteq 1 .. MaxQueries
      <4>1. local[c].query \in 1 .. served /\ served \in 0 .. MaxQueries
        BY <2>1 DEF TypeInv, StateOK, Assigned
      <4>2. local[c].query \in 1 .. MaxQueries
        BY <4>1, PipelineAssumption
      <4> QED
        BY <2>2, <4>2 DEF Miss, TypeInv, StateOK
    <3> QED
      BY <2>1, <3>1, <3>2 DEF TypeInv, StateOK, Local
  <2>3. ASSUME NEW p \in {"observed", "searched"}, Goto(c, p), UNCHANGED <<local, missed>>
        PROVE  TypeInv'
    <3>1. p \in Places
      BY DEF Places
    <3>2. /\ pc' \in [Clients -> Places] /\ local' \in [Clients -> Local]
          /\ \A d \in Clients : Assigned(d)'
      BY <2>1, <2>3, <3>1, GotoType
    <3> QED
      BY <2>1, <2>3, <3>2 DEF TypeInv, StateOK, Local
  <2> QED
    BY <1>2, <2>2, <2>3 DEF Observe, FindSimilar
<1>3. ASSUME NEW c \in Clients, TestLast(c) PROVE TypeInv'
  <2>1. /\ Goto(c, IF last = None THEN "deciding" ELSE "taking")
        /\ pc[c] # "idle"
        /\ UNCHANGED <<served, last, learning, drift, local, history>>
    BY <1>3 DEF TestLast
  <2>2. /\ pc' \in [Clients -> Places] /\ local' \in [Clients -> Local]
        /\ \A d \in Clients : Assigned(d)'
    <3>1. "deciding" \in Places /\ "taking" \in Places
      BY DEF Places
    <3>2. CASE last = None
      BY <2>1, <3>1, <3>2, GotoType
    <3>3. CASE last # None
      BY <2>1, <3>1, <3>3, GotoType
    <3> QED
      BY <3>2, <3>3
  <2> QED
    BY <2>1, <2>2 DEF TypeInv, StateOK, Local
<1>4. ASSUME NEW c \in Clients, TakeLast(c) PROVE TypeInv'
  <2>1. UNCHANGED <<served, last, learning, drift, history>>
    BY <1>4 DEF TakeLast
  <2>2. /\ pc' \in [Clients -> Places] /\ local' \in [Clients -> Local]
        /\ \A d \in Clients : Assigned(d)'
    <3>1. CASE Answer(c)
      BY <2>1, <3>1, AnswerType
    <3>2. CASE /\ last # None
               /\ local' = [local EXCEPT ![c].taken = last]
               /\ Goto(c, "storing")
      <4> DEFINE v == [local[c] EXCEPT !.taken = last]
      <4>1. last \in Nat /\ local[c] \in Local
        BY <3>2 DEF TypeInv, StateOK, Local
      <4>2. /\ v \in Local /\ v.taken \in Nat
            /\ v.query = local[c].query
        BY <4>1 DEF Local
      <4>3. local[c].query \in 1 .. served
        BY <1>4 DEF TypeInv, Assigned, TakeLast
      <4>4. local' = [local EXCEPT ![c] = v] /\ "storing" \in Places
        BY <3>2 DEF Places
      <4> HIDE DEF v
      <4> QED
        BY <2>1, <3>2, <4>2, <4>3, <4>4, MoveType
    <3> QED
      BY <1>4, <3>1, <3>2 DEF TakeLast
  <2> QED
    BY <2>1, <2>2 DEF TypeInv, StateOK, Local
<1>5. ASSUME NEW c \in Clients, Store(c) PROVE TypeInv'
  <2> DEFINE e == [of |-> local[c].taken, next |-> local[c].query, by |-> c]
  <2>1. /\ buffer' = Append(buffer, e)
        /\ pc[c] = "storing"
        /\ Goto(c, "clearing")
        /\ UNCHANGED <<served, last, recent_states, drift, local, history>>
    BY <1>5 DEF Store
  <2>2. local[c].taken \in Nat /\ local[c].query \in 1 .. served /\ served \in Nat
    BY <2>1 DEF TypeInv, StateOK, Assigned
  <2>3. e \in Entry
    BY <2>2 DEF Entry
  <2>4. buffer' \in Seq(Entry)
    BY <2>1, <2>3 DEF TypeInv, StateOK, Entry
  <2>5. /\ pc' \in [Clients -> Places] /\ local' \in [Clients -> Local]
        /\ \A d \in Clients : Assigned(d)'
    <3>1. "clearing" \in Places
      BY DEF Places
    <3> QED
      BY <2>1, <3>1, GotoType
  <2> QED
    BY <2>1, <2>4, <2>5 DEF TypeInv, StateOK, Local, Entry
<1>6. ASSUME NEW c \in Clients, ClearLast(c) PROVE TypeInv'
  <2> DEFINE v == [local[c] EXCEPT !.taken = None]
  <2>1. /\ last' = None
        /\ recent_states' \in 0 .. MinStates
        /\ local' = [local EXCEPT ![c] = v]
        /\ Goto(c, "deciding")
        /\ pc[c] = "clearing"
        /\ UNCHANGED <<served, buffer, drift, history>>
    BY <1>6, PipelineAssumption DEF ClearLast, TypeInv, StateOK
  <2>2. /\ v \in Local
        /\ v.query = local[c].query
    BY DEF TypeInv, StateOK, Local
  <2>3. local[c].query \in 1 .. served
    BY <2>1 DEF TypeInv, Assigned
  <2>4. /\ pc' \in [Clients -> Places] /\ local' \in [Clients -> Local]
        /\ \A d \in Clients : Assigned(d)'
    <3>1. "deciding" \in Places
      BY DEF Places
    <3> HIDE DEF v
    <3> QED
      BY <2>1, <2>2, <2>3, <3>1, MoveType
  <2> QED
    BY <2>1, <2>4 DEF TypeInv, StateOK, Local
<1>7. ASSUME NEW c \in Clients, Decide(c) PROVE TypeInv'
  <2>1. /\ pc[c] = "deciding"
        /\ (Goto(c, "recording") /\ UNCHANGED local) \/ Answer(c)
        /\ UNCHANGED <<served, last, learning, drift, history>>
    BY <1>7 DEF Decide, TypeInv, StateOK
  <2>2. /\ pc' \in [Clients -> Places] /\ local' \in [Clients -> Local]
        /\ \A d \in Clients : Assigned(d)'
    <3>1. "recording" \in Places
      BY DEF Places
    <3>2. CASE Answer(c)
      BY <2>1, <3>2, AnswerType
    <3>3. CASE Goto(c, "recording") /\ UNCHANGED local
      BY <2>1, <3>1, <3>3, GotoType
    <3> QED
      BY <2>1, <3>2, <3>3
  <2> QED
    BY <2>1, <2>2 DEF TypeInv, StateOK, Local
<1>8. ASSUME NEW c \in Clients, RecordLast(c) PROVE TypeInv'
  <2>1. /\ last' = local[c].query
        /\ finished' = finished \union {local[c].query}
        /\ pc[c] = "recording"
        /\ Goto(c, "learning")
        /\ UNCHANGED <<served, learning, drift, local, missed>>
    BY <1>8 DEF RecordLast
  <2>2. local[c].query \in 1 .. served
    BY <2>1 DEF TypeInv, Assigned
  <2>3. last' \in Nat /\ finished' \subseteq 1 .. MaxQueries
    <3>1. served \in 0 .. MaxQueries /\ finished \subseteq 1 .. MaxQueries
      BY DEF TypeInv, StateOK
    <3>2. local[c].query \in Nat /\ local[c].query \in 1 .. MaxQueries
      BY <2>2, <3>1, PipelineAssumption
    <3> QED
      BY <2>1, <2>2, <3>1, <3>2
  <2>4. /\ pc' \in [Clients -> Places] /\ local' \in [Clients -> Local]
        /\ \A d \in Clients : Assigned(d)'
    <3>1. "learning" \in Places
      BY DEF Places
    <3> QED
      BY <2>1, <3>1, GotoType
  <2> QED
    BY <2>1, <2>3, <2>4 DEF TypeInv, StateOK, Local
<1>9. ASSUME NEW c \in Clients, AddExperience(c) PROVE TypeInv'
  <2>1. /\ pc[c] = "learning"
        /\ UNCHANGED <<served, last, learning, consolidated, history>>
    BY <1>9 DEF AddExperience
  <2>2. CASE Clock!Stay /\ Answer(c)
    <3>1. phase' \in Nat \ {0} /\ since' \in 0 .. Full
      BY <2>2, PipelineAssumption DEF Clock!Stay, TypeInv, StateOK
    <3>2. /\ pc' \in [Clients -> Places] /\ local' \in [Clients -> Local]
          /\ \A d \in Clients : Assigned(d)'
      BY <2>1, <2>2, AnswerType
    <3> QED
      BY <2>1, <3>1, <3>2 DEF TypeInv, StateOK, Local
  <2>3. CASE /\ Clock!Turn
             /\ local' = [local EXCEPT ![c].begun = phase']
             /\ Goto(c, "naming")
    <3> DEFINE v == [local[c] EXCEPT !.begun = phase']
    <3>1. phase' \in Nat \ {0} /\ since' \in 0 .. Full
      BY <2>3, PipelineAssumption DEF Clock!Turn, TypeInv, StateOK
    <3>2. /\ v \in Local /\ v.begun \in Nat
          /\ v.query = local[c].query
      BY <3>1 DEF TypeInv, StateOK, Local
    <3>3. local[c].query \in 1 .. served
      BY <2>1 DEF TypeInv, Assigned
    <3>4. local' = [local EXCEPT ![c] = v] /\ "naming" \in Places
      BY <2>3 DEF Places
    <3>5. /\ pc' \in [Clients -> Places] /\ local' \in [Clients -> Local]
          /\ \A d \in Clients : Assigned(d)'
      <4> HIDE DEF v
      <4> QED
        BY <2>1, <2>3, <3>2, <3>3, <3>4, MoveType
    <3> QED
      BY <2>1, <3>1, <3>5 DEF TypeInv, StateOK, Local
  <2> QED
    BY <1>9, <2>2, <2>3 DEF AddExperience
<1>10. ASSUME NEW c \in Clients, NamePhase(c) PROVE TypeInv'
  <2> DEFINE v == [local[c] EXCEPT !.named = phase]
             p == IF recent_states >= MinStates THEN "consolidating" ELSE "triggering"
  <2>1. /\ pc[c] = "naming"
        /\ local' = [local EXCEPT ![c] = v]
        /\ Goto(c, p)
        /\ UNCHANGED <<served, last, learning, drift, history>>
    BY <1>10 DEF NamePhase
  <2>2. /\ v \in Local /\ v.named \in Nat
        /\ v.query = local[c].query
        /\ v.begun = local[c].begun
    BY DEF TypeInv, StateOK, Local
  <2>3. /\ local[c].query \in 1 .. served
        /\ local[c].begun \in Nat
    BY <2>1 DEF TypeInv, Assigned
  <2>4. p \in Places /\ p \in {"consolidating", "triggering"}
    BY DEF Places
  <2>5. /\ pc' \in [Clients -> Places] /\ local' \in [Clients -> Local]
        /\ \A d \in Clients : Assigned(d)'
    <3> HIDE DEF v, p
    <3> QED
      BY <2>1, <2>2, <2>3, <2>4, MoveType
  <2> QED
    BY <2>1, <2>5 DEF TypeInv, StateOK, Local
<1>11. ASSUME NEW c \in Clients, Consolidate(c) PROVE TypeInv'
  <2>1. /\ pc[c] = "consolidating"
        /\ UNCHANGED <<served, last, learning, phase, since, history>>
    BY <1>11 DEF Consolidate
  <2>2. CASE Answer(c) /\ UNCHANGED consolidated
    <3>1. /\ pc' \in [Clients -> Places] /\ local' \in [Clients -> Local]
          /\ \A d \in Clients : Assigned(d)'
      BY <2>1, <2>2, AnswerType
    <3> QED
      BY <2>1, <2>2, <3>1 DEF TypeInv, StateOK, Local
  <2>3. CASE /\ consolidated' = Append(consolidated,
                   [phase |-> local[c].named, begun |-> local[c].begun, by |-> c])
             /\ Goto(c, "triggering")
             /\ UNCHANGED local
    <3>1. local[c].named \in Nat /\ local[c].begun \in Nat
      BY <2>1 DEF TypeInv, Assigned
    <3>2. consolidated' \in Seq([phase : Nat, begun : Nat, by : Clients])
      BY <2>3, <3>1 DEF TypeInv, StateOK
    <3>3. /\ pc' \in [Clients -> Places] /\ local' \in [Clients -> Local]
          /\ \A d \in Clients : Assigned(d)'
      <4>1. "triggering" \in Places
        BY DEF Places
      <4> QED
        BY <2>1, <2>3, <4>1, GotoType
    <3> QED
      BY <2>1, <3>2, <3>3 DEF TypeInv, StateOK, Local
  <2> QED
    BY <1>11, <2>2, <2>3 DEF Consolidate
<1>12. ASSUME NEW c \in Clients, TriggerDrift(c) PROVE TypeInv'
  <2>1. /\ Answer(c)
        /\ UNCHANGED <<served, last, learning, drift, history>>
    BY <1>12 DEF TriggerDrift
  <2>2. /\ pc' \in [Clients -> Places] /\ local' \in [Clients -> Local]
        /\ \A d \in Clients : Assigned(d)'
    BY <2>1, AnswerType
  <2> QED
    BY <2>1, <2>2 DEF TypeInv, StateOK, Local
<1>13. CASE UNCHANGED vars
  BY <1>13 DEF vars, TypeInv, StateOK, Assigned
<1> QED
  BY <1>1, <1>2, <1>3, <1>4, <1>5, <1>6, <1>7, <1>8, <1>9, <1>10, <1>11, <1>12, <1>13
     DEF Next, Process

(* Every variable keeps its type, and no thread uses a local variable it   *)
(* has not assigned.                                                       *)
THEOREM TypeCorrect == Spec => []TypeOK
<1>1. Init => TypeInv /\ TypeOK
  BY InitType DEF Init, TypeInv, TypeOK
<1>2. TypeInv /\ TypeOK /\ [Next]_vars => TypeInv' /\ TypeOK'
  <2> SUFFICES ASSUME TypeInv, TypeOK, [Next]_vars PROVE TypeInv' /\ TypeOK'
    OBVIOUS
  <2>1. overlapped' \in BOOLEAN
    BY Zenon DEF Next, Watch, vars, TypeOK
  <2>2. TypeInv'
    BY StepType
  <2> QED
    BY <2>1, <2>2 DEF TypeInv, TypeOK
<1> QED
  BY <1>1, <1>2, PTL DEF Spec

-----------------------------------------------------------------------------

LEMMA InitOnce == Init => OnceInv
<1> SUFFICES ASSUME Init PROVE OnceInv
  OBVIOUS
<1>1. last = None /\ finished = {} /\ DOMAIN buffer = {}
  BY DEF Init
<1>2. \A c \in Clients : pc[c] = "idle"
  BY DEF Init
<1> QED
  BY <1>1, <1>2 DEF OnceInv, Numbered, Unrecorded, StoredOncePerClient

(* Whatever is in the buffer was stored by a client.                       *)
LEMMA StoredByClient ==
  ASSUME TypeInv, NEW i \in DOMAIN buffer
  PROVE  buffer[i].by \in Clients
<1>1. buffer \in Seq(Entry)
  BY DEF TypeInv, StateOK, Entry
<1>2. buffer[i] \in Entry
  BY <1>1
<1> QED
  BY <1>2 DEF Entry

(* A thread that touches neither the transitions nor, itself, one it took. *)
LEMMA ElsewhereOnce ==
  ASSUME TypeInv, OnceInv, NEW c \in Clients, NEW p \in Places,
         Goto(c, p), p \notin {"storing", "clearing"},
         pc[c] \notin {"storing", "clearing"},
         \A d \in Clients : d # c => local'[d] = local[d],
         Unrecorded(c)' => Unrecorded(c) /\ local'[c].query = local[c].query,
         UNCHANGED <<served, last, buffer, finished>>
  PROVE  OnceInv'
<1>1. /\ pc'[c] = p
      /\ \A d \in Clients : d # c => pc'[d] = pc[d] /\ (Unrecorded(d)' <=> Unrecorded(d))
  BY DEF TypeInv, StateOK, Goto, Unrecorded
<1>2. Numbered'
  BY <1>1 DEF OnceInv, Numbered
<1>3. ASSUME NEW i \in DOMAIN buffer PROVE Settled(i)'
  <2>1. buffer[i].by \in Clients
    BY StoredByClient
  <2>2. Settled(i)
    BY DEF OnceInv
  <2>3. CASE buffer[i].by = c
    BY <1>1, <2>2, <2>3 DEF Settled
  <2>4. CASE buffer[i].by # c
    BY <1>1, <2>1, <2>2, <2>4 DEF Settled
  <2> QED
    BY <2>3, <2>4
<1>4. StoredOncePerClient'
  BY DEF OnceInv, StoredOncePerClient
<1> QED
  BY <1>2, <1>3, <1>4 DEF OnceInv

LEMMA AnswerOnce ==
  ASSUME TypeInv, OnceInv, NEW c \in Clients, Answer(c),
         pc[c] \notin {"storing", "clearing"},
         UNCHANGED <<served, last, buffer, finished>>
  PROVE  OnceInv'
<1>1. Goto(c, "idle") /\ \A d \in Clients : d # c => local'[d] = local[d]
  BY DEF Answer, TypeInv, StateOK
<1>2. "idle" \in Places /\ ~Unrecorded(c)'
  BY <1>1 DEF Places, Unrecorded, Goto, TypeInv, StateOK
<1> QED
  BY <1>1, <1>2, ElsewhereOnce

(* The thread takes the transition that is waiting.                        *)
LEMMA TakeOnce ==
  ASSUME TypeInv, OnceInv, NEW c \in Clients, pc[c] = "taking", last # None,
         local' = [local EXCEPT ![c].taken = last], Goto(c, "storing"),
         UNCHANGED <<served, last, buffer, finished>>
  PROVE  OnceInv'
<1>1. /\ pc'[c] = "storing" /\ local'[c].taken = last
      /\ local'[c].query = local[c].query
      /\ Unrecorded(c)
      /\ \A d \in Clients : d # c => pc'[d] = pc[d] /\ local'[d] = local[d]
  BY DEF TypeInv, StateOK, Goto, Unrecorded
<1>2. \A d \in Clients : Unrecorded(d)' <=> Unrecorded(d)
  BY <1>1 DEF Unrecorded
<1>3. Numbered'
  BY <1>1, <1>2 DEF OnceInv, Numbered
<1>4. ASSUME NEW i \in DOMAIN buffer PROVE Settled(i)'
  <2>1. buffer[i].by \in Clients
    BY StoredByClient
  <2>2. Settled(i)
    BY DEF OnceInv
  <2>3. CASE buffer[i].by = c
    BY <1>1, <2>2, <2>3 DEF Settled
  <2>4. CASE buffer[i].by # c
    BY <1>1, <2>1, <2>2, <2>4 DEF Settled
  <2> QED
    BY <2>3, <2>4
<1>5. StoredOncePerClient'
  BY DEF OnceInv, StoredOncePerClient
<1> QED
  BY <1>3, <1>4, <1>5 DEF OnceInv

(* The thread stores what it took: it had not stored that before.          *)
LEMMA StoreOnce ==
  ASSUME TypeInv, OnceInv, NEW c \in Clients, Store(c)
  PROVE  OnceInv'
<1> DEFINE e == [of |-> local[c].taken, next |-> local[c].query, by |-> c]
<1>1. /\ pc[c] = "storing" /\ pc'[c] = "clearing"
      /\ \A d \in Clients : d # c => pc'[d] = pc[d]
      /\ UNCHANGED <<local, last, finished, served>>
  BY DEF Store, history, Goto, TypeInv, StateOK
<1>2. /\ Len(buffer) \in Nat
      /\ DOMAIN buffer = 1 .. Len(buffer)
      /\ DOMAIN buffer' = 1 .. (Len(buffer) + 1)
      /\ \A i \in DOMAIN buffer : buffer'[i] = buffer[i]
      /\ buffer'[Len(buffer) + 1] = e
  <2>1. buffer' = Append(buffer, e)
    BY DEF Store
  <2>2. buffer \in Seq(Entry)
    BY DEF TypeInv, StateOK, Entry
  <2> HIDE DEF e
  <2> QED
    BY <2>1, <2>2
<1>3. e.of = local[c].taken /\ e.by = c
  OBVIOUS
<1>4. \A d \in Clients : Unrecorded(d)' <=> Unrecorded(d)
  BY <1>1 DEF Unrecorded
<1>5. Numbered'
  BY <1>1, <1>4 DEF OnceInv, Numbered
<1>6. ASSUME NEW i \in DOMAIN buffer
      PROVE  Settled(i)' /\ ~(buffer[i].of = e.of /\ buffer[i].by = c)
  <2>1. buffer[i].by \in Clients /\ buffer'[i] = buffer[i]
    BY <1>2, StoredByClient
  <2>2. Settled(i)
    BY DEF OnceInv
  <2>3. CASE buffer[i].by = c
    BY <1>1, <1>3, <2>1, <2>2, <2>3 DEF Settled
  <2>4. CASE buffer[i].by # c
    BY <1>1, <2>1, <2>2, <2>4 DEF Settled
  <2> QED
    BY <2>3, <2>4
<1>7. ASSUME NEW i \in DOMAIN buffer', i = Len(buffer) + 1
      PROVE  Settled(i)'
  <2> HIDE DEF e
  <2>1. buffer'[i].of = local[c].taken /\ buffer'[i].by = c
    BY <1>2, <1>3, <1>7
  <2>2. local[c].taken \in finished
    BY <1>1 DEF OnceInv, Numbered
  <2> QED
    BY <1>1, <2>1, <2>2 DEF Settled
<1>8. StoredOncePerClient'
  <2> HIDE DEF e
  <2>1. ASSUME NEW i \in DOMAIN buffer', NEW j \in DOMAIN buffer',
               buffer'[i].of = buffer'[j].of, buffer'[i].by = buffer'[j].by
        PROVE  i = j
    <3>1. CASE i \in DOMAIN buffer /\ j \in DOMAIN buffer
      BY <1>2, <2>1, <3>1 DEF OnceInv, StoredOncePerClient
    <3>2. CASE i \in DOMAIN buffer /\ j = Len(buffer) + 1
      BY <1>2, <1>3, <1>6, <2>1, <3>2
    <3>3. CASE i = Len(buffer) + 1 /\ j \in DOMAIN buffer
      BY <1>2, <1>3, <1>6, <2>1, <3>3
    <3> QED
      BY <1>2, <3>1, <3>2, <3>3
  <2> QED
    BY <2>1 DEF StoredOncePerClient
<1>9. \A i \in DOMAIN buffer' : Settled(i)'
  <2> HIDE DEF e
  <2> QED
    BY <1>2, <1>6, <1>7
<1> QED
  BY <1>5, <1>8, <1>9 DEF OnceInv

(* The thread clears, whatever waits by now: what it stored is gone.       *)
LEMMA ClearOnce ==
  ASSUME TypeInv, OnceInv, NEW c \in Clients, ClearLast(c)
  PROVE  OnceInv'
<1>1. /\ pc[c] = "clearing" /\ pc'[c] = "deciding"
      /\ local'[c].query = local[c].query
      /\ last' = None
      /\ \A d \in Clients : d # c => pc'[d] = pc[d] /\ local'[d] = local[d]
      /\ UNCHANGED <<buffer, finished, served>>
  BY DEF ClearLast, history, Goto, TypeInv, StateOK
<1>2. \A d \in Clients : Unrecorded(d)' <=> Unrecorded(d)
  BY <1>1 DEF Unrecorded
<1>3. Numbered'
  BY <1>1, <1>2 DEF OnceInv, Numbered
<1>4. ASSUME NEW i \in DOMAIN buffer PROVE Settled(i)'
  <2>1. buffer[i].by \in Clients
    BY StoredByClient
  <2>2. Settled(i)
    BY DEF OnceInv
  <2>3. CASE buffer[i].by = c
    BY <1>1, <2>2, <2>3 DEF Settled
  <2>4. CASE buffer[i].by # c
    BY <1>1, <2>1, <2>2, <2>4 DEF Settled
  <2> QED
    BY <2>3, <2>4
<1>5. StoredOncePerClient'
  BY <1>1 DEF OnceInv, StoredOncePerClient
<1> QED
  BY <1>1, <1>3, <1>4, <1>5 DEF OnceInv

(* A new transition waits: its query had not been stored.                  *)
LEMMA RecordOnce ==
  ASSUME TypeInv, OnceInv, NEW c \in Clients, RecordLast(c)
  PROVE  OnceInv'
<1>1. /\ pc[c] = "recording" /\ pc'[c] = "learning"
      /\ last' = local[c].query
      /\ finished' = finished \union {local[c].query}
      /\ \A d \in Clients : d # c => pc'[d] = pc[d]
      /\ UNCHANGED <<local, buffer, served>>
  BY DEF RecordLast, learning, Goto, TypeInv, StateOK
<1>2. /\ Unrecorded(c) /\ ~Unrecorded(c)'
      /\ \A d \in Clients : d # c => (Unrecorded(d)' <=> Unrecorded(d))
  BY <1>1 DEF Unrecorded
<1>3. local[c].query \in 1 .. served /\ local[c].query \notin finished
  BY <1>1, <1>2 DEF TypeInv, Assigned, OnceInv, Numbered
<1>4. Numbered'
  <2>1. ASSUME NEW d \in Clients
        PROVE  /\ pc'[d] \in {"storing", "clearing"} => local'[d].taken \in finished'
               /\ Unrecorded(d)' => local'[d].query \notin finished'
    BY <1>1, <1>2 DEF OnceInv, Numbered
  <2>2. finished' \subseteq 1 .. served' /\ last' \in finished'
    BY <1>1, <1>3 DEF OnceInv, Numbered
  <2>3. \A d, b \in Clients :
          Unrecorded(d)' /\ Unrecorded(b)' /\ local'[d].query = local'[b].query => d = b
    BY <1>1, <1>2 DEF OnceInv, Numbered
  <2> QED
    BY <2>1, <2>2, <2>3 DEF Numbered
<1>5. ASSUME NEW i \in DOMAIN buffer PROVE Settled(i)'
  <2>1. buffer[i].by \in Clients
    BY StoredByClient
  <2>2. Settled(i) /\ buffer[i].of # last'
    BY <1>1, <1>3 DEF OnceInv, Settled
  <2>3. CASE buffer[i].by = c
    BY <1>1, <2>2, <2>3 DEF Settled
  <2>4. CASE buffer[i].by # c
    BY <1>1, <2>1, <2>2, <2>4 DEF Settled
  <2> QED
    BY <2>3, <2>4
<1>6. StoredOncePerClient'
  BY <1>1 DEF OnceInv, StoredOncePerClient
<1> QED
  BY <1>1, <1>4, <1>5, <1>6 DEF OnceInv

(* A query gets a number nobody else has.                                  *)
LEMMA BeginOnce ==
  ASSUME TypeInv, OnceInv, NEW c \in Clients, Begin(c)
  PROVE  OnceInv'
<1>1. /\ pc[c] = "idle" /\ pc'[c] = "observing"
      /\ served \in Nat /\ served' = served + 1
      /\ local'[c].query = served + 1
      /\ \A d \in Clients : d # c => pc'[d] = pc[d] /\ local'[d] = local[d]
      /\ UNCHANGED <<last, buffer, finished>>
  BY DEF Begin, Serving, learning, history, Goto, TypeInv, StateOK
<1>2. /\ ~Unrecorded(c)
      /\ \A d \in Clients : d # c => (Unrecorded(d)' <=> Unrecorded(d))
  BY <1>1 DEF Unrecorded
<1>3. \A d \in Clients : Unrecorded(d) => local[d].query \in 1 .. served
  BY DEF TypeInv, Assigned, Unrecorded
<1>4. Numbered'
  <2>1. ASSUME NEW d \in Clients
        PROVE  /\ pc'[d] \in {"storing", "clearing"} => local'[d].taken \in finished'
               /\ Unrecorded(d)' => local'[d].query \notin finished'
    BY <1>1, <1>2 DEF OnceInv, Numbered
  <2>2. /\ finished' \subseteq 1 .. served'
        /\ last' # None => last' \in finished'
    BY <1>1 DEF OnceInv, Numbered
  <2>3. \A d, b \in Clients :
          Unrecorded(d)' /\ Unrecorded(b)' /\ local'[d].query = local'[b].query => d = b
    BY <1>1, <1>2, <1>3 DEF OnceInv, Numbered
  <2> QED
    BY <2>1, <2>2, <2>3 DEF Numbered
<1>5. ASSUME NEW i \in DOMAIN buffer PROVE Settled(i)'
  <2>1. buffer[i].by \in Clients
    BY StoredByClient
  <2>2. Settled(i)
    BY DEF OnceInv
  <2>3. CASE buffer[i].by = c
    BY <1>1, <2>2, <2>3 DEF Settled
  <2>4. CASE buffer[i].by # c
    BY <1>1, <2>1, <2>2, <2>4 DEF Settled
  <2> QED
    BY <2>3, <2>4
<1>6. StoredOncePerClient'
  BY <1>1 DEF OnceInv, StoredOncePerClient
<1> QED
  BY <1>1, <1>4, <1>5, <1>6 DEF OnceInv

LEMMA StepOnce == TypeInv /\ OnceInv /\ [Next]_vars => OnceInv'
<1> SUFFICES ASSUME TypeInv, OnceInv, [Next]_vars PROVE OnceInv'
  OBVIOUS
<1> USE DEF learning, history
<1>1. CASE UNCHANGED vars
  <2>1. UNCHANGED <<served, last, buffer, pc, local, finished>>
    BY <1>1 DEF vars
  <2> QED
    BY <2>1 DEF OnceInv, Numbered, Settled, Unrecorded, StoredOncePerClient
<1>2. ASSUME NEW c \in Clients, TestLast(c) PROVE OnceInv'
  <2> DEFINE p == IF last = None THEN "deciding" ELSE "taking"
  <2>1. /\ pc[c] = "searched" /\ Goto(c, p)
        /\ p \in Places /\ p \notin {"storing", "clearing"}
        /\ UNCHANGED <<served, last, buffer, local, finished>>
    BY <1>2 DEF TestLast, Places
  <2>2. Unrecorded(c)
    BY <2>1 DEF Unrecorded
  <2> HIDE DEF p
  <2> QED
    BY <2>1, <2>2, ElsewhereOnce
<1>3. ASSUME NEW c \in Clients, TakeLast(c) PROVE OnceInv'
  <2>1. CASE last = None /\ Answer(c)
    BY <1>3, <2>1, AnswerOnce DEF TakeLast
  <2>2. CASE /\ last # None
             /\ local' = [local EXCEPT ![c].taken = last]
             /\ Goto(c, "storing")
    BY <1>3, <2>2, TakeOnce DEF TakeLast
  <2> QED
    BY <1>3, <2>1, <2>2 DEF TakeLast
<1>4. ASSUME NEW c \in Clients, Decide(c) PROVE OnceInv'
  <2>1. /\ pc[c] = "deciding"
        /\ (Goto(c, "recording") /\ UNCHANGED local) \/ Answer(c)
        /\ UNCHANGED <<served, last, buffer, finished>>
    BY <1>4 DEF Decide
  <2>2. CASE Answer(c)
    BY <2>1, <2>2, AnswerOnce
  <2>3. CASE Goto(c, "recording") /\ UNCHANGED local
    <3>1. "recording" \in Places /\ Unrecorded(c)
      BY <2>1 DEF Places, Unrecorded
    <3> QED
      BY <2>1, <2>3, <3>1, ElsewhereOnce
  <2> QED
    BY <2>1, <2>2, <2>3
<1>5. ASSUME NEW c \in Clients, AddExperience(c) PROVE OnceInv'
  <2>1. /\ pc[c] = "learning"
        /\ UNCHANGED <<served, last, buffer, finished>>
    BY <1>5 DEF AddExperience
  <2>2. CASE Answer(c)
    BY <2>1, <2>2, AnswerOnce
  <2>3. CASE local' = [local EXCEPT ![c].begun = phase'] /\ Goto(c, "naming")
    <3>1. "naming" \in Places /\ \A d \in Clients : d # c => local'[d] = local[d]
      BY <2>3 DEF Places, TypeInv, StateOK
    <3>2. ~Unrecorded(c)'
      BY <2>3 DEF Unrecorded, Goto, TypeInv, StateOK
    <3> QED
      BY <2>1, <2>3, <3>1, <3>2, ElsewhereOnce
  <2> QED
    BY <1>5, <2>2, <2>3 DEF AddExperience
<1>6. ASSUME NEW c \in Clients, NamePhase(c) PROVE OnceInv'
  <2> DEFINE p == IF recent_states >= MinStates THEN "consolidating" ELSE "triggering"
  <2>1. /\ pc[c] = "naming" /\ Goto(c, p)
        /\ p \in Places /\ p \in {"consolidating", "triggering"}
        /\ \A d \in Clients : d # c => local'[d] = local[d]
        /\ UNCHANGED <<served, last, buffer, finished>>
    BY <1>6 DEF NamePhase, Places, TypeInv, StateOK
  <2> HIDE DEF p
  <2>2. ~Unrecorded(c)'
    BY <2>1 DEF Unrecorded, Goto, TypeInv, StateOK
  <2> QED
    BY <2>1, <2>2, ElsewhereOnce
<1>7. ASSUME NEW c \in Clients, Consolidate(c) PROVE OnceInv'
  <2>1. /\ pc[c] = "consolidating"
        /\ UNCHANGED <<served, last, buffer, finished>>
    BY <1>7 DEF Consolidate
  <2>2. CASE Answer(c)
    BY <2>1, <2>2, AnswerOnce
  <2>3. CASE Goto(c, "triggering") /\ UNCHANGED local
    <3>1. "triggering" \in Places
      BY DEF Places
    <3>2. ~Unrecorded(c)'
      BY <2>3 DEF Unrecorded, Goto, TypeInv, StateOK
    <3> QED
      BY <2>1, <2>3, <3>1, <3>2, ElsewhereOnce
  <2> QED
    BY <1>7, <2>2, <2>3 DEF Consolidate
<1>8. ASSUME NEW c \in Clients, TriggerDrift(c) PROVE OnceInv'
  BY <1>8, AnswerOnce DEF TriggerDrift
<1>9. ASSUME NEW c \in Clients, Observe(c) \/ FindSimilar(c) PROVE OnceInv'
  <2>1. /\ pc[c] \in {"observing", "observed"}
        /\ UNCHANGED <<served, last, buffer, finished>>
    BY <1>9 DEF Observe, FindSimilar
  <2>2. CASE Miss(c)
    BY <2>1, <2>2, AnswerOnce DEF Miss
  <2>3. ASSUME NEW p \in {"observed", "searched"}, Goto(c, p), UNCHANGED local
        PROVE  OnceInv'
    <3>1. p \in Places /\ Unrecorded(c)
      BY <2>1 DEF Places, Unrecorded
    <3> QED
      BY <2>1, <2>3, <3>1, ElsewhereOnce
  <2> QED
    BY <1>9, <2>2, <2>3 DEF Observe, FindSimilar
<1> QED
  BY <1>1, <1>2, <1>3, <1>4, <1>5, <1>6, <1>7, <1>8, <1>9,
     BeginOnce, StoreOnce, ClearOnce, RecordOnce DEF Next, Process

(* Whatever the interleaving of any number of clients, a thread stores a   *)
(* transition at most once, so duplicates are bounded by the clients.      *)
THEOREM DuplicatesBounded == Spec => []StoredOncePerClient
<1>1. OnceInv => StoredOncePerClient
  BY DEF OnceInv
<1> QED
  BY <1>1, InitType, StepType, InitOnce, StepOnce, PTL DEF Spec

-----------------------------------------------------------------------------
(* Queries that take turns.                                                *)

(* At most one thread is in a query, and what it is about to store is not  *)
(* in the buffer.                                                          *)
TurnInv ==
  ~overlapped =>
    /\ \A c, d \in Clients : pc[c] # "idle" /\ pc[d] # "idle" => c = d
    /\ \A c \in Clients, i \in DOMAIN buffer :
         pc[c] = "storing" => local[c].taken # buffer[i].of
    /\ FinalisedOnce

LEMMA StepTurn ==
  ASSUME TypeInv, OnceInv, TurnInv, [Next]_vars PROVE TurnInv'
<1> SUFFICES ASSUME ~overlapped'
             PROVE  /\ \A c, d \in Clients : pc'[c] # "idle" /\ pc'[d] # "idle" => c = d
                    /\ \A c \in Clients, i \in DOMAIN buffer' :
                         pc'[c] = "storing" => local'[c].taken # buffer'[i].of
                    /\ FinalisedOnce'
  BY DEF TurnInv
<1>1. CASE UNCHANGED vars
  BY <1>1 DEF vars, learning, TurnInv, FinalisedOnce
<1>2. CASE Next
  <2>1. ~overlapped /\ \A c, d \in Clients : pc'[c] # "idle" /\ pc'[d] # "idle" => c = d
    BY <1>2, Zenon DEF Next, Watch
  <2>2. \A c, d \in Clients : pc[c] # "idle" /\ pc[d] # "idle" => c = d
    BY <2>1 DEF TurnInv
  <2>3. /\ \A c \in Clients, i \in DOMAIN buffer :
             pc[c] = "storing" => local[c].taken # buffer[i].of
        /\ FinalisedOnce
    BY <2>1 DEF TurnInv
  <2>5. ASSUME NEW c \in Clients, TakeLast(c)
        PROVE  /\ \A d \in Clients, i \in DOMAIN buffer' :
                    pc'[d] = "storing" => local'[d].taken # buffer'[i].of
               /\ FinalisedOnce'
    <3>1. buffer' = buffer /\ pc[c] = "taking"
          /\ \A d \in Clients : d # c => pc'[d] = pc[d] /\ local'[d] = local[d]
      BY <2>5 DEF TakeLast, Answer, Goto, learning, TypeInv, StateOK
    <3>2. pc'[c] = "storing" => last # None /\ local'[c].taken = last
      BY <2>5 DEF TakeLast, Answer, Goto, TypeInv, StateOK
    <3>3. ASSUME NEW i \in DOMAIN buffer PROVE last = None \/ last # buffer[i].of
      <4>1. buffer[i].by \in Clients
        BY StoredByClient
      <4>2. pc[buffer[i].by] # "clearing"
        BY <2>2, <3>1, <4>1
      <4> QED
        BY <4>2 DEF OnceInv, Settled
    <3> QED
      BY <2>3, <3>1, <3>2, <3>3 DEF FinalisedOnce
  <2>6. ASSUME NEW c \in Clients, Store(c)
        PROVE  /\ \A d \in Clients, i \in DOMAIN buffer' :
                    pc'[d] = "storing" => local'[d].taken # buffer'[i].of
               /\ FinalisedOnce'
    <3>1. /\ pc[c] = "storing" /\ pc'[c] = "clearing"
          /\ \A d \in Clients : d # c => pc'[d] = "idle"
      BY <2>1, <2>6 DEF Store, Goto, TypeInv, StateOK
    <3>2. PICK e : buffer' = Append(buffer, e) /\ e.of = local[c].taken
      BY <2>6 DEF Store
    <3>3. /\ DOMAIN buffer = 1 .. Len(buffer) /\ Len(buffer) \in Nat
          /\ DOMAIN buffer' = 1 .. Len(buffer) + 1
          /\ \A i \in DOMAIN buffer : buffer'[i] = buffer[i]
          /\ buffer'[Len(buffer) + 1] = e
      BY <3>2 DEF TypeInv, StateOK
    <3>4. \A i \in DOMAIN buffer : buffer[i].of # e.of
      BY <2>3, <3>1, <3>2
    <3>5. FinalisedOnce'
      BY <2>3, <3>3, <3>4 DEF FinalisedOnce
    <3>6. \A d \in Clients : pc'[d] # "storing"
      BY <3>1
    <3> QED
      BY <3>5, <3>6
  <2>7. ASSUME NEW c \in Clients, Process(c), ~TakeLast(c), ~Store(c)
        PROVE  /\ \A d \in Clients, i \in DOMAIN buffer' :
                    pc'[d] = "storing" => local'[d].taken # buffer'[i].of
               /\ FinalisedOnce'
    <3>1. buffer' = buffer
      BY <2>7 DEF Process, Begin, Observe, FindSimilar, Miss, TestLast, ClearLast, Decide, RecordLast,
                  AddExperience, NamePhase, Consolidate, TriggerDrift, learning
    <3>2. pc'[c] # "storing"
      BY <2>7 DEF Process, Begin, Observe, FindSimilar, Miss, TestLast, ClearLast, Decide, RecordLast,
                  AddExperience, NamePhase, Consolidate, TriggerDrift, Answer, Goto,
                  TypeInv, StateOK
    <3>3. \A d \in Clients : d # c => pc'[d] = pc[d]
      BY <2>7 DEF Process, Begin, Observe, FindSimilar, Miss, TestLast, ClearLast, Decide, RecordLast,
                  AddExperience, NamePhase, Consolidate, TriggerDrift, Answer, Goto,
                  TypeInv, StateOK
    <3>4. pc[c] # "idle" \/ pc'[c] # "idle"
      BY <2>7 DEF Process, Begin, Observe, FindSimilar, Miss, TestLast, ClearLast, Decide, RecordLast,
                  AddExperience, NamePhase, Consolidate, TriggerDrift, Answer, Goto,
                  TypeInv, StateOK
    <3>5. \A d \in Clients : pc'[d] # "storing"
      BY <2>1, <2>2, <3>2, <3>3, <3>4
    <3> QED
      BY <2>3, <3>1, <3>5 DEF FinalisedOnce
  <2> QED
    BY <1>2, <2>1, <2>5, <2>6, <2>7 DEF Next
<1> QED
  BY <1>1, <1>2

(* As long as queries take turns, every transition is finalised exactly as *)
(* the comment in process_query says: once.                                *)
THEOREM SequentialStoresOnce == Spec => []StoredOnce
<1>1. Init => TurnInv
  BY DEF Init, TurnInv, FinalisedOnce
<1>2. TurnInv => StoredOnce
  BY DEF TurnInv, StoredOnce
<1> QED
  BY <1>1, <1>2, InitType, StepType, InitOnce, StepOnce, StepTurn, PTL DEF Spec

-----------------------------------------------------------------------------
(* What queries that take turns leave behind.                              *)

Finalising == {"observing", "observed", "searched", "taking", "storing", "clearing"}

(* What waits, if anything does, is of query n or of one after which all   *)
(* queries up to n missed it.                                              *)
WaitsSince(n) == last = None \/ (last <= n /\ (last + 1) .. n \subseteq missed)

(* Where the only thread that is in a query stands.                        *)
InTurn(c) ==
  /\ local[c].query = served
  /\ pc[c] \in Finalising => WaitsSince(served - 1)
  /\ pc[c] \in {"storing", "clearing"} => last # None /\ local[c].taken = last
  /\ pc[c] = "clearing" => Stored(last)
  /\ pc[c] \in {"deciding", "recording"} => last = None

Successors ==
  \A i \in DOMAIN buffer :
    /\ buffer[i].of < buffer[i].next
    /\ (buffer[i].of + 1) .. (buffer[i].next - 1) \subseteq missed

Kept == \A n \in finished : Stored(n) \/ last = n

(* Once nobody is finalising, the newest query has missed what waits too.  *)
Newest == (\A c \in Clients : pc[c] \notin Finalising) => WaitsSince(served)

ChainInv ==
  ~overlapped =>
    /\ \A c \in Clients : pc[c] # "idle" => InTurn(c)
    /\ Newest /\ Successors /\ Kept

(* A step of a thread that is alone finds and leaves the others idle.      *)
LEMMA Alone ==
  ASSUME TypeInv, TurnInv, NEW c \in Clients, Process(c), Watch, ~overlapped'
  PROVE  /\ ~overlapped
         /\ \A d \in Clients : d # c => pc[d] = "idle" /\ pc'[d] = "idle"
         /\ pc'[c] \in Places
<1>1. /\ ~overlapped
      /\ \A d, e \in Clients : pc'[d] # "idle" /\ pc'[e] # "idle" => d = e
  BY Zenon DEF Watch
<1>2. \A d, e \in Clients : pc[d] # "idle" /\ pc[e] # "idle" => d = e
  BY <1>1 DEF TurnInv
<1>3. /\ \A d \in Clients : d # c => pc'[d] = pc[d]
      /\ pc[c] # "idle" \/ pc'[c] # "idle"
      /\ pc'[c] \in Places
  BY DEF Process, Begin, Observe, FindSimilar, Miss, TestLast, TakeLast, Store, ClearLast,
         Decide, RecordLast, AddExperience, NamePhase, Consolidate, TriggerDrift, Answer,
         Goto, TypeInv, StateOK, Places
<1> QED
  BY <1>1, <1>2, <1>3

(* What is left to show of a step of the thread that is alone.             *)
LEMMA ChainStep ==
  ASSUME NEW c \in Clients,
         \A d \in Clients : d # c => pc'[d] = "idle",
         pc'[c] # "idle" => InTurn(c)',
         pc'[c] \notin Finalising => WaitsSince(served)',
         Successors', Kept'
  PROVE  ChainInv'
<1>1. \A d \in Clients : pc'[d] # "idle" => InTurn(d)'
  OBVIOUS
<1>2. Newest'
  BY DEF Newest
<1> QED
  BY <1>1, <1>2 DEF ChainInv

(* The query ends: what waits, if anything does, is its own.               *)
LEMMA AnswerChain ==
  ASSUME TypeInv, ChainInv, NEW c \in Clients, ~overlapped,
         \A d \in Clients : d # c => pc[d] = "idle" /\ pc'[d] = "idle",
         Answer(c),
         pc[c] \notin Finalising \/ last = None,
         UNCHANGED <<served, last, buffer, history>>
  PROVE  ChainInv'
<1> USE DEF history
<1>1. pc'[c] = "idle"
  BY DEF Answer, Goto, TypeInv, StateOK
<1>2. WaitsSince(served)
  <2>1. CASE last = None
    BY <2>1 DEF WaitsSince
  <2>2. CASE pc[c] \notin Finalising
    <3>1. \A d \in Clients : pc[d] \notin Finalising
      BY <2>2 DEF Finalising
    <3> QED
      BY <3>1 DEF ChainInv, Newest
  <2> QED
    BY <2>1, <2>2
<1>3. WaitsSince(served)'
  BY <1>2 DEF WaitsSince
<1>4. Successors' /\ Kept'
  BY DEF ChainInv, Successors, Kept, Stored
<1> QED
  BY <1>1, <1>3, <1>4, ChainStep

(* What missed stays missed, so a wait that only grows stays a wait.       *)
LEMMA MissesGrow ==
  ASSUME TypeInv, Successors, missed \subseteq missed', UNCHANGED buffer
  PROVE  Successors'
  BY DEF Successors

(* The query fails before it finalises: it misses what waits.              *)
LEMMA MissChain ==
  ASSUME TypeInv, ChainInv, NEW c \in Clients, ~overlapped,
         \A d \in Clients : d # c => pc[d] = "idle" /\ pc'[d] = "idle",
         Miss(c), pc[c] \in {"observing", "observed"},
         UNCHANGED <<served, last, buffer, finished>>
  PROVE  ChainInv'
<1>1. pc'[c] = "idle" /\ missed' = missed \union {local[c].query}
  BY DEF Miss, Answer, Goto, TypeInv, StateOK
<1>2. local[c].query = served /\ WaitsSince(served - 1) /\ Successors /\ Kept
  BY DEF ChainInv, InTurn, Finalising
<1>3. WaitsSince(served)'
  <2>1. CASE last = None
    BY <2>1 DEF WaitsSince
  <2>2. CASE last # None
    <3>1. last \in Nat /\ served \in Nat
      BY <2>2 DEF TypeInv, StateOK
    <3>2. last <= served - 1 /\ (last + 1) .. (served - 1) \subseteq missed
      BY <1>2, <2>2 DEF WaitsSince
    <3>3. last <= served /\ (last + 1) .. served \subseteq missed'
      BY <1>1, <1>2, <3>1, <3>2
    <3> QED
      BY <3>3 DEF WaitsSince
  <2> QED
    BY <2>1, <2>2
<1>4. Successors'
  BY <1>1, <1>2, MissesGrow
<1>5. Kept'
  BY <1>2 DEF Kept, Stored
<1> QED
  BY <1>1, <1>3, <1>4, <1>5, ChainStep

LEMMA StoredStays ==
  ASSUME NEW e, buffer \in Seq(Entry), buffer' = Append(buffer, e), NEW n, Stored(n)
  PROVE  Stored(n)'
<1>1. PICK i \in DOMAIN buffer : buffer[i].of = n
  BY DEF Stored
<1>2. i \in DOMAIN buffer' /\ buffer'[i] = buffer[i]
  BY <1>1
<1> QED
  BY <1>1, <1>2 DEF Stored

LEMMA StepChain ==
  ASSUME TypeInv, TurnInv, ChainInv, [Next]_vars PROVE ChainInv'
<1> SUFFICES ASSUME ~overlapped' PROVE ChainInv'
  BY DEF ChainInv
<1> USE DEF learning, drift, history
<1>1. CASE UNCHANGED vars
  BY <1>1 DEF vars, ChainInv, InTurn, Newest, WaitsSince, Successors, Kept, Stored
<1>2. ASSUME NEW c \in Clients, Process(c), Watch PROVE ChainInv'
  <2>1. /\ ~overlapped
        /\ \A d \in Clients : d # c => pc[d] = "idle" /\ pc'[d] = "idle"
    BY <1>2, Alone
  <2>2. /\ pc[c] # "idle" => InTurn(c)
        /\ pc[c] \notin Finalising => WaitsSince(served)
        /\ Successors /\ Kept
    BY <2>1 DEF ChainInv, Newest, Finalising
  <2>3. /\ served \in Nat /\ pc \in [Clients -> Places] /\ local \in [Clients -> Local]
        /\ buffer \in Seq(Entry)
    BY DEF TypeInv, StateOK, Local, Entry
  <2>4. CASE Begin(c)
    <3>1. /\ pc[c] = "idle" /\ pc'[c] = "observing"
          /\ served' = served + 1 /\ local'[c].query = served + 1
          /\ UNCHANGED <<last, buffer, finished, missed>>
      BY <2>3, <2>4 DEF Begin, Serving, Goto
    <3>2. WaitsSince(served)
      BY <2>2, <3>1 DEF Finalising
    <3>3. WaitsSince(served - 1)'
      BY <2>3, <3>1, <3>2 DEF WaitsSince
    <3>4. InTurn(c)'
      BY <3>1, <3>3 DEF InTurn
    <3>5. Successors' /\ Kept'
      BY <2>2, <3>1 DEF Successors, Kept, Stored
    <3> QED
      BY <2>1, <3>1, <3>4, <3>5, ChainStep DEF Finalising
  <2>5. CASE Observe(c) \/ FindSimilar(c)
    <3>1. /\ pc[c] \in {"observing", "observed"}
          /\ UNCHANGED <<served, last, buffer, finished>>
      BY <2>5 DEF Observe, FindSimilar
    <3>2. CASE Miss(c)
      BY <2>1, <3>1, <3>2, MissChain
    <3>3. ASSUME NEW p \in {"observed", "searched"}, Goto(c, p), UNCHANGED <<local, missed>>
          PROVE  ChainInv'
      <4>1. pc'[c] = p
        BY <2>3, <3>3 DEF Goto
      <4>2. InTurn(c)'
        BY <2>2, <3>1, <3>3, <4>1 DEF InTurn, Finalising, WaitsSince
      <4>3. Successors' /\ Kept'
        BY <2>2, <3>1, <3>3 DEF Successors, Kept, Stored
      <4> QED
        BY <2>1, <4>1, <4>2, <4>3, ChainStep DEF Finalising
    <3> QED
      BY <2>5, <3>2, <3>3 DEF Observe, FindSimilar
  <2>6. CASE TestLast(c)
    <3>1. /\ pc[c] = "searched"
          /\ pc'[c] = IF last = None THEN "deciding" ELSE "taking"
          /\ UNCHANGED <<served, last, buffer, local, finished, missed>>
      BY <2>3, <2>6 DEF TestLast, Goto
    <3>2. InTurn(c)'
      BY <2>2, <3>1 DEF InTurn, Finalising, WaitsSince
    <3>3. Successors' /\ Kept'
      BY <2>2, <3>1 DEF Successors, Kept, Stored
    <3> QED
      BY <2>1, <3>1, <3>2, <3>3, ChainStep DEF Finalising, WaitsSince
  <2>7. CASE TakeLast(c)
    <3>1. /\ pc[c] = "taking"
          /\ UNCHANGED <<served, last, buffer, finished, missed>>
      BY <2>7 DEF TakeLast
    <3>2. CASE last = None /\ Answer(c)
      BY <2>1, <3>1, <3>2, AnswerChain
    <3>3. CASE /\ last # None
               /\ local' = [local EXCEPT ![c].taken = last]
               /\ Goto(c, "storing")
      <4>1. /\ pc'[c] = "storing" /\ local'[c].taken = last
            /\ local'[c].query = local[c].query
        BY <2>3, <3>3 DEF Goto, Local
      <4>2. InTurn(c)'
        BY <2>2, <3>1, <3>3, <4>1 DEF InTurn, Finalising, WaitsSince
      <4>3. Successors' /\ Kept'
        BY <2>2, <3>1 DEF Successors, Kept, Stored
      <4> QED
        BY <2>1, <4>1, <4>2, <4>3, ChainStep DEF Finalising
    <3> QED
      BY <2>7, <3>2, <3>3 DEF TakeLast
  <2>8. CASE Store(c)
    <3>1. /\ pc[c] = "storing" /\ pc'[c] = "clearing"
          /\ UNCHANGED <<served, last, local, finished, missed>>
      BY <2>3, <2>8 DEF Store, Goto
    <3>2. PICK e : /\ buffer' = Append(buffer, e)
                   /\ e.of = local[c].taken /\ e.next = local[c].query
      BY <2>8 DEF Store
    <3>3. /\ DOMAIN buffer' = DOMAIN buffer \union {Len(buffer) + 1}
          /\ \A i \in DOMAIN buffer : buffer'[i] = buffer[i]
          /\ buffer'[Len(buffer) + 1] = e
      BY <2>3, <3>2
    <3>4. e.of = last /\ e.next = served /\ last # None
      BY <2>2, <3>1, <3>2 DEF InTurn
    <3>5. e.of < e.next /\ (e.of + 1) .. (e.next - 1) \subseteq missed
      <4>1. last \in Nat /\ last <= served - 1 /\ (last + 1) .. (served - 1) \subseteq missed
        BY <2>2, <3>1, <3>4 DEF InTurn, Finalising, WaitsSince, TypeInv, StateOK
      <4> QED
        BY <2>3, <3>4, <4>1
    <3>6. Stored(e.of)'
      BY <3>3 DEF Stored
    <3>7. InTurn(c)'
      BY <2>2, <3>1, <3>4, <3>6 DEF InTurn, Stored, Finalising, WaitsSince
    <3>8. Successors'
      BY <2>2, <3>1, <3>3, <3>5 DEF Successors
    <3>9. Kept'
      BY <2>2, <2>3, <3>1, <3>2, StoredStays DEF Kept
    <3> QED
      BY <2>1, <3>1, <3>7, <3>8, <3>9, ChainStep DEF Finalising
  <2>9. CASE ClearLast(c)
    <3>1. /\ pc[c] = "clearing" /\ pc'[c] = "deciding" /\ last' = None
          /\ local'[c].query = local[c].query
          /\ UNCHANGED <<served, buffer, finished, missed>>
      BY <2>3, <2>9 DEF ClearLast, Goto, Local
    <3>2. InTurn(c)' /\ WaitsSince(served)'
      BY <2>2, <3>1 DEF InTurn, Finalising, WaitsSince
    <3>3. Successors'
      BY <2>2, <3>1 DEF Successors
    <3>4. Kept'
      BY <2>2, <3>1 DEF InTurn, Kept, Stored
    <3> QED
      BY <2>1, <3>1, <3>2, <3>3, <3>4, ChainStep
  <2>10. CASE Decide(c)
    <3>1. /\ pc[c] = "deciding"
          /\ UNCHANGED <<served, last, buffer, finished, missed>>
      BY <2>10 DEF Decide
    <3>2. last = None
      BY <2>2, <3>1 DEF InTurn
    <3>3. CASE Answer(c)
      BY <2>1, <3>1, <3>2, <3>3, AnswerChain
    <3>4. CASE Goto(c, "recording") /\ UNCHANGED local
      <4>1. pc'[c] = "recording"
        BY <2>3, <3>4 DEF Goto
      <4>2. InTurn(c)' /\ WaitsSince(served)'
        BY <2>2, <3>1, <3>2, <3>4, <4>1 DEF InTurn, Finalising, WaitsSince
      <4>3. Successors' /\ Kept'
        BY <2>2, <3>1 DEF Successors, Kept, Stored
      <4> QED
        BY <2>1, <4>2, <4>3, ChainStep
    <3> QED
      BY <2>10, <3>3, <3>4 DEF Decide
  <2>11. CASE RecordLast(c)
    <3>1. /\ pc[c] = "recording" /\ pc'[c] = "learning"
          /\ last' = local[c].query
          /\ finished' = finished \union {local[c].query}
          /\ UNCHANGED <<served, buffer, local, missed>>
      BY <2>3, <2>11 DEF RecordLast, Goto
    <3>2. last = None /\ local[c].query = served
      BY <2>2, <3>1 DEF InTurn
    <3>3. InTurn(c)' /\ WaitsSince(served)'
      BY <2>3, <3>1, <3>2 DEF InTurn, Finalising, WaitsSince
    <3>4. Successors'
      BY <2>2, <3>1 DEF Successors
    <3>5. \A n \in finished : n # None
      <4>1. finished \subseteq Nat
        BY PipelineAssumption DEF TypeInv, StateOK
      <4> QED
        BY <4>1, PipelineAssumption
    <3>6. Kept'
      BY <2>2, <3>1, <3>2, <3>5 DEF Kept, Stored
    <3> QED
      BY <2>1, <3>3, <3>4, <3>6, ChainStep
  <2>12. ASSUME /\ pc[c] \in {"learning", "naming", "consolidating", "triggering"}
                /\ UNCHANGED <<served, last, buffer, finished, missed>>,
                \/ Answer(c)
                \/ /\ pc'[c] \in {"naming", "consolidating", "triggering"}
                   /\ local'[c].query = local[c].query
         PROVE  ChainInv'
    <3>1. pc[c] \notin Finalising
      BY <2>12 DEF Finalising
    <3>2. CASE Answer(c)
      BY <2>1, <2>12, <3>1, <3>2, AnswerChain
    <3>3. CASE /\ pc'[c] \in {"naming", "consolidating", "triggering"}
               /\ local'[c].query = local[c].query
      <4>1. InTurn(c)' /\ WaitsSince(served)'
        BY <2>2, <2>12, <3>1, <3>3 DEF InTurn, Finalising, WaitsSince
      <4>2. Successors' /\ Kept'
        BY <2>2, <2>12 DEF Successors, Kept, Stored
      <4> QED
        BY <2>1, <4>1, <4>2, ChainStep
    <3> QED
      BY <2>12, <3>2, <3>3
  <2>13. CASE AddExperience(c)
    <3>1. /\ pc[c] = "learning"
          /\ UNCHANGED <<served, last, buffer, finished, missed>>
      BY <2>13 DEF AddExperience
    <3>2. \/ Answer(c)
          \/ pc'[c] = "naming" /\ local'[c].query = local[c].query
      BY <2>3, <2>13 DEF AddExperience, Goto, Local
    <3> QED
      BY <2>12, <3>1, <3>2
  <2>14. CASE NamePhase(c)
    <3>1. /\ pc[c] = "naming" /\ pc'[c] \in {"consolidating", "triggering"}
          /\ local'[c].query = local[c].query
          /\ UNCHANGED <<served, last, buffer, finished, missed>>
      BY <2>3, <2>14 DEF NamePhase, Goto, Local
    <3> QED
      BY <2>12, <3>1
  <2>15. CASE Consolidate(c)
    <3>1. /\ pc[c] = "consolidating"
          /\ UNCHANGED <<served, last, buffer, finished, missed>>
      BY <2>15 DEF Consolidate
    <3>2. Answer(c) \/ (pc'[c] = "triggering" /\ local'[c].query = local[c].query)
      BY <2>3, <2>15 DEF Consolidate, Goto
    <3> QED
      BY <2>12, <3>1, <3>2
  <2>16. CASE TriggerDrift(c)
    <3>1. /\ pc[c] = "triggering" /\ Answer(c)
          /\ UNCHANGED <<served, last, buffer, finished, missed>>
      BY <2>16 DEF TriggerDrift
    <3> QED
      BY <2>12, <3>1
  <2> QED
    BY <1>2, <2>4, <2>5, <2>6, <2>7, <2>8, <2>9, <2>10, <2>11, <2>13, <2>14, <2>15, <2>16
       DEF Process
<1> QED
  BY <1>1, <1>2 DEF Next

LEMMA InitChain == Init => ChainInv
<1> SUFFICES ASSUME Init PROVE ChainInv
  OBVIOUS
<1>1. /\ last = None /\ finished = {} /\ DOMAIN buffer = {}
      /\ \A c \in Clients : pc[c] = "idle"
  BY DEF Init
<1> QED
  BY <1>1 DEF ChainInv, Newest, WaitsSince, Successors, Kept

(* As long as queries take turns, every recorded transition is stored      *)
(* exactly once, with the state of the first later query that did not fail *)
(* before finalising it, and none is lost, whichever queries fail and      *)
(* wherever (pipeline.py:236-247, 306-318).                                *)
THEOREM SequentialTurnsAreExact == Spec => []TurnsAreExact
<1>1. Init => TurnInv
  BY DEF Init, TurnInv, FinalisedOnce
<1>2. TurnInv /\ ChainInv => TurnsAreExact
  BY DEF TurnInv, ChainInv, Successors, Kept, TurnsAreExact, StoredOnce,
         SuccessorFollows, NothingLost
<1> QED
  BY <1>1, <1>2, InitType, StepType, InitOnce, StepOnce, StepTurn, InitChain, StepChain,
     PTL DEF Spec

-----------------------------------------------------------------------------
(* The names under which policies are consolidated, however queries        *)
(* overlap.                                                                *)

(* The thread has begun a phase and not yet consolidated.                  *)
Drifting(c) == pc[c] \in {"naming", "consolidating"}

(* Phases begun, under way or consolidated, all differ, and are no newer   *)
(* than the current one; a drift is newer than all that its thread         *)
(* consolidated before.                                                    *)
NameInv ==
  /\ \A c \in Clients : Drifting(c) => local[c].begun <= phase
  /\ \A c \in Clients :
       pc[c] = "consolidating" =>
         local[c].begun <= local[c].named /\ local[c].named <= phase
  /\ \A c, d \in Clients :
       Drifting(c) /\ Drifting(d) /\ local[c].begun = local[d].begun => c = d
  /\ \A i \in DOMAIN consolidated :
       consolidated[i].begun <= phase /\ consolidated[i].phase <= phase
  /\ \A c \in Clients, i \in DOMAIN consolidated :
       Drifting(c) =>
         /\ consolidated[i].begun # local[c].begun
         /\ consolidated[i].by = c => consolidated[i].phase < local[c].begun
  /\ NamesAreFresh

(* A step that leaves the names alone and in which the thread does not     *)
(* come to a drift.                                                        *)
LEMMA NamesStay ==
  ASSUME TypeInv, NameInv, NEW c \in Clients, UNCHANGED <<phase, consolidated>>,
         \A d \in Clients : d # c => pc'[d] = pc[d] /\ local'[d] = local[d],
         ~Drifting(c)'
  PROVE  NameInv'
<1>1. \A d \in Clients : Drifting(d)' => d # c /\ Drifting(d)
  BY DEF Drifting
<1>2. NamesAreFresh'
  BY DEF NameInv, NamesAreFresh
<1>3. \A d \in Clients : pc'[d] = "consolidating" => d # c /\ pc[d] = "consolidating"
  BY DEF Drifting
<1> QED
  BY <1>1, <1>2, <1>3 DEF NameInv

LEMMA StepNames ==
  ASSUME TypeInv, NameInv, [Next]_vars PROVE NameInv'
<1> USE DEF drift
<1>0. /\ pc \in [Clients -> Places] /\ local \in [Clients -> Local] /\ phase \in Nat
      /\ consolidated \in Seq([phase : Nat, begun : Nat, by : Clients])
      /\ \A c \in Clients : Assigned(c)
  BY DEF TypeInv, StateOK, Local
<1>1. CASE UNCHANGED vars
  BY <1>1 DEF vars, NameInv, Drifting, NamesAreFresh
<1>2. ASSUME NEW c \in Clients, Process(c) PROVE NameInv'
  <2>1. \A d \in Clients : d # c => pc'[d] = pc[d] /\ local'[d] = local[d]
    BY <1>0, <1>2
       DEF Process, Begin, Observe, FindSimilar, Miss, TestLast, TakeLast, Store,
           ClearLast, Decide, RecordLast, AddExperience, NamePhase, Consolidate,
           TriggerDrift, Answer, Goto
  <2>2. CASE \/ Begin(c) \/ Observe(c) \/ FindSimilar(c) \/ TestLast(c) \/ TakeLast(c)
             \/ Store(c) \/ ClearLast(c) \/ Decide(c) \/ RecordLast(c) \/ TriggerDrift(c)
    <3>1. UNCHANGED <<phase, consolidated>>
      BY <2>2 DEF Begin, Observe, FindSimilar, TestLast, TakeLast, Store, ClearLast,
                  Decide, RecordLast, TriggerDrift
    <3>2. ~Drifting(c)'
      BY <1>0, <2>2
         DEF Begin, Observe, FindSimilar, Miss, TestLast, TakeLast, Store, ClearLast,
             Decide, RecordLast, TriggerDrift, Answer, Goto, Drifting
    <3> QED
      BY <2>1, <3>1, <3>2, NamesStay
  <2>3. CASE AddExperience(c)
    <3>1. CASE Clock!Stay /\ Answer(c) /\ UNCHANGED consolidated
      <4>1. UNCHANGED <<phase, consolidated>> /\ ~Drifting(c)'
        BY <1>0, <3>1 DEF Clock!Stay, Answer, Goto, Drifting
      <4> QED
        BY <2>1, <4>1, NamesStay
    <3>2. CASE /\ Clock!Turn /\ UNCHANGED consolidated
               /\ local' = [local EXCEPT ![c].begun = phase']
               /\ Goto(c, "naming")
      <4>1. /\ phase' = phase + 1 /\ pc'[c] = "naming" /\ local'[c].begun = phase + 1
            /\ consolidated' = consolidated
        BY <1>0, <3>2 DEF Clock!Turn, Goto, Local
      <4>2. \A d \in Clients : Drifting(d) => local[d].begun \in Nat
        BY <1>0 DEF Assigned, Drifting
      <4>3. \A d \in Clients : Drifting(d)' => d = c \/ Drifting(d)
        BY <2>1 DEF Drifting
      <4>4. \A d \in Clients : pc[d] = "consolidating" => local[d].named \in Nat
        BY <1>0 DEF Assigned
      <4>5. \A i \in DOMAIN consolidated :
              consolidated[i].begun \in Nat /\ consolidated[i].phase \in Nat
        <5> DEFINE T == [phase : Nat, begun : Nat, by : Clients]
        <5>1. \A t \in T : t.begun \in Nat /\ t.phase \in Nat
          OBVIOUS
        <5>2. consolidated \in Seq(T)
          BY <1>0
        <5> HIDE DEF T
        <5>3. \A i \in DOMAIN consolidated : consolidated[i] \in T
          BY <5>2
        <5> QED
          BY <5>1, <5>3
      <4>6. NamesAreFresh'
        BY <4>1 DEF NameInv, NamesAreFresh
      <4>7. \A d \in Clients : Drifting(d)' => local'[d].begun <= phase'
        BY <1>0, <2>1, <4>1, <4>2, <4>3 DEF NameInv
      <4>8. \A d \in Clients :
              pc'[d] = "consolidating" =>
                local'[d].begun <= local'[d].named /\ local'[d].named <= phase'
        BY <1>0, <2>1, <4>1, <4>4 DEF NameInv
      <4>9. \A d, e \in Clients :
              Drifting(d)' /\ Drifting(e)' /\ local'[d].begun = local'[e].begun => d = e
        BY <1>0, <2>1, <4>1, <4>2, <4>3 DEF NameInv
      <4>10. \A i \in DOMAIN consolidated' :
               consolidated'[i].begun <= phase' /\ consolidated'[i].phase <= phase'
        BY <1>0, <4>1, <4>5 DEF NameInv
      <4>11. ASSUME NEW d \in Clients, NEW i \in DOMAIN consolidated', Drifting(d)'
             PROVE  /\ consolidated'[i].begun # local'[d].begun
                    /\ consolidated'[i].by = d => consolidated'[i].phase < local'[d].begun
        <5>1. CASE d = c
          BY <1>0, <4>1, <4>5, <5>1 DEF NameInv
        <5>2. CASE d # c
          BY <2>1, <4>1, <4>3, <4>11, <5>2 DEF NameInv
        <5> QED
          BY <5>1, <5>2
      <4> QED
        BY <4>6, <4>7, <4>8, <4>9, <4>10, <4>11 DEF NameInv
    <3> QED
      BY <2>3, <3>1, <3>2 DEF AddExperience
  <2>4. CASE NamePhase(c)
    <3>1. /\ pc[c] = "naming" /\ pc'[c] \in {"consolidating", "triggering"}
          /\ local'[c].named = phase /\ local'[c].begun = local[c].begun
          /\ UNCHANGED <<phase, consolidated>>
      BY <1>0, <2>4 DEF NamePhase, Goto, Local
    <3>2. /\ \A d \in Clients : Drifting(d)' => Drifting(d)
          /\ \A d \in Clients : local'[d].begun = local[d].begun
      BY <2>1, <3>1 DEF Drifting
    <3>3. \A d \in Clients :
            pc'[d] = "consolidating" =>
              local'[d].begun <= local'[d].named /\ local'[d].named <= phase'
      <4>1. local[c].begun <= phase
        BY <3>1 DEF NameInv, Drifting
      <4>2. phase <= phase
        BY <1>0
      <4>3. ASSUME NEW d \in Clients, d # c, pc'[d] = "consolidating"
            PROVE  local'[d].begun <= local'[d].named /\ local'[d].named <= phase'
        BY <2>1, <3>1, <4>3 DEF NameInv
      <4> QED
        BY <3>1, <4>1, <4>2, <4>3
    <3>4. NamesAreFresh'
      BY <3>1 DEF NameInv, NamesAreFresh
    <3> QED
      BY <3>1, <3>2, <3>3, <3>4 DEF NameInv
  <2>5. CASE Consolidate(c)
    <3>0. pc[c] = "consolidating" /\ phase' = phase
      BY <2>5 DEF Consolidate
    <3>1. CASE Answer(c) /\ UNCHANGED consolidated
      <4>1. ~Drifting(c)'
        BY <1>0, <3>1 DEF Answer, Goto, Drifting
      <4> QED
        BY <2>1, <3>0, <3>1, <4>1, NamesStay
    <3>2. CASE /\ consolidated' = Append(consolidated,
                     [phase |-> local[c].named, begun |-> local[c].begun, by |-> c])
               /\ Goto(c, "triggering")
      <4> DEFINE e == [phase |-> local[c].named, begun |-> local[c].begun, by |-> c]
                 n == Len(consolidated) + 1
      <4>1. /\ DOMAIN consolidated = 1 .. Len(consolidated) /\ Len(consolidated) \in Nat
            /\ DOMAIN consolidated' = DOMAIN consolidated \union {n}
            /\ \A i \in DOMAIN consolidated : consolidated'[i] = consolidated[i]
            /\ consolidated'[n] = e
        BY <1>0, <3>2
      <4>2. e.begun = local[c].begun /\ e.phase = local[c].named /\ e.by = c
        OBVIOUS
      <4>3. \A d \in Clients : Drifting(d)' => d # c /\ Drifting(d)
        BY <1>0, <2>1, <3>2 DEF Goto, Drifting
      <4>4. \A d \in Clients : pc'[d] = "consolidating" => d # c /\ pc[d] = "consolidating"
        BY <1>0, <2>1, <3>2 DEF Goto
      <4>5. /\ Drifting(c) /\ local[c].begun <= local[c].named /\ local[c].named <= phase
            /\ local[c].begun <= phase
        BY <3>0 DEF NameInv, Drifting
      <4> HIDE DEF e, n
      <4>6. \A i \in DOMAIN consolidated :
              /\ consolidated[i].begun # e.begun
              /\ consolidated[i].by = c => consolidated[i].phase < e.begun
        BY <4>2, <4>5 DEF NameInv
      <4>7. NamesAreFresh'
        <5>1. ASSUME NEW i \in DOMAIN consolidated', NEW j \in DOMAIN consolidated'
              PROVE  /\ consolidated'[i].begun <= consolidated'[i].phase
                     /\ i # j => consolidated'[i].begun # consolidated'[j].begun
                     /\ i < j /\ consolidated'[i].by = consolidated'[j].by
                          => consolidated'[i].phase < consolidated'[j].begun
          <6>1. CASE i \in DOMAIN consolidated /\ j \in DOMAIN consolidated
            BY <4>1, <6>1 DEF NameInv, NamesAreFresh
          <6>2. CASE i \in DOMAIN consolidated /\ j = n
            BY <4>1, <4>2, <4>6, <6>2 DEF NameInv, NamesAreFresh
          <6>3. CASE i = n /\ j \in DOMAIN consolidated
            BY <4>1, <4>2, <4>5, <4>6, <6>3 DEF n
          <6>4. CASE i = n /\ j = n
            BY <4>1, <4>2, <4>5, <6>4 DEF n
          <6> QED
            BY <4>1, <6>1, <6>2, <6>3, <6>4
        <5> QED
          BY <5>1 DEF NamesAreFresh
      <4>8. \A i \in DOMAIN consolidated' :
              consolidated'[i].begun <= phase' /\ consolidated'[i].phase <= phase'
        BY <3>0, <4>1, <4>2, <4>5 DEF NameInv
      <4>9. ASSUME NEW d \in Clients, NEW i \in DOMAIN consolidated', Drifting(d)'
            PROVE  /\ consolidated'[i].begun # local'[d].begun
                   /\ consolidated'[i].by = d => consolidated'[i].phase < local'[d].begun
        <5>1. d # c /\ Drifting(d) /\ local'[d] = local[d]
          BY <2>1, <4>3, <4>9
        <5>2. CASE i \in DOMAIN consolidated
          BY <4>1, <5>1, <5>2 DEF NameInv
        <5>3. CASE i = n
          BY <4>1, <4>2, <4>5, <5>1, <5>3 DEF NameInv
        <5> QED
          BY <4>1, <5>2, <5>3
      <4>10. /\ \A d \in Clients : Drifting(d)' => local'[d].begun <= phase'
             /\ \A d \in Clients :
                  pc'[d] = "consolidating" =>
                    local'[d].begun <= local'[d].named /\ local'[d].named <= phase'
             /\ \A d, b \in Clients :
                  Drifting(d)' /\ Drifting(b)' /\ local'[d].begun = local'[b].begun => d = b
        BY <2>1, <3>0, <4>3, <4>4 DEF NameInv
      <4> QED
        BY <4>7, <4>8, <4>9, <4>10 DEF NameInv
    <3> QED
      BY <2>5, <3>1, <3>2 DEF Consolidate
  <2> QED
    BY <1>2, <2>2, <2>3, <2>4, <2>5 DEF Process
<1> QED
  BY <1>1, <1>2 DEF Next

(* However queries overlap, a drift is consolidated at most once and under *)
(* no phase older than its own, and no thread consolidates two of its      *)
(* drifts under one name (pipeline.py:218-223, drift_detection.py:75-84).  *)
THEOREM ConsolidationNamesAreFresh == Spec => []NamesAreFresh
<1>1. Init => NameInv
  BY DEF Init, NameInv, NamesAreFresh, Drifting
<1>2. NameInv => NamesAreFresh
  BY DEF NameInv
<1> QED
  BY <1>1, <1>2, InitType, StepType, StepNames, PTL DEF Spec
=============================================================================
