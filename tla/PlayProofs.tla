------------------------------ MODULE PlayProofs ------------------------------
(* Theorems about a fan-out play with any number of hosts, for every       *)
(* interleaving of their workers.                                          *)
EXTENDS Play, TLAPS

(* With {host} in the path nobody but its worker touches a host's file:    *)
(* what is in it is what the worker has written so far.                    *)
FileInv(h) ==
  /\ offset[h] \in 0..Chunks
  /\ pc[h] \in {"agent", "opening"} => offset[h] = 0
  /\ templated /\ pc[h] = "dumping" => files[h] = [i \in 1..offset[h] |-> h]
  /\ templated /\ pc[h] = "finished" /\ h \notin warned => files[h] = [i \in 1..Chunks |-> h]

ArtifactInv ==
  /\ templated \in BOOLEAN
  /\ pc \in [Hosts -> PCs] /\ offset \in [Hosts -> Int] /\ DOMAIN files = Paths
  /\ \A h \in Hosts : FileInv(h)

LEMMA ArtifactInit == Init => ArtifactInv
BY PlayAssumption DEF Init, ArtifactInv, FileInv, PCs, Paths

(* A chunk put where the file ends makes it one longer.                    *)
LEMMA PutAtTheEnd ==
  ASSUME NEW h \in Hosts, NEW n \in Nat
  PROVE  Put([i \in 1..n |-> h], n, h) = [i \in 1..(n + 1) |-> h]
<1> DEFINE s == [i \in 1..n |-> h]
<1>1. Len(s) = n /\ \A i \in 1..n : s[i] = h
  OBVIOUS
<1> HIDE DEF s
<1>2. (IF Len(s) > n THEN Len(s) ELSE n + 1) = n + 1
  BY <1>1
<1>3. \A i \in 1..(n + 1) : (IF i = n + 1 THEN h ELSE IF i <= Len(s) THEN s[i] ELSE "hole") = h
  BY <1>1
<1>4. Put(s, n, h) = [i \in 1..(n + 1) |-> h]
  BY <1>2, <1>3 DEF Put
<1> QED BY <1>4 DEF s

LEMMA ArtifactStep == ArtifactInv /\ [Next]_vars => ArtifactInv'
<1> SUFFICES ASSUME ArtifactInv, [Next]_vars PROVE ArtifactInv'
  OBVIOUS
<1>0. /\ templated \in BOOLEAN /\ pc \in [Hosts -> PCs] /\ offset \in [Hosts -> Int]
      /\ DOMAIN files = Paths /\ Hosts \subseteq Paths /\ Chunks \in Nat \ {0}
      /\ \A g \in Hosts : FileInv(g)
  BY PlayAssumption DEF ArtifactInv, Paths
<1>1. ASSUME NEW h \in Hosts,
             (\E input \in Inputs : AgentStep(h, input)) \/ AgentReturns(h) \/ AgentFails(h)
      PROVE  ArtifactInv'
  <2>1. /\ pc' \in [Hosts -> PCs] /\ offset' = offset /\ files' = files /\ warned' = warned
        /\ templated' = templated /\ pc[h] = "agent" /\ pc'[h] \in {"agent", "opening", "failed"}
        /\ \A g \in Hosts \ {h} : pc'[g] = pc[g]
    BY <1>0, <1>1 DEF AgentStep, AgentReturns, AgentFails, options, PCs
  <2> QED BY <1>0, <2>1 DEF ArtifactInv, FileInv
<1>2. ASSUME NEW h \in Hosts, OpenArtifact(h) PROVE ArtifactInv'
  <2>1. /\ pc' \in [Hosts -> PCs] /\ offset' = offset /\ warned' = warned
        /\ templated' = templated /\ pc[h] = "opening" /\ pc'[h] = "dumping"
        /\ \A g \in Hosts \ {h} : pc'[g] = pc[g]
        /\ DOMAIN files' = Paths
    BY <1>0, <1>2 DEF OpenArtifact, options, PCs
  <2>2. templated => files'[h] = <<>> /\ \A g \in Hosts \ {h} : files'[g] = files[g]
    BY <1>0, <1>2 DEF OpenArtifact, Rendered
  <2>3. <<>> = [i \in 1..0 |-> h]
    OBVIOUS
  <2>4. offset[h] = 0
    BY <1>0, <2>1 DEF FileInv
  <2>5. FileInv(h)'
    BY <2>1, <2>2, <2>3, <2>4, <1>0 DEF FileInv
  <2>6. ASSUME NEW g \in Hosts \ {h} PROVE FileInv(g)'
    BY <2>1, <2>2, <1>0 DEF FileInv
  <2>7. \A g \in Hosts : FileInv(g)'
    BY <2>5, <2>6
  <2> QED BY <1>0, <2>1, <2>7 DEF ArtifactInv
<1>3. ASSUME NEW h \in Hosts, DumpChunk(h) PROVE ArtifactInv'
  <2>1. /\ pc' = pc /\ warned' = warned /\ templated' = templated /\ pc[h] = "dumping"
        /\ offset' \in [Hosts -> Int] /\ offset'[h] = offset[h] + 1
        /\ offset[h] \in 0..Chunks /\ offset[h] < Chunks
        /\ \A g \in Hosts \ {h} : offset'[g] = offset[g]
        /\ DOMAIN files' = Paths
    <3>1. offset[h] \in 0..Chunks
      BY <1>0 DEF FileInv
    <3>2. files' = [files EXCEPT ![Rendered(h)] = Put(files[Rendered(h)], offset[h], h)]
      BY <1>3 DEF DumpChunk
    <3>3. DOMAIN files' = Paths
      BY <1>0, <3>2
    <3> QED BY <1>0, <1>3, <3>1, <3>3 DEF DumpChunk, options
  <2>2. templated => /\ files'[h] = Put(files[h], offset[h], h)
                     /\ \A g \in Hosts \ {h} : files'[g] = files[g]
    BY <1>0, <1>3 DEF DumpChunk, Rendered
  <2>3. templated => files'[h] = [i \in 1..(offset[h] + 1) |-> h]
    <3>1. templated => files[h] = [i \in 1..offset[h] |-> h]
      BY <1>0, <2>1 DEF FileInv
    <3>2. offset[h] \in Nat
      BY <2>1
    <3> QED BY <2>2, <3>1, <3>2, PutAtTheEnd
  <2>4. FileInv(h)'
    <3>1. offset'[h] \in 0..Chunks
      BY <1>0, <2>1
    <3> QED BY <2>1, <2>3, <3>1 DEF FileInv
  <2>5. ASSUME NEW g \in Hosts \ {h} PROVE FileInv(g)'
    BY <2>1, <2>2, <1>0 DEF FileInv
  <2>6. \A g \in Hosts : FileInv(g)'
    BY <2>4, <2>5
  <2> QED BY <1>0, <2>1, <2>6 DEF ArtifactInv
<1>4. ASSUME NEW h \in Hosts, CloseArtifact(h) \/ ArtifactFails(h) \/ ArtifactRaises(h)
      PROVE  ArtifactInv'
  <2>1. /\ pc' \in [Hosts -> PCs] /\ offset' = offset /\ files' = files
        /\ templated' = templated /\ pc'[h] \in {"finished", "failed"}
        /\ \A g \in Hosts \ {h} : pc'[g] = pc[g] /\ (g \in warned' <=> g \in warned)
        /\ \/ pc[h] = "dumping" /\ offset[h] = Chunks
           \/ h \in warned'
           \/ pc'[h] = "failed"
    BY <1>0, <1>4 DEF CloseArtifact, ArtifactFails, ArtifactRaises, options, PCs
  <2>2. FileInv(h)'
    BY <1>0, <2>1 DEF FileInv
  <2>3. ASSUME NEW g \in Hosts \ {h} PROVE FileInv(g)'
    BY <1>0, <2>1 DEF FileInv
  <2>4. \A g \in Hosts : FileInv(g)'
    BY <2>2, <2>3
  <2> QED BY <1>0, <2>1, <2>4 DEF ArtifactInv
<1>5. CASE ClusterTask \/ NoClient \/ UNCHANGED vars
  <2>1. UNCHANGED host_vars
    BY <1>5 DEF ClusterTask, NoClient, StartAggregate, Complete, AggregateFails, Aggregated, vars
  <2> QED BY <1>0, <2>1 DEF host_vars, ArtifactInv, FileInv
<1> QED BY <1>1, <1>2, <1>3, <1>4, <1>5 DEF Next, HostTask

(* With {host} in the path every host that finished without a warning has  *)
(* its own artifact, whole.                                                *)
THEOREM OwnArtifactHolds == Spec => []OwnArtifact
<1>1. ArtifactInv => OwnArtifact
  BY DEF ArtifactInv, FileInv, OwnArtifact
<1> QED BY <1>1, ArtifactInit, ArtifactStep, PTL DEF Spec

-----------------------------------------------------------------------------
(* Termination, but for the waiting: what each host has left to do, and    *)
(* what the aggregate task has.                                            *)
HostLeft(h) ==
  CASE pc[h] = "agent" -> (MaxEntries - Len(transcript[h])) + Chunks + 3
    [] pc[h] = "opening" -> Chunks + 2
    [] pc[h] = "dumping" -> (Chunks - offset[h]) + 1
    [] pc[h] \in {"finished", "failed"} -> 0

ClusterLeft ==
  CASE cluster = "waiting" -> 3 [] cluster = "asking" -> 2 [] cluster = "answered" -> 1
    [] cluster \in {"finished", "failed", "not_run"} -> 0

AllLeftNatural == ClusterLeft \in Nat /\ \A h \in Hosts : HostLeft(h) \in Nat

(* Someone has less to do, and nobody has more.                            *)
Progress ==
  /\ ClusterLeft' <= ClusterLeft
  /\ \A h \in Hosts : HostLeft(h)' <= HostLeft(h)
  /\ ClusterLeft' < ClusterLeft \/ \E h \in Hosts : HostLeft(h)' < HostLeft(h)

WorkerInv ==
  /\ transcript \in [Hosts -> Seq(BOOLEAN)]
  /\ \A h \in Hosts : Len(transcript[h]) <= MaxEntries
  /\ cluster \in ClusterPCs

LEMMA WorkerInit == Init => WorkerInv
BY PlayAssumption DEF Init, WorkerInv, ClusterPCs

LEMMA WorkerStep == WorkerInv /\ [Next]_vars => WorkerInv'
<1> SUFFICES ASSUME WorkerInv, [Next]_vars PROVE WorkerInv'
  OBVIOUS
<1>1. ASSUME NEW h \in Hosts, NEW input \in Inputs, AgentStep(h, input) PROVE WorkerInv'
  <2>1. /\ Len(transcript[h]) < MaxEntries /\ transcript[h] \in Seq(BOOLEAN)
        /\ transcript' = [transcript EXCEPT ![h] = Append(transcript[h], Displayed(input))]
        /\ Displayed(input) \in BOOLEAN /\ cluster' = cluster
    BY <1>1 DEF AgentStep, WorkerInv, Displayed, aggregate
  <2> DEFINE t == Append(transcript[h], Displayed(input))
  <2>2. t \in Seq(BOOLEAN) /\ Len(t) = Len(transcript[h]) + 1
    BY <2>1
  <2> HIDE DEF t
  <2>3. transcript' = [transcript EXCEPT ![h] = t]
    BY <2>1 DEF t
  <2>4. Len(t) <= MaxEntries
    BY <2>1, <2>2, PlayAssumption
  <2> QED BY <2>1, <2>2, <2>3, <2>4 DEF WorkerInv
<1>2. CASE \E h \in Hosts : AgentFails(h) \/ HostTask(h) \/ ArtifactFails(h)
                              \/ ArtifactRaises(h)
  <2>1. transcript' = transcript /\ cluster' = cluster
    BY <1>2 DEF AgentFails, HostTask, AgentReturns, OpenArtifact, DumpChunk, CloseArtifact,
                ArtifactFails, ArtifactRaises, aggregate
  <2> QED BY <2>1 DEF WorkerInv
<1>3. CASE ClusterTask \/ NoClient \/ UNCHANGED vars
  <2>1. transcript' = transcript /\ cluster' \in ClusterPCs
    BY <1>3 DEF ClusterTask, NoClient, StartAggregate, Complete, AggregateFails, Aggregated, vars,
                host_vars, ClusterPCs, WorkerInv
  <2> QED BY <2>1 DEF WorkerInv
<1> QED BY <1>1, <1>2, <1>3 DEF Next

LEMMA Bounds ==
  ASSUME ArtifactInv, WorkerInv, NEW h \in Hosts
  PROVE  /\ MaxEntries \in Nat /\ Chunks \in Nat /\ pc[h] \in PCs /\ offset[h] \in 0..Chunks
         /\ Len(transcript[h]) \in Nat /\ Len(transcript[h]) <= MaxEntries
<1>1. MaxEntries \in Nat /\ Chunks \in Nat
  BY PlayAssumption
<1>2. pc[h] \in PCs
  BY DEF ArtifactInv
<1>3. offset[h] \in 0..Chunks
  BY DEF ArtifactInv, FileInv
<1>4. transcript[h] \in Seq(BOOLEAN) /\ Len(transcript[h]) <= MaxEntries
  BY DEF WorkerInv
<1> QED BY <1>1, <1>2, <1>3, <1>4

LEMMA LeftIsNatural == ArtifactInv /\ WorkerInv => AllLeftNatural
<1> SUFFICES ASSUME ArtifactInv, WorkerInv PROVE AllLeftNatural
  OBVIOUS
<1>1. ClusterLeft \in Nat
  BY DEF WorkerInv, ClusterPCs, ClusterLeft
<1>2. ASSUME NEW h \in Hosts PROVE HostLeft(h) \in Nat
  <2>1. /\ MaxEntries \in Nat /\ Chunks \in Nat /\ pc[h] \in PCs /\ offset[h] \in 0..Chunks
        /\ Len(transcript[h]) \in Nat /\ Len(transcript[h]) <= MaxEntries
    BY Bounds
  <2>2. /\ (MaxEntries - Len(transcript[h])) + Chunks + 3 \in Nat
        /\ Chunks + 2 \in Nat /\ (Chunks - offset[h]) + 1 \in Nat
    BY <2>1
  <2>3. pc[h] \in {"agent", "opening", "dumping", "finished", "failed"}
    BY <2>1 DEF PCs
  <2> QED BY <2>2, <2>3 DEF HostLeft
<1> QED BY <1>1, <1>2 DEF AllLeftNatural

LEMMA StepProgresses ==
  ArtifactInv /\ WorkerInv /\ AllLeftNatural /\ AllLeftNatural' /\ Next => Progress
<1> SUFFICES ASSUME ArtifactInv, WorkerInv, AllLeftNatural, AllLeftNatural', Next PROVE Progress
  OBVIOUS
<1>0. pc \in [Hosts -> PCs] /\ offset \in [Hosts -> Int] /\ transcript \in [Hosts -> Seq(BOOLEAN)]
  BY DEF ArtifactInv, WorkerInv
<1>1. ASSUME NEW h \in Hosts,
             (\E input \in Inputs : AgentStep(h, input)) \/ AgentFails(h) \/ HostTask(h)
               \/ ArtifactFails(h) \/ ArtifactRaises(h)
      PROVE  Progress
  <2>0. /\ MaxEntries \in Nat /\ Chunks \in Nat /\ pc[h] \in PCs /\ offset[h] \in 0..Chunks
        /\ Len(transcript[h]) \in Nat /\ Len(transcript[h]) <= MaxEntries
    BY Bounds
  <2>1. cluster' = cluster
    BY <1>1 DEF AgentStep, AgentFails, HostTask, AgentReturns, OpenArtifact, DumpChunk,
                CloseArtifact, ArtifactFails, ArtifactRaises, aggregate
  <2>2. ClusterLeft' <= ClusterLeft
    <3>1. ClusterLeft' = ClusterLeft
      BY <2>1 DEF ClusterLeft
    <3> QED BY <3>1 DEF AllLeftNatural
  <2>3. ASSUME NEW g \in Hosts, g # h PROVE HostLeft(g)' = HostLeft(g)
    <3>1. pc'[g] = pc[g] /\ transcript'[g] = transcript[g] /\ offset'[g] = offset[g]
      BY <1>0, <1>1, <2>3 DEF AgentStep, AgentFails, HostTask, AgentReturns, OpenArtifact,
                              DumpChunk, CloseArtifact, ArtifactFails, ArtifactRaises
    <3> QED BY <3>1 DEF HostLeft
  <2>4. HostLeft(h)' < HostLeft(h)
    <3>1. CASE \E input \in Inputs : AgentStep(h, input)
      <4>1. PICK x \in BOOLEAN :
              transcript' = [transcript EXCEPT ![h] = Append(transcript[h], x)]
        BY <3>1 DEF AgentStep, Displayed
      <4>2. Len(transcript'[h]) = Len(transcript[h]) + 1
        BY <1>0, <4>1
      <4>3. pc[h] = "agent" /\ pc'[h] = "agent"
        BY <3>1 DEF AgentStep
      <4> QED BY <2>0, <4>2, <4>3 DEF HostLeft
    <3>2. CASE AgentFails(h) \/ AgentReturns(h)
      <4>1. pc[h] = "agent" /\ pc'[h] \in {"failed", "opening"}
        BY <1>0, <3>2 DEF AgentFails, AgentReturns
      <4> QED BY <2>0, <4>1 DEF HostLeft
    <3>3. CASE OpenArtifact(h)
      <4>1. pc[h] = "opening" /\ pc'[h] = "dumping" /\ offset'[h] = offset[h]
        BY <1>0, <3>3 DEF OpenArtifact
      <4> QED BY <2>0, <4>1 DEF HostLeft
    <3>4. CASE DumpChunk(h)
      <4>1. pc[h] = "dumping" /\ pc'[h] = "dumping" /\ offset'[h] = offset[h] + 1
        BY <1>0, <3>4 DEF DumpChunk
      <4> QED BY <2>0, <4>1 DEF HostLeft
    <3>5. CASE CloseArtifact(h) \/ ArtifactFails(h) \/ ArtifactRaises(h)
      <4>1. pc[h] \in {"opening", "dumping"} /\ pc'[h] \in {"finished", "failed"}
        BY <1>0, <3>5 DEF CloseArtifact, ArtifactFails, ArtifactRaises
      <4> QED BY <2>0, <4>1 DEF HostLeft
    <3> QED BY <1>1, <3>1, <3>2, <3>3, <3>4, <3>5 DEF HostTask
  <2>5. ASSUME NEW g \in Hosts PROVE HostLeft(g)' <= HostLeft(g)
    <3>1. HostLeft(g) \in Nat /\ HostLeft(g)' \in Nat
      BY DEF AllLeftNatural
    <3>2. CASE g = h
      BY <2>4, <3>1, <3>2
    <3>3. CASE g # h
      BY <2>3, <3>1, <3>3
    <3> QED BY <3>2, <3>3
  <2> QED BY <2>2, <2>4, <2>5, Zenon DEF Progress
<1>2. CASE ClusterTask \/ NoClient
  <2>1. UNCHANGED host_vars
    BY <1>2 DEF ClusterTask, NoClient, StartAggregate, Complete, AggregateFails, Aggregated
  <2>2. ASSUME NEW h \in Hosts PROVE HostLeft(h)' <= HostLeft(h)
    <3>1. HostLeft(h)' = HostLeft(h)
      BY <2>1 DEF host_vars, HostLeft
    <3> QED BY <3>1 DEF AllLeftNatural
  <2>3. ClusterLeft' < ClusterLeft
    BY <1>2 DEF ClusterTask, NoClient, StartAggregate, Complete, AggregateFails, Aggregated,
                ClusterLeft
  <2>4. ClusterLeft' <= ClusterLeft
    BY <2>3 DEF AllLeftNatural
  <2> QED BY <2>2, <2>3, <2>4, Zenon DEF Progress
<1> QED BY <1>1, <1>2 DEF Next

(* Every step of a play leaves a host or the aggregate task with less to   *)
(* do and nobody with more, and of finitely many hosts each has finitely   *)
(* much: no interleaving of the workers goes on for ever.                  *)
THEOREM PlayWindsDown == Spec => []AllLeftNatural /\ [][Progress]_vars
<1>1. ArtifactInv /\ WorkerInv /\ AllLeftNatural /\ AllLeftNatural' /\ [Next]_vars
      => [Progress]_vars
  BY StepProgresses
<1> QED
  BY <1>1, LeftIsNatural, ArtifactInit, ArtifactStep, WorkerInit, WorkerStep, PTL DEF Spec
=============================================================================
