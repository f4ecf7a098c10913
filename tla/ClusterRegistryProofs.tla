----------------------- MODULE ClusterRegistryProofs -------------------------
(* Proofs about ClusterRegistry, for any nodes and any number of threads: its *)
(* type invariant, and that what was acknowledged is kept.                    *)

EXTENDS ClusterRegistry, TLAPS

Handling(x) == h[x] # NoThread

(* A thread that met no other is the only one.                                *)
AloneIsOnly ==
    \A x, y \in Handlers :
        Handling(x) /\ h[x].alone /\ y # x => h[y] = NoThread

(* Those that met began with nothing acknowledged.                            *)
MetIsNew == \A x \in Handlers : Handling(x) /\ ~h[x].alone => acked = {}

(* What a thread that is alone is about to publish                            *)
OwnFile(x) ==
    /\ h[x].pc \in {"open", "write", "replace"} =>
           acked \subseteq h[x].nodes /\ h[x].node \in h[x].nodes
    /\ h[x].pc = "write" => h[x].fd = "tmp" /\ tmp.status = "blank"
    /\ h[x].pc = "replace" => tmp = [status |-> "whole", nodes |-> h[x].nodes]
    /\ h[x].pc = "reply" => reg.status = "whole" /\ h[x].node \in reg.nodes

OwnFiles == \A x \in Handlers : Handling(x) /\ h[x].alone => OwnFile(x)

IInv == AloneIsOnly /\ MetIsNew /\ OwnFiles /\ AckedNodesKept

-----------------------------------------------------------------------------
(* A step of a thread leaves a thread or none, and the other threads alone.   *)

LEMMA ThreadPc ==
    ASSUME TypeOK, NEW x \in Handlers, h[x].pc # "none"
    PROVE  h[x] \in Threads /\ Handling(x)
BY DEF TypeOK, NoThread, Handling, Threads

LEMMA OverIsFile ==
    ASSUME NEW f, NEW n \in SUBSET Nodes
    PROVE  /\ Over(f, n) \subseteq Files
           /\ NoFile \notin Over(f, n)
           /\ f.status = "blank" =>
                  Over(f, n) = {[status |-> "whole", nodes |-> n]}
BY DEF Over, Files, NoFile

LEMMA TypeInit == Init => TypeOK
BY DEF Init, TypeOK, Files, NoFile, NoThread

LEMMA TypeStep == TypeOK /\ [Next]_vars => TypeOK'
<1> SUFFICES ASSUME TypeOK, [Next]_vars PROVE TypeOK'
  OBVIOUS
<1> USE DEF TypeOK
<1>1. CASE UNCHANGED vars
  BY <1>1 DEF vars
<1>2. ASSUME NEW x \in Handlers, Fail(x) PROVE TypeOK'
  BY <1>2 DEF Fail, NoThread
<1>3. ASSUME NEW x \in Handlers, NEW n \in Nodes, Receive(x, n) PROVE TypeOK'
  <2>1. h'[x] \in Threads /\ h'[x].fd = "none"
    BY <1>3 DEF Receive, Threads
  <2>2. ASSUME NEW y \in Handlers, y # x
        PROVE  h'[y] \in Threads \cup {NoThread} /\ h'[y].fd = h[y].fd
                 /\ h'[y].pc = h[y].pc
    <3>1. CASE h[y] = NoThread
      BY <1>3, <2>2, <3>1 DEF Receive
    <3>2. CASE h[y] # NoThread
      BY <1>3, <2>2, <3>2 DEF Receive, Threads
    <3> QED
      BY <3>1, <3>2
  <2> QED
    BY <1>3, <2>1, <2>2 DEF Receive
<1>4. ASSUME NEW x \in Handlers, Load(x) PROVE TypeOK'
  <2>1. h[x] \in Threads
    BY <1>4, ThreadPc DEF Load
  <2>2. PICK ns \in SUBSET Nodes : Loaded(x, ns)
    BY <1>4 DEF Load, Files, NoFile
  <2>3. h'[x] \in Threads /\ h'[x].fd = h[x].fd /\ h[x].fd # "tmp"
    <3>1. h'[x] = [h[x] EXCEPT !.pc = "open", !.nodes = ns \cup {h[x].node}]
      BY <2>2 DEF Loaded
    <3>2. [h[x] EXCEPT !.pc = "open", !.nodes = ns \cup {h[x].node}] \in Threads
      BY <2>1 DEF Threads
    <3>3. h'[x].fd = h[x].fd
      BY <2>1, <3>1 DEF Threads
    <3>4. h[x].fd # "tmp"
      BY <1>4 DEF Load
    <3> QED
      BY <3>1, <3>2, <3>3, <3>4
  <2>4. \A y \in Handlers : y # x => h'[y] = h[y]
    BY <2>2 DEF Loaded
  <2>5. h' \in [Handlers -> Threads \cup {NoThread}]
    BY <2>2, <2>3, <2>4 DEF Loaded
  <2> QED
    BY <2>2, <2>3, <2>4, <2>5 DEF Loaded
<1>5. ASSUME NEW x \in Handlers, Open(x) PROVE TypeOK'
  <2>1. h[x] \in Threads
    BY <1>5, ThreadPc DEF Open
  <2>2. [h[x] EXCEPT !.pc = "write", !.fd = "tmp"] \in Threads
    BY <2>1 DEF Threads
  <2>3. tmp' \in Files /\ tmp' # NoFile
    BY <1>5 DEF Open, Files, NoFile
  <2> QED
    BY <1>5, <2>2, <2>3 DEF Open
<1>6. ASSUME NEW x \in Handlers, Write(x) PROVE TypeOK'
  <2>1. h[x] \in Threads
    BY <1>6, ThreadPc DEF Write, WriteTo
  <2>2. [h[x] EXCEPT !.pc = "replace", !.fd = "none"] \in Threads
    BY <2>1 DEF Threads
  <2>3. h[x].nodes \in SUBSET Nodes
    BY <2>1 DEF Threads
  <2>4. tmp' \in Files /\ reg' \in Files /\ (tmp # NoFile => tmp' # NoFile)
    BY <1>6, <2>3, OverIsFile DEF Write, WriteTo
  <2> QED
    BY <1>6, <2>1, <2>2, <2>4 DEF Write, WriteTo, Threads
<1>7. ASSUME NEW x \in Handlers, Replace(x) PROVE TypeOK'
  <2>1. CASE tmp = NoFile
    BY <1>7, <2>1, <1>2 DEF Replace
  <2>2. CASE tmp # NoFile
    <3>1. h[x] \in Threads
      BY <1>7, ThreadPc DEF Replace
    <3>2. h'[x] \in Threads /\ h'[x].fd # "tmp"
      BY <1>7, <2>2, <3>1 DEF Replace, Threads
    <3>3. ASSUME NEW y \in Handlers, y # x
          PROVE  h'[y] \in Threads \cup {NoThread} /\ h'[y].fd # "tmp"
      <4>1. CASE h[y] = NoThread
        BY <1>7, <2>2, <3>3, <4>1 DEF Replace, NoThread
      <4>2. CASE h[y] # NoThread
        BY <1>7, <2>2, <3>3, <4>2 DEF Replace, Renamed, Threads
      <4> QED
        BY <4>1, <4>2
    <3>4. NoFile \in Files
      BY DEF Files
    <3> QED
      BY <1>7, <2>2, <3>2, <3>3, <3>4 DEF Replace
  <2> QED
    BY <2>1, <2>2
<1>8. ASSUME NEW x \in Handlers, Reply(x) PROVE TypeOK'
  <2>1. h[x] \in Threads
    BY <1>8, ThreadPc DEF Reply
  <2> QED
    BY <1>8, <2>1 DEF Reply, Threads, NoThread
<1>9. CASE Crash
  BY <1>9 DEF Crash, NoThread
<1>10. CASE Start
  BY <1>10 DEF Start
<1> QED
  BY <1>1, <1>2, <1>3, <1>4, <1>5, <1>6, <1>7, <1>8, <1>9, <1>10
  DEF Next, Handle, WriteFails

(* Type correctness; an open temporary file has its name still.               *)
THEOREM TypeCorrect == Spec => []TypeOK
BY TypeInit, TypeStep, PTL DEF Spec

-----------------------------------------------------------------------------
LEMMA KeptInit == Init => IInv
BY DEF Init, IInv, AloneIsOnly, MetIsNew, OwnFiles, Handling, AckedNodesKept

(* A thread ends, and the files and what was acknowledged stay.               *)
LEMMA KeptFail ==
    ASSUME TypeOK, IInv, NEW x \in Handlers, Fail(x)
    PROVE  IInv'
<1>1. \A y \in Handlers : h'[y] = IF y = x THEN NoThread ELSE h[y]
  BY DEF Fail, TypeOK
<1> QED
  BY <1>1 DEF Fail, IInv, AloneIsOnly, MetIsNew, OwnFiles, OwnFile, Handling,
              AckedNodesKept

LEMMA KeptReceive ==
    ASSUME TypeOK, IInv, NEW x \in Handlers, NEW n \in Nodes, Receive(x, n)
    PROVE  IInv'
<1>1. CASE Busy = {}
  <2>1. \A y \in Handlers : h[y] = NoThread
    BY <1>1 DEF Busy
  <2>2. \A y \in Handlers : y # x => h'[y] = NoThread
    BY <2>1 DEF Receive
  <2>3. h'[x].alone /\ h'[x].pc = "load"
    BY <1>1 DEF Receive
  <2> QED
    BY <1>1, <2>2, <2>3 DEF Receive, IInv, AloneIsOnly, MetIsNew, OwnFiles,
                            OwnFile, Handling, AckedNodesKept
<1>2. CASE Busy # {}
  <2>1. acked' = {}
    BY <1>2 DEF Receive
  <2>2. ~h'[x].alone
    BY <1>2 DEF Receive
  <2>3. \A y \in Handlers : h[y] = NoThread /\ y # x => h'[y] = NoThread
    BY DEF Receive
  <2>4. \A y \in Handlers : h[y] # NoThread => ~h'[y].alone
    BY <2>2 DEF Receive, TypeOK, Threads
  <2>5. \A y \in Handlers : h'[y] # NoThread => ~h'[y].alone
    BY <2>2, <2>3, <2>4
  <2> QED
    BY <2>1, <2>5 DEF IInv, AloneIsOnly, MetIsNew, OwnFiles, Handling,
                      AckedNodesKept
<1> QED
  BY <1>1, <1>2

(* A step of a thread that goes on.  When it met another, nothing was         *)
(* acknowledged; when it did not, no other thread is there.                   *)
LEMMA KeptStepOf ==
    ASSUME TypeOK, IInv, NEW x \in Handlers, Handling(x), Handling(x)',
           h[x].alone => h'[x].alone,
           ~h[x].alone => ~h'[x].alone,
           \A y \in Handlers : h[y] = NoThread /\ y # x => h'[y] = NoThread,
           \A y \in Handlers : h[y] # NoThread /\ y # x =>
               h'[y] # NoThread /\ (~h[y].alone => ~h'[y].alone),
           acked' = acked,
           h[x].alone => OwnFile(x)' /\ AckedNodesKept'
    PROVE  IInv'
<1>1. \A y \in Handlers : y # x /\ h[y] # NoThread => ~h[y].alone
  BY DEF IInv, AloneIsOnly, Handling
<1>2. \A y \in Handlers : y # x /\ h'[y] # NoThread => ~h'[y].alone
  BY <1>1
<1>3. CASE h[x].alone
  <2>1. \A y \in Handlers : y # x => h'[y] = NoThread
    BY <1>3 DEF IInv, AloneIsOnly
  <2> QED
    BY <1>3, <2>1 DEF IInv, AloneIsOnly, MetIsNew, OwnFiles, Handling
<1>4. CASE ~h[x].alone
  <2>1. acked' = {}
    BY <1>4 DEF IInv, MetIsNew
  <2>2. \A y \in Handlers : h'[y] # NoThread => ~h'[y].alone
    BY <1>2, <1>4
  <2> QED
    BY <2>1, <2>2 DEF IInv, AloneIsOnly, MetIsNew, OwnFiles, Handling,
                      AckedNodesKept
<1> QED
  BY <1>3, <1>4

(* What was acknowledged is in the registry that is loaded.                   *)
LEMMA KeptLoad ==
    ASSUME TypeOK, IInv, NEW x \in Handlers, Load(x)
    PROVE  IInv'
<1>1. h[x] \in Threads /\ Handling(x)
  BY ThreadPc DEF Load
<1>2. PICK ns : Loaded(x, ns) /\ ns = IF reg.status = "whole" THEN reg.nodes ELSE {}
  BY DEF Load
<1>3. /\ \A y \in Handlers : y # x => h'[y] = h[y]
      /\ h'[x].pc = "open" /\ h'[x].nodes = ns \cup {h[x].node}
      /\ h'[x].node = h[x].node /\ h'[x].alone = h[x].alone
  BY <1>1, <1>2 DEF Loaded, TypeOK, Threads
<1>4. Handling(x)'
  BY <1>3 DEF Handling, NoThread
<1>5. acked \subseteq ns
  BY <1>2 DEF IInv, AckedNodesKept
<1>6. OwnFile(x)' /\ AckedNodesKept'
  BY <1>2, <1>3, <1>5 DEF Loaded, OwnFile, IInv, AckedNodesKept
<1> QED
  BY <1>1, <1>2, <1>3, <1>4, <1>6, KeptStepOf DEF Loaded

LEMMA KeptOpen ==
    ASSUME TypeOK, IInv, NEW x \in Handlers, Open(x)
    PROVE  IInv'
<1>1. h[x] \in Threads /\ Handling(x)
  BY ThreadPc DEF Open
<1>2. /\ \A y \in Handlers : y # x => h'[y] = h[y]
      /\ h'[x].pc = "write" /\ h'[x].fd = "tmp" /\ h'[x].nodes = h[x].nodes
      /\ h'[x].node = h[x].node /\ h'[x].alone = h[x].alone
  BY <1>1 DEF Open, TypeOK, Threads
<1>3. Handling(x)'
  BY <1>2 DEF Handling, NoThread
<1>4. ASSUME h[x].alone PROVE OwnFile(x)' /\ AckedNodesKept'
  BY <1>1, <1>2, <1>4 DEF Open, OwnFile, IInv, OwnFiles, AckedNodesKept
<1> QED
  BY <1>1, <1>2, <1>3, <1>4, KeptStepOf DEF Open

(* A thread that is alone writes a file it has just emptied.                  *)
LEMMA KeptWrite ==
    ASSUME TypeOK, IInv, NEW x \in Handlers, Write(x)
    PROVE  IInv'
<1>1. h[x] \in Threads /\ Handling(x) /\ h[x].pc = "write"
  BY ThreadPc DEF Write, WriteTo
<1>2. /\ \A y \in Handlers : y # x => h'[y] = h[y]
      /\ h'[x].pc = "replace" /\ h'[x].nodes = h[x].nodes
      /\ h'[x].node = h[x].node /\ h'[x].alone = h[x].alone
  BY <1>1 DEF Write, WriteTo, TypeOK, Threads
<1>3. Handling(x)'
  BY <1>2 DEF Handling, NoThread
<1>4. ASSUME h[x].alone PROVE OwnFile(x)' /\ AckedNodesKept'
  <2>1. OwnFile(x)
    BY <1>1, <1>4 DEF IInv, OwnFiles
  <2>2. h[x].fd = "tmp" /\ tmp.status = "blank"
    BY <1>1, <2>1 DEF OwnFile
  <2>3. reg' = reg /\ tmp' \in Over(tmp, h[x].nodes) /\ acked' = acked
    BY <2>2 DEF Write, WriteTo
  <2>4. tmp' = [status |-> "whole", nodes |-> h[x].nodes]
    BY <2>2, <2>3 DEF Over
  <2>5. acked \subseteq h[x].nodes /\ h[x].node \in h[x].nodes
    BY <1>1, <2>1 DEF OwnFile
  <2> QED
    BY <1>2, <2>3, <2>4, <2>5 DEF OwnFile, IInv, AckedNodesKept
<1> QED
  BY <1>1, <1>2, <1>3, <1>4, KeptStepOf DEF Write

(* A thread that is alone publishes the file it wrote.                        *)
LEMMA KeptReplace ==
    ASSUME TypeOK, IInv, NEW x \in Handlers, Replace(x)
    PROVE  IInv'
<1>1. h[x] \in Threads /\ Handling(x) /\ h[x].pc = "replace"
  BY ThreadPc DEF Replace
<1>2. CASE tmp = NoFile
  BY <1>2, KeptFail DEF Replace
<1>3. CASE tmp # NoFile
  <2>1. /\ h'[x].pc = "reply" /\ h'[x].nodes = h[x].nodes
        /\ h'[x].node = h[x].node /\ h'[x].alone = h[x].alone
    BY <1>1, <1>3 DEF Replace, Threads
  <2>2. Handling(x)'
    BY <2>1 DEF Handling, NoThread
  <2>3. \A y \in Handlers : h[y] = NoThread /\ y # x => h'[y] = NoThread
    BY <1>3 DEF Replace
  <2>4. ASSUME NEW y \in Handlers, h[y] # NoThread, y # x
        PROVE  h'[y] # NoThread /\ h'[y].alone = h[y].alone
    <3>1. h[y] \in Threads
      BY <2>4 DEF TypeOK
    <3>2. h'[y].pc = h[y].pc /\ h'[y].alone = h[y].alone
      BY <1>3, <2>4, <3>1 DEF Replace, Threads
    <3>3. h[y].pc # "none"
      BY <3>1 DEF Threads
    <3> QED
      BY <3>2, <3>3 DEF NoThread
  <2>5. ASSUME h[x].alone PROVE OwnFile(x)' /\ AckedNodesKept'
    <3>1. OwnFile(x)
      BY <1>1, <2>5 DEF IInv, OwnFiles
    <3>2. reg' = [status |-> "whole", nodes |-> h[x].nodes] /\ acked' = acked
      BY <1>1, <1>3, <3>1 DEF Replace, OwnFile
    <3>3. acked \subseteq h[x].nodes /\ h[x].node \in h[x].nodes
      BY <1>1, <3>1 DEF OwnFile
    <3> QED
      BY <2>1, <3>2, <3>3 DEF OwnFile, AckedNodesKept
  <2> QED
    BY <1>1, <1>3, <2>1, <2>2, <2>3, <2>4, <2>5, KeptStepOf DEF Replace
<1> QED
  BY <1>2, <1>3

(* What is acknowledged by a thread that is alone was published by it.        *)
LEMMA KeptReply ==
    ASSUME TypeOK, IInv, NEW x \in Handlers, Reply(x)
    PROVE  IInv'
<1>1. h[x] \in Threads /\ Handling(x) /\ h[x].pc = "reply"
  BY ThreadPc DEF Reply
<1>2. \A y \in Handlers : h'[y] = IF y = x THEN NoThread ELSE h[y]
  BY DEF Reply, TypeOK
<1>3. CASE h[x].alone
  <2>1. \A y \in Handlers : h'[y] = NoThread
    BY <1>1, <1>2, <1>3 DEF IInv, AloneIsOnly
  <2>2. reg.status = "whole" /\ h[x].node \in reg.nodes
    BY <1>1, <1>3 DEF IInv, OwnFiles, OwnFile
  <2>3. AckedNodesKept'
    BY <1>3, <2>2 DEF Reply, IInv, AckedNodesKept
  <2> QED
    BY <2>1, <2>3 DEF IInv, AloneIsOnly, MetIsNew, OwnFiles, Handling
<1>4. CASE ~h[x].alone
  BY <1>4, KeptFail DEF Reply, Fail
<1> QED
  BY <1>3, <1>4

LEMMA KeptStep == TypeOK /\ IInv /\ [Next]_vars => IInv'
<1> SUFFICES ASSUME TypeOK, IInv, [Next]_vars PROVE IInv'
  OBVIOUS
<1>1. CASE UNCHANGED vars
  BY <1>1 DEF vars, IInv, AloneIsOnly, MetIsNew, OwnFiles, OwnFile, Handling,
              AckedNodesKept
<1>2. CASE Crash
  BY <1>2 DEF Crash, IInv, AloneIsOnly, MetIsNew, OwnFiles, Handling,
              AckedNodesKept
<1>3. CASE Start
  BY <1>3 DEF Start, IInv, AloneIsOnly, MetIsNew, OwnFiles, OwnFile, Handling,
              AckedNodesKept
<1> QED
  BY <1>1, <1>2, <1>3, KeptFail, KeptReceive, KeptLoad, KeptOpen, KeptWrite,
     KeptReplace, KeptReply
  DEF Next, Handle, WriteFails

(* Whatever the nodes and however many threads: after heartbeats last met,    *)
(* what the service acknowledged is in a registry that can be read, through   *)
(* crashes, failed writes and temporary files left behind.                    *)
THEOREM AckedKept == Spec => []AckedNodesKept
<1>1. IInv => AckedNodesKept
  BY DEF IInv
<1> QED
  BY <1>1, TypeInit, TypeStep, KeptInit, KeptStep, PTL DEF Spec
=============================================================================
