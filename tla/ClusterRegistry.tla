--------------------------- MODULE ClusterRegistry ---------------------------
(* The cluster registry of the primary node (scripts/veloxhash-cluster): one  *)
(* thread of ThreadingHTTPServer per heartbeat loads cluster-nodes.json, adds *)
(* the node, writes cluster-nodes.json.tmp, renames it and answers.  Nothing  *)
(* keeps two threads apart, and they share the name of the temporary file;    *)
(* the service may die at any step and is started again.                      *)
(*                                                                            *)
(* A registry is the set of nodes it has a record of.  GET only reads it, and *)
(* a request that is refused changes nothing.                                 *)

EXTENDS Integers, FiniteSets

CONSTANTS Nodes,     \* node ids that report to this primary
          Handlers,  \* threads of the server
          NoNode

ASSUME RegistryAssumption == NoNode \notin Nodes

VARIABLES
    reg,      \* cluster-nodes.json
    tmp,      \* cluster-nodes.json.tmp
    up,       \* the service runs
    h,        \* the threads
    acked     \* history: nodes answered with 200 since heartbeats last met

vars == <<reg, tmp, up, h, acked>>

NoFile == [status |-> "none", nodes |-> {}]

(* Truncated and not yet written; whole; or one text over another.            *)
Files == {NoFile, [status |-> "blank", nodes |-> {}],
          [status |-> "garbled", nodes |-> {}]}
         \cup [status : {"whole"}, nodes : SUBSET Nodes]

(* `fd`: where the file is now that was opened as the temporary one           *)
Threads == [pc    : {"load", "open", "write", "replace", "reply"},
            node  : Nodes,
            nodes : SUBSET Nodes,               \* data
            fd    : {"none", "tmp", "reg", "unlinked"},
            alone : BOOLEAN]                    \* history: it met no other

NoThread == [pc |-> "none", node |-> NoNode, nodes |-> {}, fd |-> "none",
             alone |-> TRUE]

TypeOK ==
    /\ reg \in Files /\ tmp \in Files
    /\ up \in BOOLEAN
    /\ h \in [Handlers -> Threads \cup {NoThread}]
    /\ \A x \in Handlers : h[x].fd = "tmp" => h[x].pc = "write" /\ tmp # NoFile
    /\ acked \subseteq Nodes

Init ==
    /\ reg = NoFile /\ tmp = NoFile
    /\ up = TRUE
    /\ h = [x \in Handlers |-> NoThread]
    /\ acked = {}

Busy == {x \in Handlers : h[x] # NoThread}

-----------------------------------------------------------------------------
(* do_POST: a heartbeat with the token and a node id                          *)
Receive(x, n) ==
    /\ up /\ h[x] = NoThread
    /\ h' = [y \in Handlers |->
                IF y = x THEN [pc |-> "load", node |-> n, nodes |-> {},
                               fd |-> "none", alone |-> Busy = {}]
                ELSE IF h[y] = NoThread THEN NoThread
                ELSE [h[y] EXCEPT !.alone = FALSE]]
    /\ acked' = IF Busy = {} THEN acked ELSE {}
    /\ UNCHANGED <<reg, tmp, up>>

(* The exception of a step ends the thread, and the connection unanswered     *)
Fail(x) ==
    /\ h' = [h EXCEPT ![x] = NoThread]
    /\ UNCHANGED <<reg, tmp, up, acked>>

Loaded(x, nodes) ==
    /\ h' = [h EXCEPT ![x].pc = "open", ![x].nodes = nodes \cup {h[x].node}]
    /\ UNCHANGED <<reg, tmp, up, acked>>

(* Slip in Load: a file that is no JSON raises                                *)
LoadStrict(x) ==
    /\ h[x].pc = "load"
    /\ IF reg.status \in {"whole", "none"} THEN Loaded(x, reg.nodes) ELSE Fail(x)

(* registry_load: no file and one that is no JSON are an empty registry; the  *)
(* node is added                                                              *)
Load(x) ==
    /\ h[x].pc = "load"
    /\ Loaded(x, IF reg.status = "whole" THEN reg.nodes ELSE {})

(* registry_save, write_text: open creates the file or truncates it           *)
Open(x) ==
    /\ h[x].pc = "open"
    /\ tmp' = [status |-> "blank", nodes |-> {}]
    /\ h' = [h EXCEPT ![x].pc = "write", ![x].fd = "tmp"]
    /\ UNCHANGED <<reg, up, acked>>

(* Text written over a file: what was longer sticks out                       *)
Over(file, nodes) ==
    {[status |-> "whole", nodes |-> nodes]} \cup
        (IF file.status = "blank" THEN {}
         ELSE {[status |-> "garbled", nodes |-> {}]})

WriteTo(x) ==
    /\ h[x].pc = "write"
    /\ h' = [h EXCEPT ![x].pc = "replace", ![x].fd = "none"]
    /\ IF h[x].fd = "tmp" THEN tmp' \in Over(tmp, h[x].nodes) ELSE tmp' = tmp
    /\ IF h[x].fd = "reg" THEN reg' \in Over(reg, h[x].nodes) ELSE reg' = reg
    /\ UNCHANGED up

(* Slip in Write: the answer is sent before the rename                        *)
WriteAndReply(x) ==
    /\ WriteTo(x)
    /\ acked' = IF h[x].alone THEN acked \cup {h[x].node} ELSE acked

(* write_text: write and close, wherever the file was renamed to since        *)
Write(x) == WriteTo(x) /\ UNCHANGED acked

(* write_text raises: the disk is full                                        *)
WriteFails(x) == h[x].pc = "write" /\ Fail(x)

(* Where an open file is after a rename                                       *)
Renamed(fd) == CASE fd = "tmp" -> "reg"
                 [] fd = "reg" -> "unlinked"
                 [] OTHER      -> fd

(* os.replace: FileNotFoundError when another thread has renamed it; or else  *)
(* the files that are open change their place                                 *)
Replace(x) ==
    /\ h[x].pc = "replace"
    /\ IF tmp = NoFile THEN Fail(x)
       ELSE /\ reg' = tmp /\ tmp' = NoFile
            /\ h' = [y \in Handlers |->
                  IF y = x THEN [h[y] EXCEPT !.pc = "reply"]
                  ELSE IF h[y] = NoThread THEN NoThread
                  ELSE [h[y] EXCEPT !.fd = Renamed(@)]]
            /\ UNCHANGED <<up, acked>>

(* send_json(200, registry_payload)                                           *)
Reply(x) ==
    /\ h[x].pc = "reply"
    /\ acked' = IF h[x].alone THEN acked \cup {h[x].node} ELSE acked
    /\ h' = [h EXCEPT ![x] = NoThread]
    /\ UNCHANGED <<reg, tmp, up>>

Handle(x) == Load(x) \/ Open(x) \/ Write(x) \/ Replace(x) \/ Reply(x)

(* The process dies, or init-primary restarts it; the files stay              *)
Crash ==
    /\ up
    /\ up' = FALSE
    /\ h' = [x \in Handlers |-> NoThread]
    /\ UNCHANGED <<reg, tmp, acked>>

(* command_serve, started again by systemd                                    *)
Start ==
    /\ ~up
    /\ up' = TRUE
    /\ UNCHANGED <<reg, tmp, h, acked>>

Next ==
    \/ \E x \in Handlers :
           Handle(x) \/ WriteFails(x) \/ \E n \in Nodes : Receive(x, n)
    \/ Crash \/ Start

Fairness == WF_vars(Start) /\ \A x \in Handlers : WF_vars(Handle(x))

Spec     == Init /\ [][Next]_vars
FairSpec == Spec /\ Fairness

-----------------------------------------------------------------------------
(* Properties                                                                 *)

(* Safety: since two heartbeats were last handled at once, every node whose   *)
(* heartbeat was answered with 200 is in a registry that can be read, at each *)
(* step of the heartbeats after it and though the service dies in any of them *)
(* and leaves a temporary file behind.                                        *)
AckedNodesKept ==
    acked # {} => reg.status = "whole" /\ acked \subseteq reg.nodes

(* Liveness: a registry that meeting heartbeats garbled, emptied or lost      *)
(* nodes of, or that a crash left so, heals: once they no longer meet and the *)
(* service and the disk no longer fail, every node that keeps reporting is in *)
(* it for good.                                                               *)
RegistryHeals ==
    /\ <>[](Cardinality(Busy) <= 1)
    /\ <>[][~Crash /\ \A x \in Handlers : ~WriteFails(x)]_vars
    /\ \A n \in Nodes : []<><<\E x \in Handlers : Receive(x, n)>>_vars
    => <>[](reg.status = "whole" /\ reg.nodes = Nodes)
=============================================================================
