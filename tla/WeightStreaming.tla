--------------------------- MODULE WeightStreaming ---------------------------
(***************************************************************************)
(* A refit of a colocated engine: stream_weights_via_ipc_zmq_impl          *)
(* (nemo_rl/models/policy/utils.py) packs the parameters into one of two   *)
(* GPU buffers while update_weights_via_ipc_zmq (.../vllm_backend.py)      *)
(* loads from the other.  The two processes share the buffers through CUDA *)
(* IPC and talk over one ZMQ REQ/REP pair.  Copies into and out of a       *)
(* buffer are only enqueued by the Python code; each process's GPU stream  *)
(* runs them in order, and synchronize() waits for them.                   *)
(*                                                                         *)
(* Sizes are in units of the 512-byte alignment of calculate_aligned_size; *)
(* memory is what each unit of a buffer was last filled from.              *)
(***************************************************************************)
EXTENDS Integers, Sequences

CONSTANTS
    NumParams,      \* how many tensors params_generator yields
    BufferSize,     \* units in one of the two buffers
    MaxFailures     \* bound on the exceptions and early timeouts

ASSUME StreamConstants ==
    /\ NumParams \in Nat \ {0}
    /\ BufferSize \in Nat \ {0}
    /\ MaxFailures \in Nat

Param == 1..NumParams
Buffer == {0, 1}
Unit == 0..(BufferSize - 1)
Nothing == 0

VARIABLES
    size,       \* the aligned size of each tensor; both sides know it
    sender,     \* the sender's pc and locals
    copies,     \* the copies into the buffers that are enqueued
    memory,     \* the two buffers
    request,    \* what the REQ socket has sent and the REP socket not taken
    reply,      \* an ACK is on its way
    receiver,   \* the receiver's pc and locals
    loads,      \* the copies out of the buffer that are enqueued
    loaded,     \* per tensor, what the engine copied its weights from
    packedAt,   \* history: the offset at which each tensor was packed
    failures    \* history: how many exceptions and early timeouts there were

vars == <<size, sender, copies, memory, request, reply, receiver, loads, loaded,
          packedAt, failures>>
senderVars == <<sender, copies, packedAt>>
receiverVars == <<receiver, loads>>

\* A request: nothing, IPCProtocol.COMPLETE, or a group of consecutive tensors.
Message(kind, buffer, first, last, used) ==
    [kind |-> kind, buffer |-> buffer, first |-> first, last |-> last, used |-> used]
Silence == Message("none", 0, 0, 0, 0)
Complete == Message("complete", 0, 0, 0, 0)

Init ==
    /\ size \in [Param -> 1..BufferSize]
    /\ sender = [pc |-> "pack", next |-> 1, first |-> 1, used |-> 0,
                 buffer |-> 0, await |-> FALSE]
    /\ copies = << >>
    /\ memory = [b \in Buffer |-> [u \in Unit |-> Nothing]]
    /\ request = Silence /\ reply = FALSE
    /\ receiver = [pc |-> "recv", buffer |-> 0, key |-> 1, last |-> 0,
                   offset |-> 0, used |-> 0]
    /\ loads = << >>
    /\ loaded = [p \in Param |-> {}]
    /\ packedAt = [p \in Param |-> 0]
    /\ failures = 0

-----------------------------------------------------------------------------
(* The sender. *)

SenderAt(pc) == sender' = [sender EXCEPT !.pc = pc]

\* Variant: one unit more than the buffer has.
FitsOneMore(p) == sender.used + size[p] <= BufferSize + 1

Fits(p) == sender.used + size[p] <= BufferSize

\* pack_tensor: the copy is non_blocking.
Pack ==
    /\ sender.pc = "pack" /\ sender.next <= NumParams /\ Fits(sender.next)
    /\ copies' = Append(copies, [buffer |-> sender.buffer, offset |-> sender.used,
                                 param |-> sender.next])
    /\ sender' = [sender EXCEPT !.next = @ + 1, !.used = @ + size[sender.next]]
    /\ packedAt' = [packedAt EXCEPT ![sender.next] = sender.used]
    /\ UNCHANGED <<size, memory, request, reply, receiverVars, loaded, failures>>

\* The next tensor does not fit, or the generator ended with tensors packed.
GroupEnds == sender.next <= NumParams => ~Fits(sender.next)

\* send_buffer_group_overlap waits for the GPU before it exports the buffer.
EndGroup ==
    /\ sender.pc = "pack" /\ GroupEnds
    /\ copies = << >>
    /\ SenderAt(IF sender.await THEN "awaitGroup" ELSE "send")
    /\ UNCHANGED <<size, copies, memory, request, reply, receiverVars, loaded, packedAt, failures>>

\* zmq_socket.recv() of the ACK that is outstanding.
ReceiveAck ==
    /\ sender.pc \in {"awaitGroup", "awaitLast", "awaitComplete"} /\ reply
    /\ reply' = FALSE
    /\ SenderAt(CASE sender.pc = "awaitGroup" -> "send"
                  [] sender.pc = "awaitLast" -> "complete"
                  [] sender.pc = "awaitComplete" -> "done")
    /\ UNCHANGED <<size, copies, memory, request, receiverVars, loaded, packedAt, failures>>

\* The group goes out and the sender turns to the other buffer.
SendGroup ==
    /\ sender.pc = "send"
    /\ request' = Message("group", sender.buffer, sender.first, sender.next - 1, sender.used)
    /\ sender' = [sender EXCEPT
           !.pc = IF sender.next > NumParams THEN "awaitLast" ELSE "pack",
           !.buffer = 1 - @, !.used = 0, !.first = sender.next, !.await = TRUE]
    /\ UNCHANGED <<size, copies, memory, reply, receiverVars, loaded, packedAt, failures>>

SendComplete ==
    /\ sender.pc = "complete"
    /\ request' = Complete
    /\ SenderAt("awaitComplete")
    /\ UNCHANGED <<size, copies, memory, reply, receiverVars, loaded, packedAt, failures>>

\* The sender's GPU stream.
CopyIn ==
    /\ copies # << >>
    /\ LET copy == Head(copies)
       IN  memory' = [memory EXCEPT ![copy.buffer] = [u \in Unit |->
               IF u \in copy.offset..(copy.offset + size[copy.param] - 1)
               THEN copy.param ELSE @[u]]]
    /\ copies' = Tail(copies)
    /\ UNCHANGED <<size, sender, request, reply, receiverVars, loaded, packedAt, failures>>

-----------------------------------------------------------------------------
(* The receiver. *)

\* recv_pyobj of a group: rebuild the buffer from its handle.
ReceiveGroup ==
    /\ receiver.pc = "recv" /\ request.kind = "group"
    /\ receiver' = [pc |-> "load", buffer |-> request.buffer, key |-> request.first,
                    last |-> request.last, offset |-> 0, used |-> request.used]
    /\ request' = Silence
    /\ UNCHANGED <<size, senderVars, memory, reply, loads, loaded, failures>>

\* One turn of the loop over list_keys: the slice at the receiver's own offset.
LoadKey ==
    /\ receiver.pc = "load" /\ receiver.key <= receiver.last
    /\ loads' = Append(loads, [buffer |-> receiver.buffer, offset |-> receiver.offset,
                               param |-> receiver.key])
    /\ receiver' = [receiver EXCEPT !.key = @ + 1, !.offset = @ + size[receiver.key]]
    /\ UNCHANGED <<size, senderVars, memory, request, reply, loaded, failures>>

\* Variant: the ACK does not wait for the GPU.
AckUnsynchronized ==
    /\ receiver.pc = "load" /\ receiver.key > receiver.last
    /\ receiver.offset = receiver.used
    /\ reply' = TRUE
    /\ receiver' = [receiver EXCEPT !.pc = "recv"]
    /\ UNCHANGED <<size, senderVars, memory, request, loads, loaded, failures>>

\* The layouts agree, the loads are synchronized, the views are deleted: ACK.
AckGroup ==
    /\ receiver.pc = "load" /\ receiver.key > receiver.last
    /\ receiver.offset = receiver.used
    /\ loads = << >>
    /\ reply' = TRUE
    /\ receiver' = [receiver EXCEPT !.pc = "recv"]
    /\ UNCHANGED <<size, senderVars, memory, request, loads, loaded, failures>>

\* COMPLETE: process_weights_after_loading, then the last ACK.
AckComplete ==
    /\ receiver.pc = "recv" /\ request.kind = "complete"
    /\ request' = Silence /\ reply' = TRUE
    /\ receiver' = [receiver EXCEPT !.pc = "finish"]
    /\ UNCHANGED <<size, senderVars, memory, loads, loaded, failures>>

\* _maybe_process_fp8_kv_cache, return True
FinishUpdate ==
    /\ receiver.pc = "finish"
    /\ receiver' = [receiver EXCEPT !.pc = "done"]
    /\ UNCHANGED <<size, senderVars, memory, request, reply, loads, loaded, failures>>

\* The receiver's GPU stream.
CopyOut ==
    /\ loads # << >>
    /\ LET load == Head(loads)
       IN  loaded' = [loaded EXCEPT ![load.param] = @ \cup
               {memory[load.buffer][u] :
                   u \in load.offset..(load.offset + size[load.param] - 1)}]
    /\ loads' = Tail(loads)
    /\ UNCHANGED <<size, senderVars, memory, request, reply, receiver, failures>>

-----------------------------------------------------------------------------
(* Failures.  Every exception of the receiver makes it return False, every  *)
(* exception of the sender is raised to the trainer.                        *)

Fails == failures < MaxFailures /\ failures' = failures + 1

\* A wait for a peer that failed must time out; one for a slow peer may.
TimesOutOn(peer) ==
    IF peer.pc = "failed" THEN UNCHANGED failures ELSE Fails

SenderRaises ==
    /\ sender.pc \in {"pack", "send", "complete"} /\ Fails
    /\ SenderAt("failed")
    /\ UNCHANGED <<size, copies, memory, request, reply, receiverVars, loaded, packedAt>>

\* RCVTIMEO: the other side is slow, or it is gone.
SenderTimesOut ==
    /\ sender.pc \in {"awaitGroup", "awaitLast", "awaitComplete"} /\ ~reply
    /\ TimesOutOn(receiver)
    /\ SenderAt("failed")
    /\ UNCHANGED <<size, copies, memory, request, reply, receiverVars, loaded, packedAt>>

ReceiverRaises ==
    /\ \/ receiver.pc \in {"load", "finish"}
       \/ receiver.pc = "recv" /\ request # Silence
    /\ Fails
    /\ receiver' = [receiver EXCEPT !.pc = "failed"]
    /\ request' = Silence
    /\ UNCHANGED <<size, senderVars, memory, reply, loads, loaded>>

\* Variant: no RCVTIMEO on the engine's socket.
ReceiverOnlyTimesOutEarly ==
    /\ receiver.pc = "recv" /\ request = Silence
    /\ sender.pc # "failed" /\ Fails
    /\ receiver' = [receiver EXCEPT !.pc = "failed"]
    /\ UNCHANGED <<size, senderVars, memory, request, reply, loads, loaded>>

ReceiverTimesOut ==
    /\ receiver.pc = "recv" /\ request = Silence
    /\ TimesOutOn(sender)
    /\ receiver' = [receiver EXCEPT !.pc = "failed"]
    /\ UNCHANGED <<size, senderVars, memory, request, reply, loads, loaded>>

-----------------------------------------------------------------------------
Sender == Pack \/ EndGroup \/ ReceiveAck \/ SendGroup \/ SendComplete
Receiver == ReceiveGroup \/ LoadKey \/ AckGroup \/ AckComplete \/ FinishUpdate
TimedOut ==
    \/ receiver.pc = "failed" /\ SenderTimesOut
    \/ sender.pc = "failed" /\ ReceiverTimesOut

Ended == sender.pc \in {"done", "failed"} /\ receiver.pc \in {"done", "failed"}

Next ==
    \/ Sender \/ CopyIn \/ Receiver \/ CopyOut
    \/ SenderRaises \/ SenderTimesOut \/ ReceiverRaises \/ ReceiverTimesOut

Spec == Init /\ [][Next]_vars

\* Both processes and both GPUs run on; a socket whose peer is gone times out.
FairSpec ==
    Spec /\ WF_vars(Sender) /\ WF_vars(CopyIn) /\ WF_vars(Receiver) /\ WF_vars(CopyOut)
         /\ WF_vars(TimedOut)

\* refit_policy_generation: ray.get of the sender raises nothing, and the
\* receiver returned True.
UpdateSuccess == sender.pc = "done" /\ receiver.pc = "done"

-----------------------------------------------------------------------------
SenderPC == {"pack", "awaitGroup", "send", "awaitLast", "complete", "awaitComplete",
             "done", "failed"}
ReceiverPC == {"recv", "load", "finish", "done", "failed"}
Copy == [buffer : Buffer, offset : Unit, param : Param]
SenderRecord == [pc : SenderPC, next : 1..(NumParams + 1), first : 1..(NumParams + 1),
                 used : 0..BufferSize, buffer : Buffer, await : BOOLEAN]
ReceiverRecord == [pc : ReceiverPC, buffer : Buffer, key : 1..(NumParams + 1),
                   last : 0..NumParams, offset : 0..BufferSize, used : 0..BufferSize]
Request == [kind : {"none", "complete", "group"}, buffer : Buffer,
            first : 0..NumParams, last : 0..NumParams, used : 0..BufferSize]

TypeOK ==
    /\ size \in [Param -> 1..BufferSize]
    /\ sender \in SenderRecord /\ receiver \in ReceiverRecord
    /\ copies \in Seq(Copy) /\ loads \in Seq(Copy)
    /\ memory \in [Buffer -> [Unit -> Param \cup {Nothing}]]
    /\ request \in Request /\ reply \in BOOLEAN
    /\ loaded \in [Param -> SUBSET (Param \cup {Nothing})]
    /\ packedAt \in [Param -> Unit]
    /\ failures \in 0..MaxFailures

\* No tensor of the engine is ever filled from a part of a buffer that holds
\* something else: the sender packs ahead of the receiver into the other buffer,
\* and never into the one that is not yet acknowledged ("Delete views before ACK
\* to prevent corruption"); also when one of the two fails in the middle.
NoTornWeight == \A p \in Param : loaded[p] \subseteq {p}

\* A refit the trainer takes for successful has loaded every tensor.
SuccessIsComplete == UpdateSuccess => \A p \in Param : loaded[p] = {p}

\* What is loaded is right, and all of it is loaded when the trainer thinks so.
IntactWeights == NoTornWeight /\ SuccessIsComplete

\* A refit ends: it succeeds unless something failed, and a failure of one side
\* ends the other one too (the timeouts of both sockets).
RefitEnds == <>(UpdateSuccess \/ (failures > 0 /\ Ended))
=============================================================================
