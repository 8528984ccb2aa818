----------------------------- MODULE Refit_proofs -----------------------------
(***************************************************************************)
(* A job from setup() to the end of its first refit, for every number of   *)
(* nodes, GPUs, tensors, buffers, ranks and failures: the layout is sound, *)
(* the ranks of the NCCL path launch the same broadcasts, and the trainer  *)
(* goes on only with engines that were updated.                            *)
(*                                                                         *)
(* The argument.  A rank's packed tensor follows from the one before it,   *)
(* so two ranks agree on as many as both have launched; which bytes a cut  *)
(* falls on does not matter, only that both cut by the same function of    *)
(* sizes that do not change.  Broadcasts in flight are fewer than buffers  *)
(* and take the buffers in turn, so no two of them share one.  A rank that *)
(* is done has launched the whole list.  Over HTTP, the first worker of a  *)
(* server has posted every tensor the others are past.  In setup(), no two *)
(* threads ask for the groups of one cluster, so the tries of a thread are *)
(* those of its cluster.                                                   *)
(*                                                                         *)
(* The layout.  Ray packs a group on as few nodes as it can.  Clusters of  *)
(* several nodes take whole ones, so whole ones are left for the next; so  *)
(* each group lies on one node, or covers nodes, and no GPU is in two.     *)
(* Sorting, slicing and grouping by node neither lose nor repeat a GPU of  *)
(* such a group: this gives the workers GPUs of their own, and counts the  *)
(* ranks.  Over HTTP the servers have no more GPUs than the policy; when   *)
(* each of its workers has found one, they have the same.                  *)
(***************************************************************************)
EXTENDS Refit, Counting

\* Tensor p lies in buffer b where it was packed.
Held(b, p) ==
    \A u \in Unit : u \in packedAt[p]..(packedAt[p] + size[p] - 1) => memory[b][u] = p

\* Tensors f..l follow each other in their buffer.
Adjacent(f, l) ==
    \A p, q \in Param : p >= f /\ q <= l /\ q = p + 1 =>
        packedAt[q] = packedAt[p] + size[p]

\* Nothing is on the wire and nothing is being loaded.
Quiet ==
    request = Silence /\ ~reply /\ receiver.pc \in {"recv", "failed"} /\ loads = << >>

\* What the sender has packed, is copying and has sent.
SenderInv ==
    /\ sender.first <= sender.next
    /\ sender.first <= NumParams \/ sender.pc \notin {"pack", "awaitGroup", "send"}
    /\ sender.pc \in {"awaitLast", "complete", "awaitComplete", "done"} =>
           sender.first = NumParams + 1
    /\ \A p \in Param : p < sender.next => packedAt[p] + size[p] <= BufferSize
    /\ \A p \in Param : p >= sender.first /\ p < sender.next =>
           packedAt[p] + size[p] <= sender.used
    /\ \A p, q \in Param : p >= sender.first /\ p < q /\ q < sender.next =>
           packedAt[p] + size[p] <= packedAt[q]
    /\ Adjacent(sender.first, sender.next - 1)
    /\ sender.first < sender.next =>
           /\ packedAt[sender.first] = 0
           /\ packedAt[sender.next - 1] + size[sender.next - 1] = sender.used
    /\ sender.first = sender.next => sender.used = 0

CopiesInv ==
    /\ Len(copies) <= sender.next - sender.first
    /\ \A i \in 1..Len(copies) :
           /\ copies[i].buffer = sender.buffer
           /\ copies[i].param = sender.next - 1 - Len(copies) + i
           /\ copies[i].offset = packedAt[copies[i].param]
    /\ \A p \in Param : p >= sender.first /\ p < sender.next - Len(copies) =>
           Held(sender.buffer, p)
    /\ sender.pc \notin {"pack", "failed"} => copies = << >>

\* Request and reply alternate, and the buffers may be swapped only when quiet.
TurnsInv ==
    /\ request.kind = "none" => request = Silence
    /\ sender.pc \in {"send", "complete"} \/ (sender.pc = "pack" /\ ~sender.await) => Quiet
    /\ reply => request = Silence /\ loads = << >> /\ receiver.pc # "load"
    /\ request # Silence => loads = << >> /\ receiver.pc \in {"recv", "failed"}
    /\ request.kind = "complete" => sender.pc \in {"awaitComplete", "failed"}
                                    /\ sender.first = NumParams + 1
    /\ receiver.pc \in {"finish", "done"} =>
           /\ sender.pc \in {"awaitComplete", "done", "failed"}
           /\ request = Silence /\ loads = << >>
    /\ receiver.pc = "load" => request = Silence
    /\ receiver.pc = "recv" => loads = << >>

\* The group the receiver may read: in the other buffer, where it expects it.
Readable(buffer, f, l) ==
    /\ buffer = 1 - sender.buffer
    /\ l < sender.first
    /\ Adjacent(f, l)
    /\ \A p \in Param : p >= f /\ p <= l => Held(buffer, p)

ReadInv ==
    /\ request.kind = "group" =>
           /\ 1 <= request.first
           /\ Readable(request.buffer, request.first, request.last)
           /\ request.first <= request.last => packedAt[request.first] = 0
    /\ receiver.pc = "load" =>
           /\ Readable(receiver.buffer, receiver.key, receiver.last)
           /\ receiver.key <= receiver.last => packedAt[receiver.key] = receiver.offset
    /\ \A i \in 1..Len(loads) :
           /\ loads[i].buffer = 1 - sender.buffer
           /\ loads[i].param < sender.first
           /\ loads[i].offset = packedAt[loads[i].param]
           /\ Held(loads[i].buffer, loads[i].param)

\* Every tensor that was sent is loaded, or on its way.
OnItsWay(p) ==
    \/ request.kind = "group" /\ p >= request.first /\ p <= request.last
    \/ receiver.pc = "load" /\ p >= receiver.key /\ p <= receiver.last
    \/ \E i \in 1..Len(loads) : loads[i].param = p

LoadedInv ==
    /\ receiver.pc # "failed" =>
           \A p \in Param : p < sender.first => loaded[p] = {p} \/ OnItsWay(p)
    /\ receiver.pc \in {"finish", "done"} => \A p \in Param : loaded[p] = {p}

StreamInv ==
    TypeOK /\ SenderInv /\ CopiesInv /\ TurnsInv /\ ReadInv /\ NoTornWeight /\ LoadedInv

USE StreamConstants

\* Every step keeps the types; a load stays inside its buffer because it is
\* where the sender packed it.
LEMMA TypeStep == StreamInv /\ [Next]_vars => TypeOK'
<1> SUFFICES ASSUME StreamInv, [Next]_vars PROVE TypeOK'
  OBVIOUS
<1> USE DEF StreamInv
<1>1. CASE Pack
  <2>0. /\ sender.next \in Param /\ size[sender.next] \in 1..BufferSize
        /\ sender.used \in 0..BufferSize /\ sender.used + size[sender.next] <= BufferSize
    BY <1>1 DEF Pack, Fits, TypeOK, SenderRecord, Param
  <2>1. (sender \in SenderRecord)'
    <3>1. sender.next + 1 \in 1..(NumParams + 1)
      BY <2>0 DEF Param
    <3>2. sender.used + size[sender.next] \in 0..BufferSize
      BY <2>0
    <3> QED
      BY <1>1, <3>1, <3>2 DEF Pack, TypeOK, SenderRecord
  <2>2. (copies \in Seq(Copy))'
    <3>1. sender.used \in Unit /\ sender.buffer \in Buffer
      BY <2>0 DEF TypeOK, SenderRecord, Unit
    <3>2. [buffer |-> sender.buffer, offset |-> sender.used, param |-> sender.next] \in Copy
      BY <2>0, <3>1 DEF Copy
    <3> QED
      BY <1>1, <3>2 DEF Pack, TypeOK
  <2>3. (packedAt \in [Param -> Unit])'
    BY <1>1
       DEF Pack, Fits, TypeOK, SenderRecord, SenderPC, Param, Buffer, Unit, senderVars,
           receiverVars
  <2> QED
    BY <1>1, <2>1, <2>2, <2>3 DEF Pack, Fits, TypeOK, senderVars, receiverVars
<1>2. CASE EndGroup
  <2>1. (sender \in SenderRecord)'
    <3>1. (IF sender.await THEN "awaitGroup" ELSE "send") \in SenderPC
      BY Zenon DEF SenderPC
    <3> QED
      BY <1>2, <3>1 DEF EndGroup, SenderAt, TypeOK, SenderRecord
  <2> QED
    BY <1>2, <2>1 DEF EndGroup, SenderAt, TypeOK, senderVars, receiverVars
<1>3. CASE ReceiveAck
  <2>1. (sender \in SenderRecord)'
    BY <1>3
       DEF ReceiveAck, SenderAt, TypeOK, SenderRecord, SenderPC, Param, Buffer, senderVars,
           receiverVars
  <2> QED
    BY <1>3, <2>1 DEF ReceiveAck, SenderAt, TypeOK, senderVars, receiverVars
<1>4. CASE SendGroup
  <2>1. (sender \in SenderRecord)'
    <3>1. (IF sender.next > NumParams THEN "awaitLast" ELSE "pack") \in SenderPC
      BY Zenon DEF SenderPC
    <3>2. 1 - sender.buffer \in Buffer /\ 0 \in 0..BufferSize
      BY DEF TypeOK, SenderRecord, Buffer
    <3> QED
      BY <1>4, <3>1, <3>2 DEF SendGroup, TypeOK, SenderRecord
  <2>2. (request \in Request)'
    BY <1>4
       DEF SendGroup, TypeOK, SenderRecord, SenderPC, Param, Buffer, SenderInv, Request, Message,
           senderVars, receiverVars
  <2> QED
    BY <1>4, <2>1, <2>2 DEF SendGroup, TypeOK, senderVars, receiverVars
<1>5. CASE SendComplete
  <2>1. (sender \in SenderRecord)'
    BY <1>5
       DEF SendComplete, SenderAt, TypeOK, SenderRecord, SenderPC, Param, Buffer, senderVars,
           receiverVars
  <2>2. (request \in Request)'
    BY <1>5
       DEF SendComplete, SenderAt, TypeOK, Request, Silence, Complete, Message, Buffer,
           senderVars, receiverVars
  <2> QED
    BY <1>5, <2>1, <2>2 DEF SendComplete, SenderAt, TypeOK, senderVars, receiverVars
<1>6. CASE CopyIn
  <2>1. (copies \in Seq(Copy))'
    BY <1>6 DEF CopyIn, TypeOK, senderVars, receiverVars
  <2>2. (memory \in [Buffer -> [Unit -> Param \cup {Nothing}]])'
    <3> DEFINE copy == Head(copies)
               row == [u \in Unit |->
                         IF u \in copy.offset..(copy.offset + size[copy.param] - 1)
                         THEN copy.param ELSE memory[copy.buffer][u]]
    <3>1. copy \in Copy
      BY <1>6 DEF CopyIn, TypeOK
    <3>2. copy.buffer \in Buffer /\ copy.param \in Param
      BY <3>1 DEF Copy
    <3>3. row \in [Unit -> Param \cup {Nothing}]
      BY <3>2 DEF TypeOK
    <3>4. memory' = [memory EXCEPT ![copy.buffer] = row]
      BY <1>6 DEF CopyIn
    <3> HIDE DEF copy, row
    <3> QED
      BY <3>2, <3>3, <3>4 DEF TypeOK
  <2> QED
    BY <1>6, <2>1, <2>2 DEF CopyIn, TypeOK, senderVars, receiverVars
<1>7. CASE ReceiveGroup
  <2>1. (receiver \in ReceiverRecord)'
    BY <1>7
       DEF ReceiveGroup, TypeOK, ReceiverRecord, ReceiverPC, Param, Buffer, Request, ReadInv,
           senderVars, receiverVars
  <2>2. (request \in Request)'
    BY <1>7
       DEF ReceiveGroup, TypeOK, Request, Silence, Complete, Message, Buffer, senderVars,
           receiverVars
  <2> QED
    BY <1>7, <2>1, <2>2 DEF ReceiveGroup, TypeOK, senderVars, receiverVars
<1>8. CASE LoadKey
  <2>0. /\ receiver.key \in Param /\ receiver.buffer \in Buffer
        /\ receiver.offset = packedAt[receiver.key]
        /\ receiver.offset \in Unit
        /\ receiver.offset + size[receiver.key] \in 0..BufferSize
        /\ receiver.key + 1 \in 1..(NumParams + 1)
    <3>1. receiver.key \in Param /\ receiver.buffer \in Buffer
      BY <1>8 DEF LoadKey, TypeOK, ReceiverRecord, Param
    <3>2. receiver.offset = packedAt[receiver.key] /\ receiver.last < sender.first
      BY <1>8 DEF LoadKey, ReadInv, Readable
    <3>3. receiver.key < sender.next
      BY <1>8, <3>1, <3>2 DEF LoadKey, SenderInv, TypeOK, SenderRecord, ReceiverRecord, Param
    <3>4. packedAt[receiver.key] + size[receiver.key] <= BufferSize
      BY <3>1, <3>3 DEF SenderInv
    <3>5. packedAt[receiver.key] \in Unit /\ size[receiver.key] \in 1..BufferSize
      BY <3>1 DEF TypeOK
    <3> QED
      BY <3>1, <3>2, <3>4, <3>5 DEF Unit, Param
  <2>1. (receiver \in ReceiverRecord)'
    BY <1>8, <2>0 DEF LoadKey, TypeOK, ReceiverRecord
  <2>2. (loads \in Seq(Copy))'
    BY <1>8, <2>0 DEF LoadKey, TypeOK, Copy
  <2> QED
    BY <1>8, <2>1, <2>2 DEF LoadKey, TypeOK, senderVars, receiverVars
<1>9. CASE AckGroup
  <2>1. (receiver \in ReceiverRecord)'
    BY <1>9
       DEF AckGroup, TypeOK, ReceiverRecord, ReceiverPC, Param, Buffer, senderVars, receiverVars
  <2> QED
    BY <1>9, <2>1 DEF AckGroup, TypeOK, senderVars, receiverVars
<1>10. CASE AckComplete
  <2>1. (receiver \in ReceiverRecord)'
    BY <1>10
       DEF AckComplete, TypeOK, ReceiverRecord, ReceiverPC, Param, Buffer, senderVars,
           receiverVars
  <2>2. (request \in Request)'
    BY <1>10
       DEF AckComplete, TypeOK, Request, Silence, Complete, Message, Buffer, senderVars,
           receiverVars
  <2> QED
    BY <1>10, <2>1, <2>2 DEF AckComplete, TypeOK, senderVars, receiverVars
<1>11. CASE FinishUpdate
  <2>1. (receiver \in ReceiverRecord)'
    BY <1>11
       DEF FinishUpdate, TypeOK, ReceiverRecord, ReceiverPC, Param, Buffer, senderVars,
           receiverVars
  <2> QED
    BY <1>11, <2>1 DEF FinishUpdate, TypeOK, senderVars, receiverVars
<1>12. CASE CopyOut
  <2>1. (loads \in Seq(Copy))'
    BY <1>12 DEF CopyOut, TypeOK, senderVars, receiverVars
  <2>2. (loaded \in [Param -> SUBSET (Param \cup {Nothing})])'
    <3> DEFINE load == Head(loads)
               there == {memory[load.buffer][u] :
                           u \in load.offset..(load.offset + size[load.param] - 1)}
    <3>1. load \in Copy
      BY <1>12 DEF CopyOut, TypeOK
    <3>2. load.buffer \in Buffer /\ load.param \in Param
      BY <3>1 DEF Copy
    <3>3. load = loads[1] /\ 1 \in 1..Len(loads)
      BY <1>12 DEF CopyOut, TypeOK
    <3>4. load.param < sender.first /\ load.offset = packedAt[load.param]
      BY <3>3 DEF ReadInv
    <3>5. load.offset..(load.offset + size[load.param] - 1) \subseteq Unit
      <4>1. load.param < sender.next
        BY <3>2, <3>4 DEF SenderInv, TypeOK, SenderRecord, Param
      <4>2. packedAt[load.param] + size[load.param] <= BufferSize
        BY <3>2, <4>1 DEF SenderInv
      <4>3. packedAt[load.param] \in Unit /\ size[load.param] \in 1..BufferSize
        BY <3>2 DEF TypeOK
      <4> HIDE DEF load
      <4> QED
        BY <3>4, <4>2, <4>3 DEF Unit
    <3>6. there \subseteq Param \cup {Nothing}
      BY <3>2, <3>5 DEF TypeOK
    <3>7. loaded' = [loaded EXCEPT ![load.param] = @ \cup there]
      BY <1>12 DEF CopyOut
    <3> HIDE DEF load, there
    <3> QED
      BY <3>2, <3>6, <3>7 DEF TypeOK
  <2> QED
    BY <1>12, <2>1, <2>2 DEF CopyOut, TypeOK, senderVars, receiverVars
<1>13. CASE SenderRaises
  <2>1. (sender \in SenderRecord)'
    BY <1>13
       DEF SenderRaises, SenderAt, Fails, TypeOK, SenderRecord, SenderPC, Param, Buffer,
           senderVars, receiverVars
  <2>2. (failures \in 0..MaxFailures)'
    BY <1>13 DEF SenderRaises, SenderAt, Fails, TypeOK, senderVars, receiverVars
  <2> QED
    BY <1>13, <2>1, <2>2 DEF SenderRaises, SenderAt, TypeOK, senderVars, receiverVars
<1>14. CASE SenderTimesOut
  <2>1. (sender \in SenderRecord)'
    BY <1>14
       DEF SenderTimesOut, SenderAt, TimesOutOn, Fails, TypeOK, SenderRecord, SenderPC, Param,
           Buffer, senderVars, receiverVars
  <2>2. (failures \in 0..MaxFailures)'
    BY <1>14 DEF SenderTimesOut, SenderAt, TimesOutOn, Fails, TypeOK, senderVars, receiverVars
  <2> QED
    BY <1>14, <2>1, <2>2 DEF SenderTimesOut, SenderAt, TypeOK, senderVars, receiverVars
<1>15. CASE ReceiverRaises
  <2>1. (receiver \in ReceiverRecord)'
    BY <1>15
       DEF ReceiverRaises, Fails, TypeOK, ReceiverRecord, ReceiverPC, Param, Buffer, senderVars,
           receiverVars
  <2>2. (request \in Request)'
    BY <1>15
       DEF ReceiverRaises, Fails, TypeOK, Request, Silence, Complete, Message, Buffer,
           senderVars, receiverVars
  <2>3. (failures \in 0..MaxFailures)'
    BY <1>15 DEF ReceiverRaises, Fails, TypeOK, senderVars, receiverVars
  <2> QED
    BY <1>15, <2>1, <2>2, <2>3 DEF ReceiverRaises, TypeOK, senderVars, receiverVars
<1>16. CASE ReceiverTimesOut
  <2>1. (receiver \in ReceiverRecord)'
    BY <1>16
       DEF ReceiverTimesOut, TimesOutOn, Fails, TypeOK, ReceiverRecord, ReceiverPC, Param,
           Buffer, senderVars, receiverVars
  <2>2. (failures \in 0..MaxFailures)'
    BY <1>16 DEF ReceiverTimesOut, TimesOutOn, Fails, TypeOK, senderVars, receiverVars
  <2> QED
    BY <1>16, <2>1, <2>2 DEF ReceiverTimesOut, TypeOK, senderVars, receiverVars
<1>17. CASE UNCHANGED vars
  BY <1>17 DEF vars, TypeOK
<1> QED
  BY <1>1, <1>2, <1>3, <1>4, <1>5, <1>6, <1>7, <1>8, <1>9, <1>10, <1>11, <1>12, <1>13, <1>14,
     <1>15, <1>16, <1>17
     DEF Next, Sender, Receiver

\* The tensors of a group lie one behind the other from offset 0.
LEMMA SenderStep == StreamInv /\ [Next]_vars => SenderInv'
<1> SUFFICES ASSUME StreamInv, [Next]_vars PROVE SenderInv'
  OBVIOUS
<1> USE DEF StreamInv
<1>1. CASE Pack
  <2> DEFINE n == sender.next
  <2>1. /\ n \in Param /\ sender.first \in Param /\ sender.first <= n
        /\ sender.used \in Nat /\ size[n] \in 1..BufferSize
        /\ sender.used + size[n] <= BufferSize
    BY <1>1 DEF Pack, Fits, TypeOK, SenderRecord, SenderInv, Param
  <2>2. /\ sender'.next = n + 1 /\ sender'.used = sender.used + size[n]
        /\ sender'.first = sender.first /\ sender'.pc = sender.pc
        /\ sender.pc = "pack"
    BY <1>1 DEF Pack, TypeOK, SenderRecord
  <2>3. /\ size' = size /\ packedAt'[n] = sender.used
        /\ \A p \in Param : p # n => packedAt'[p] = packedAt[p]
    BY <1>1, <2>1 DEF Pack, TypeOK
  <2>4. \A p \in Param : packedAt[p] \in Nat /\ size[p] \in Nat
    BY DEF TypeOK, Unit
  <2>5. \A p \in Param : p < n + 1 => packedAt'[p] + size[p] <= BufferSize
    BY <2>1, <2>3, <2>4 DEF SenderInv, Param
  <2>6. \A p \in Param : p >= sender.first /\ p < n + 1 =>
            packedAt'[p] + size[p] <= sender.used + size[n]
    BY <2>1, <2>3, <2>4 DEF SenderInv, Param
  <2>7. \A p, q \in Param : p >= sender.first /\ p < q /\ q < n + 1 =>
            packedAt'[p] + size[p] <= packedAt'[q]
    BY <2>1, <2>3, <2>4 DEF SenderInv, Param
  <2>8. \A p, q \in Param : p >= sender.first /\ q <= n /\ q = p + 1 =>
            packedAt'[q] = packedAt'[p] + size[p]
    <3> SUFFICES ASSUME NEW p \in Param, NEW q \in Param,
                        p >= sender.first, q <= n, q = p + 1
                 PROVE  packedAt'[q] = packedAt'[p] + size[p]
      OBVIOUS
    <3>1. CASE q = n
      BY <3>1, <2>1, <2>3, <2>4 DEF SenderInv, Param
    <3>2. CASE q # n
      BY <3>2, <2>1, <2>3, <2>4 DEF SenderInv, Adjacent, Param
    <3> QED
      BY <3>1, <3>2
  <2>9. packedAt'[sender.first] = 0
    <3>1. CASE sender.first = n
      BY <3>1, <2>3 DEF SenderInv
    <3>2. CASE sender.first # n
      BY <3>2, <2>1, <2>3 DEF SenderInv, Param
    <3> QED
      BY <3>1, <3>2
  <2>10. sender.first < n + 1 /\ n + 1 - 1 = n /\ sender.first <= NumParams
    BY <2>1 DEF Param
  <2>11. /\ sender'.first < sender'.next /\ sender'.first <= NumParams
         /\ sender'.next - 1 = n /\ sender'.pc = "pack"
    BY <2>1, <2>2, <2>10 DEF Param
  <2>12. packedAt'[sender'.next - 1] + size'[sender'.next - 1] = sender'.used
    BY <2>2, <2>3, <2>11
  <2>13. Adjacent(sender.first, sender.next - 1)'
    BY <2>2, <2>3, <2>8, <2>11 DEF Adjacent
  <2>14. sender'.first <= sender'.next /\ sender'.first # sender'.next
    BY <2>1, <2>2, <2>11 DEF Param
  <2> HIDE DEF n
  <2> QED
    BY <2>2, <2>3, <2>5, <2>6, <2>7, <2>9, <2>11, <2>12, <2>13, <2>14 DEF SenderInv
<1>2. CASE SendGroup
  <2>1. sender'.first = sender'.next /\ sender'.used = 0 /\ sender'.next = sender.next
        /\ sender'.pc = IF sender.next > NumParams THEN "awaitLast" ELSE "pack"
    BY <1>2 DEF SendGroup, TypeOK, SenderRecord
  <2>2. size' = size /\ packedAt' = packedAt
    BY <1>2 DEF SendGroup
  <2>3. sender.next \in 1..(NumParams + 1) /\ \A p \in Param : p \in Nat
    BY DEF TypeOK, SenderRecord, Param
  <2>4. sender'.pc = "awaitLast" => sender.next = NumParams + 1
    BY <2>1, <2>3
  <2>5. sender'.pc = "pack" => sender.next <= NumParams
    BY <2>1, <2>3
  <2>6. Adjacent(sender.next, sender.next - 1)'
    BY <2>1, <2>3 DEF Adjacent
  <2> QED
    BY <2>1, <2>2, <2>3, <2>4, <2>5, <2>6 DEF SenderInv, Adjacent
<1>3. CASE EndGroup
  BY <1>3 DEF EndGroup, SenderAt, TypeOK, SenderRecord, SenderInv, Adjacent
<1>4. CASE ReceiveAck
  BY <1>4 DEF ReceiveAck, SenderAt, TypeOK, SenderRecord, SenderInv, Adjacent
<1>5. CASE SendComplete
  BY <1>5 DEF SendComplete, SenderAt, TypeOK, SenderRecord, SenderInv, Adjacent
<1>6. CASE SenderRaises \/ SenderTimesOut
  BY <1>6 DEF SenderRaises, SenderTimesOut, SenderAt, TypeOK, SenderRecord, SenderInv, Adjacent
<1>7. CASE UNCHANGED <<sender, size, packedAt>>
  BY <1>7 DEF SenderInv, Adjacent
<1> QED
  BY <1>1, <1>2, <1>3, <1>4, <1>5, <1>6, <1>7 DEF Next, vars, Sender, Receiver, CopyIn,
     CopyOut, ReceiveGroup, LoadKey, AckGroup, AckComplete, FinishUpdate, ReceiverRaises,
     ReceiverTimesOut, senderVars, receiverVars

\* The copies in flight are the last tensors packed, all into the sender's buffer.
LEMMA CopiesStep == StreamInv /\ [Next]_vars => CopiesInv'
<1> SUFFICES ASSUME StreamInv, [Next]_vars PROVE CopiesInv'
  OBVIOUS
<1> USE DEF StreamInv
<1>0. \A p \in Param : packedAt[p] \in Unit /\ size[p] \in 1..BufferSize
  BY DEF TypeOK
<1>1. CASE Pack
  <2>0. PICK n \in Int : n = sender.next
    BY DEF TypeOK, SenderRecord
  <2> DEFINE copy == [buffer |-> sender.buffer, offset |-> sender.used, param |-> n]
  <2>1. /\ n \in Param /\ sender.first \in Param /\ sender.first <= n
        /\ sender.pc = "pack"
    BY <1>1, <2>0 DEF Pack, TypeOK, SenderRecord, SenderInv, Param
  <2>2. /\ sender'.next = n + 1 /\ sender'.buffer = sender.buffer
        /\ sender'.first = sender.first /\ sender'.pc = sender.pc
    BY <1>1, <2>0 DEF Pack, TypeOK, SenderRecord
  <2>3. /\ size' = size /\ memory' = memory /\ packedAt'[n] = sender.used
        /\ \A p \in Param : p # n => packedAt'[p] = packedAt[p]
    BY <1>1, <2>0, <2>1 DEF Pack, TypeOK
  <2>4. /\ Len(copies') = Len(copies) + 1 /\ Len(copies) \in Nat
        /\ \A i \in 1..Len(copies) : copies'[i] = copies[i]
        /\ copies'[Len(copies) + 1] = copy
    BY <1>1, <2>0 DEF Pack, TypeOK
  <2>5. \A i \in 1..(Len(copies) + 1) :
           /\ copies'[i].buffer = sender.buffer
           /\ copies'[i].param = n + 1 - 1 - (Len(copies) + 1) + i
           /\ copies'[i].offset = packedAt'[copies'[i].param]
    <3> SUFFICES ASSUME NEW i \in 1..(Len(copies) + 1)
                 PROVE  /\ copies'[i].buffer = sender.buffer
                        /\ copies'[i].param = n + 1 - 1 - (Len(copies) + 1) + i
                        /\ copies'[i].offset = packedAt'[copies'[i].param]
      OBVIOUS
    <3>1. CASE i = Len(copies) + 1
      BY <3>1, <2>1, <2>3, <2>4 DEF Param
    <3>2. CASE i # Len(copies) + 1
      <4>1. i \in 1..Len(copies) /\ copies'[i] = copies[i]
        BY <3>2, <2>4
      <4>2. copies[i].param = n - 1 - Len(copies) + i
        BY <4>1, <2>0 DEF CopiesInv
      <4>3. copies[i] \in Copy
        BY <4>1 DEF TypeOK
      <4>4. copies[i].param \in Param
        BY <4>3 DEF Copy
      <4>5. copies[i].param # n
        BY <4>1, <4>2, <2>1, <2>4 DEF Param
      <4>6. /\ copies[i].buffer = sender.buffer
            /\ copies[i].offset = packedAt[copies[i].param]
        BY <4>1, <2>0 DEF CopiesInv
      <4>7. copies[i].param = n + 1 - 1 - (Len(copies) + 1) + i
        BY <4>1, <4>2, <2>1, <2>4 DEF Param
      <4> QED
        BY <4>1, <4>4, <4>5, <4>6, <4>7, <2>3
    <3> QED
      BY <3>1, <3>2
  <2>6. Len(copies) + 1 <= n + 1 - sender.first
    BY <2>0, <2>1, <2>4 DEF CopiesInv, Param
  <2>7. \A p \in Param : p >= sender.first /\ p < n + 1 - (Len(copies) + 1) =>
            Held(sender.buffer, p)'
    <3> SUFFICES ASSUME NEW p \in Param, p >= sender.first, p < n + 1 - (Len(copies) + 1)
                 PROVE  Held(sender.buffer, p)'
      OBVIOUS
    <3>1. p < n - Len(copies) /\ p # n
      BY <2>1, <2>4 DEF Param
    <3>2. Held(sender.buffer, p)
      BY <2>0, <3>1 DEF CopiesInv
    <3> QED
      BY <2>2, <2>3, <3>1, <3>2 DEF Held
  <2> HIDE DEF copy
  <2> QED
    <3>1. Len(copies') <= sender'.next - sender'.first
      BY <2>1, <2>2, <2>4, <2>6 DEF Param
    <3>2. \A i \in 1..Len(copies') :
             /\ copies'[i].buffer = sender'.buffer
             /\ copies'[i].param = sender'.next - 1 - Len(copies') + i
             /\ copies'[i].offset = packedAt'[copies'[i].param]
      BY <2>1, <2>2, <2>4, <2>5 DEF Param
    <3>3. (\A p \in Param : p >= sender.first /\ p < sender.next - Len(copies) =>
               Held(sender.buffer, p))'
      BY <2>0, <2>1, <2>2, <2>4, <2>7 DEF Param
    <3>4. sender'.pc = "pack"
      BY <2>1, <2>2
    <3> QED
      BY <3>1, <3>2, <3>3, <3>4 DEF CopiesInv
<1>2. CASE SendGroup
  <2>1. copies = << >> /\ copies' = copies /\ Len(copies) = 0
    BY <1>2 DEF SendGroup, CopiesInv
  <2>2. sender'.first = sender'.next /\ sender'.next \in Nat
    BY <1>2 DEF SendGroup, TypeOK, SenderRecord
  <2> QED
    BY <2>1, <2>2 DEF CopiesInv, Param
<1>3. CASE CopyIn
  <2> DEFINE copy == Head(copies)
  <2>0. PICK n \in Int : n = sender.next - Len(copies)
    BY DEF TypeOK, SenderRecord
  <2>1. /\ copies # << >> /\ Len(copies) \in Nat \ {0} /\ copy = copies[1]
        /\ copy \in Copy /\ Len(copies') = Len(copies) - 1
        /\ \A i \in 1..Len(copies') : copies'[i] = copies[i + 1]
        /\ UNCHANGED <<sender, packedAt, size>>
    BY <1>3 DEF CopyIn, TypeOK
  <2>2. /\ sender.next \in 1..(NumParams + 1) /\ sender.first \in 1..(NumParams + 1)
        /\ sender.buffer \in Buffer /\ sender.used \in Nat
    BY DEF TypeOK, SenderRecord
  <2>3. copy.buffer = sender.buffer /\ copy.param = n /\ copy.offset = packedAt[n]
    BY <2>0, <2>1, <2>2 DEF CopiesInv
  <2>4. n \in Param /\ sender.first <= n /\ n < sender.next
    BY <2>0, <2>1, <2>2 DEF CopiesInv, Param
  <2>5. \A u \in Unit : memory'[sender.buffer][u] =
            IF u \in packedAt[n]..(packedAt[n] + size[n] - 1)
            THEN n ELSE memory[sender.buffer][u]
    BY <1>3, <2>2, <2>3 DEF CopyIn, TypeOK
  <2>6. Held(sender.buffer, n)'
    BY <2>1, <2>5 DEF Held
  <2>7. ASSUME NEW p \in Param, p >= sender.first, p < n
        PROVE  Held(sender.buffer, p)'
    <3>1. Held(sender.buffer, p)
      BY <2>0, <2>1, <2>7 DEF CopiesInv
    <3>2. packedAt[p] + size[p] <= packedAt[n]
      BY <2>4, <2>7 DEF SenderInv
    <3>3. \A u \in Unit : u \in packedAt[p]..(packedAt[p] + size[p] - 1) =>
              u \notin packedAt[n]..(packedAt[n] + size[n] - 1)
      BY <3>2, <1>0, <2>4 DEF Unit
    <3> QED
      BY <2>1, <2>5, <3>1, <3>3 DEF Held
  <2>8. \A p \in Param : p >= sender.first /\ p < sender.next - Len(copies') =>
            p = n \/ p < n
    BY <2>0, <2>1, <2>2 DEF Param
  <2>9. \A i \in 1..Len(copies') :
           /\ copies'[i].buffer = sender.buffer
           /\ copies'[i].param = sender.next - 1 - Len(copies') + i
           /\ copies'[i].offset = packedAt[copies'[i].param]
    <3> SUFFICES ASSUME NEW i \in 1..Len(copies')
                 PROVE  /\ copies'[i].buffer = sender.buffer
                        /\ copies'[i].param = sender.next - 1 - Len(copies') + i
                        /\ copies'[i].offset = packedAt[copies'[i].param]
      OBVIOUS
    <3>1. i + 1 \in 1..Len(copies)
      BY <2>1
    <3>2. copies'[i] = copies[i + 1]
      BY <2>1
    <3>3. /\ copies[i + 1].buffer = sender.buffer
          /\ copies[i + 1].param = sender.next - 1 - Len(copies) + (i + 1)
          /\ copies[i + 1].offset = packedAt[copies[i + 1].param]
      BY <3>1 DEF CopiesInv
    <3>4. sender.next - 1 - Len(copies) + (i + 1) = sender.next - 1 - Len(copies') + i
      <4>1. i \in Int /\ Len(copies) \in Int /\ Len(copies') = Len(copies) - 1
        BY <2>1
      <4>2. sender.next \in Int
        BY <2>2
      <4> QED
        BY <4>1, <4>2
    <3> QED
      BY <3>2, <3>3, <3>4
  <2>10. Len(copies') <= sender.next - sender.first
    BY <2>1, <2>2 DEF CopiesInv
  <2>11. sender.pc \in {"pack", "failed"}
    BY <2>1 DEF CopiesInv
  <2> HIDE DEF copy
  <2> QED
    BY <2>1, <2>6, <2>7, <2>8, <2>9, <2>10, <2>11 DEF CopiesInv
<1>4. CASE EndGroup
  BY <1>4 DEF EndGroup, SenderAt, TypeOK, SenderRecord, CopiesInv, Held
<1>5. CASE ReceiveAck
  BY <1>5 DEF ReceiveAck, SenderAt, TypeOK, SenderRecord, CopiesInv, Held
<1>6. CASE SendComplete
  BY <1>6, SMTT(30) DEF SendComplete, SenderAt, TypeOK, SenderRecord, CopiesInv, Held
<1>7. CASE SenderRaises \/ SenderTimesOut
  BY <1>7 DEF SenderRaises, SenderTimesOut, SenderAt, TypeOK, SenderRecord, CopiesInv, Held
<1>8. CASE UNCHANGED <<sender, size, packedAt, copies, memory>>
  BY <1>8 DEF CopiesInv, Held
<1> QED
  BY <1>1, <1>2, <1>3, <1>4, <1>5, <1>6, <1>7, <1>8 DEF Next, vars, Sender, Receiver,
     CopyOut, ReceiveGroup, LoadKey, AckGroup, AckComplete, FinishUpdate, ReceiverRaises,
     ReceiverTimesOut, senderVars, receiverVars

\* Request and reply alternate.
LEMMA TurnsStep == StreamInv /\ [Next]_vars => TurnsInv'
<1> SUFFICES ASSUME StreamInv, [Next]_vars PROVE TurnsInv'
  OBVIOUS
<1> USE DEF StreamInv
<1>0. sender \in SenderRecord /\ receiver \in ReceiverRecord /\ request \in Request
  BY DEF TypeOK
<1>1. CASE Pack
  BY <1>0, <1>1 DEF Pack, TurnsInv, Quiet, SenderRecord, receiverVars
<1>2. CASE EndGroup
  BY <1>0, <1>2 DEF EndGroup, SenderAt, TurnsInv, Quiet, SenderRecord, receiverVars
<1>3. CASE ReceiveAck
  <2>1. /\ reply /\ ~reply' /\ request = Silence /\ loads = << >>
        /\ receiver.pc \in {"recv", "failed", "finish", "done"}
        /\ UNCHANGED <<receiver, loads, request>>
    BY <1>0, <1>3 DEF ReceiveAck, TurnsInv, ReceiverRecord, ReceiverPC, receiverVars
  <2>2. sender'.first = sender.first
    BY <1>0, <1>3 DEF ReceiveAck, SenderAt, SenderRecord
  <2>3. CASE sender.pc = "awaitGroup"
    <3>1. sender'.pc = "send"
      BY <1>0, <1>3, <2>3 DEF ReceiveAck, SenderAt, SenderRecord
    <3>2. receiver.pc \notin {"finish", "done"}
      BY <2>3 DEF TurnsInv
    <3> QED
      BY <2>1, <2>2, <3>1, <3>2 DEF TurnsInv, Quiet, Silence, Message
  <2>4. CASE sender.pc = "awaitLast"
    <3>1. sender'.pc = "complete"
      BY <1>0, <1>3, <2>4 DEF ReceiveAck, SenderAt, SenderRecord
    <3>2. receiver.pc \notin {"finish", "done"}
      BY <2>4 DEF TurnsInv
    <3> QED
      BY <2>1, <2>2, <3>1, <3>2 DEF TurnsInv, Quiet, Silence, Message
  <2>5. CASE sender.pc = "awaitComplete"
    <3>1. sender'.pc = "done"
      BY <1>0, <1>3, <2>5 DEF ReceiveAck, SenderAt, SenderRecord
    <3> QED
      BY <2>1, <2>2, <3>1 DEF TurnsInv, Quiet, Silence, Message
  <2> QED
    BY <1>3, <2>3, <2>4, <2>5 DEF ReceiveAck
<1>4. CASE SendGroup
  BY <1>0, <1>4 DEF SendGroup, TurnsInv, Quiet, SenderRecord, Silence, Message, receiverVars
<1>5. CASE SendComplete
  BY <1>0, <1>5 DEF SendComplete, SenderAt, TurnsInv, SenderInv, Quiet, SenderRecord,
     Silence, Complete, Message, receiverVars
<1>6. CASE CopyIn
  BY <1>6 DEF CopyIn, TurnsInv, Quiet, receiverVars
<1>7. CASE ReceiveGroup
  <2>1. request # Silence /\ request' = Silence /\ receiver'.pc = "load"
    BY <1>7 DEF ReceiveGroup, Silence, Message
  <2>2. ~reply /\ loads = << >> /\ ~Quiet
    BY <2>1 DEF TurnsInv, Quiet
  <2> QED
    BY <1>7, <2>1, <2>2 DEF ReceiveGroup, TurnsInv, Quiet, Silence, Message, senderVars
<1>8. CASE LoadKey
  BY <1>0, <1>8 DEF LoadKey, TurnsInv, Quiet, ReceiverRecord, senderVars
<1>9. CASE AckGroup
  BY <1>0, <1>9 DEF AckGroup, TurnsInv, Quiet, ReceiverRecord, senderVars
<1>10. CASE AckComplete
  BY <1>0, <1>10 DEF AckComplete, TurnsInv, Quiet, ReceiverRecord, Silence, Message, senderVars
<1>11. CASE FinishUpdate
  BY <1>0, <1>11 DEF FinishUpdate, TurnsInv, Quiet, ReceiverRecord, senderVars
<1>12. CASE CopyOut
  <2>1. loads # << >> /\ ~Quiet
    BY <1>12 DEF CopyOut, Quiet
  <2> QED
    BY <1>12, <2>1 DEF CopyOut, TurnsInv, Quiet, senderVars
<1>13. CASE SenderRaises \/ SenderTimesOut
  BY <1>0, <1>13 DEF SenderRaises, SenderTimesOut, SenderAt, TurnsInv, Quiet, SenderRecord,
     receiverVars
<1>14. CASE ReceiverRaises \/ ReceiverTimesOut
  BY <1>0, <1>14 DEF ReceiverRaises, ReceiverTimesOut, TurnsInv, Quiet, ReceiverRecord,
     Silence, Message, senderVars
<1>15. CASE UNCHANGED vars
  BY <1>15 DEF vars, TurnsInv, Quiet
<1> QED
  BY <1>1, <1>2, <1>3, <1>4, <1>5, <1>6, <1>7, <1>8, <1>9, <1>10, <1>11, <1>12, <1>13,
     <1>14, <1>15 DEF Next, Sender, Receiver

\* The clauses of ReadInv that concern the wire, the group and the GPU.
ReadWire ==
    request.kind = "group" =>
        /\ 1 <= request.first
        /\ Readable(request.buffer, request.first, request.last)
        /\ request.first <= request.last => packedAt[request.first] = 0
ReadGroup ==
    receiver.pc = "load" =>
        /\ Readable(receiver.buffer, receiver.key, receiver.last)
        /\ receiver.key <= receiver.last => packedAt[receiver.key] = receiver.offset
ReadLoads ==
    \A i \in 1..Len(loads) :
        /\ loads[i].buffer = 1 - sender.buffer
        /\ loads[i].param < sender.first
        /\ loads[i].offset = packedAt[loads[i].param]
        /\ Held(loads[i].buffer, loads[i].param)

\* They are ReadInv.
LEMMA ReadSplit ==
    /\ ReadInv => ReadWire /\ ReadGroup /\ ReadLoads
    /\ ReadWire' /\ ReadGroup' /\ ReadLoads' => ReadInv'
  BY DEF ReadInv, ReadWire, ReadGroup, ReadLoads

\* A step that keeps the sent tensors where they are and the sender on its
\* buffer keeps the claims about what it does not touch.
LEMMA ReadFrame ==
    ASSUME StreamInv,
           sender'.buffer = sender.buffer, sender'.first = sender.first,
           \A p \in Param : p < sender.first => packedAt'[p] = packedAt[p],
           size' = size,
           memory'[1 - sender.buffer] = memory[1 - sender.buffer]
    PROVE  /\ UNCHANGED request => ReadWire'
           /\ UNCHANGED receiver => ReadGroup'
           /\ UNCHANGED loads => ReadLoads'
<1> USE DEF StreamInv
<1>1. sender.first \in 1..(NumParams + 1)
  BY DEF TypeOK, SenderRecord
<1>2. \A p \in Param : p < sender.first =>
          (Held(1 - sender.buffer, p) => Held(1 - sender.buffer, p)')
  BY DEF Held
<1>3. ASSUME NEW b \in Buffer, NEW f \in Int, NEW l \in Int, Readable(b, f, l)
      PROVE  Readable(b, f, l)'
  <2>1. b = 1 - sender.buffer /\ l < sender.first /\ Adjacent(f, l)
    BY <1>3 DEF Readable
  <2>2. \A p \in Param : p <= l => p < sender.first
    BY <1>1, <2>1 DEF Param
  <2>3. Adjacent(f, l)'
    BY <1>1, <2>1, <2>2 DEF Adjacent, Param
  <2>4. \A p \in Param : p >= f /\ p <= l => Held(b, p)'
    BY <1>2, <1>3, <2>1, <2>2 DEF Readable
  <2> QED
    BY <2>1, <2>3, <2>4 DEF Readable
<1>4. ASSUME UNCHANGED request PROVE ReadWire'
  <2>1. request.first \in Int /\ request.last \in Int /\ request.first <= NumParams
        /\ request.buffer \in Buffer
    BY DEF TypeOK, Request
  <2> SUFFICES ASSUME request.kind = "group"
               PROVE  ReadWire'
    BY <1>4 DEF ReadWire
  <2>2. /\ 1 <= request.first /\ Readable(request.buffer, request.first, request.last)
        /\ request.first <= request.last => packedAt[request.first] = 0
    BY DEF ReadInv
  <2>3. Readable(request.buffer, request.first, request.last)'
    <3>1. PICK b \in Buffer, f \in Int, l \in Int :
              b = request.buffer /\ f = request.first /\ l = request.last
      BY <2>1
    <3>2. Readable(b, f, l)'
      BY <1>3, <2>2, <3>1
    <3> QED
      BY <1>4, <3>1, <3>2
  <2>4. request.first <= request.last =>
            request.first \in Param /\ request.first < sender.first
    BY <1>1, <2>1, <2>2 DEF Readable, Param
  <2> QED
    BY <1>4, <2>2, <2>3, <2>4 DEF ReadWire
<1>5. ASSUME UNCHANGED receiver PROVE ReadGroup'
  <2>1. receiver.key \in 1..(NumParams + 1) /\ receiver.last \in Int
        /\ receiver.buffer \in Buffer /\ receiver.last <= NumParams
    BY DEF TypeOK, ReceiverRecord
  <2> SUFFICES ASSUME receiver.pc = "load"
               PROVE  ReadGroup'
    BY <1>5 DEF ReadGroup
  <2>2. /\ Readable(receiver.buffer, receiver.key, receiver.last)
        /\ receiver.key <= receiver.last => packedAt[receiver.key] = receiver.offset
    BY DEF ReadInv
  <2>3. Readable(receiver.buffer, receiver.key, receiver.last)'
    <3>1. PICK b \in Buffer, f \in Int, l \in Int :
              b = receiver.buffer /\ f = receiver.key /\ l = receiver.last
      BY <2>1
    <3>2. Readable(b, f, l)'
      BY <1>3, <2>2, <3>1
    <3> QED
      BY <1>5, <3>1, <3>2
  <2>4. receiver.key <= receiver.last =>
            receiver.key \in Param /\ receiver.key < sender.first
    BY <1>1, <2>1, <2>2 DEF Readable, Param
  <2> QED
    BY <1>5, <2>2, <2>3, <2>4 DEF ReadGroup
<1>6. ASSUME UNCHANGED loads PROVE ReadLoads'
  <2> SUFFICES ASSUME NEW i \in 1..Len(loads)
               PROVE  /\ loads[i].buffer = 1 - sender.buffer
                      /\ loads[i].param < sender.first
                      /\ loads[i].offset = packedAt'[loads[i].param]
                      /\ Held(loads[i].buffer, loads[i].param)'
    BY <1>6 DEF ReadLoads
  <2>1. /\ loads[i].buffer = 1 - sender.buffer
        /\ loads[i].param < sender.first
        /\ loads[i].offset = packedAt[loads[i].param]
        /\ Held(loads[i].buffer, loads[i].param)
    BY DEF ReadInv
  <2>2. loads[i] \in Copy
    BY DEF TypeOK
  <2>3. loads[i].param \in Param /\ loads[i].buffer \in Buffer
    BY <2>2 DEF Copy
  <2>4. PICK b \in Buffer, p \in Param : b = loads[i].buffer /\ p = loads[i].param
    BY <2>3
  <2>5. Held(b, p)'
    BY <1>2, <2>1, <2>4
  <2>6. Held(loads[i].buffer, loads[i].param)'
    BY <1>6, <2>4, <2>5
  <2> QED
    BY <2>1, <2>3, <2>6
<1> QED
  BY <1>4, <1>5, <1>6

\* What the receiver reads stays in the other buffer, and intact.
LEMMA ReadStep == StreamInv /\ [Next]_vars => ReadInv'
<1> SUFFICES ASSUME StreamInv, [Next]_vars PROVE ReadInv'
  OBVIOUS
<1> USE DEF StreamInv
<1>0. /\ sender \in SenderRecord /\ receiver \in ReceiverRecord /\ request \in Request
      /\ sender.buffer \in Buffer
  BY DEF TypeOK, SenderRecord
<1>1. CASE Pack
  <2>1. /\ sender'.buffer = sender.buffer /\ sender'.first = sender.first
        /\ UNCHANGED <<size, memory, request, receiver, loads>>
    BY <1>0, <1>1 DEF Pack, SenderRecord, receiverVars
  <2>2. \A p \in Param : p < sender.first => packedAt'[p] = packedAt[p]
    BY <1>0, <1>1 DEF Pack, SenderInv, SenderRecord, TypeOK, Param
  <2> QED
    BY <2>1, <2>2, ReadFrame, ReadSplit
<1>2. CASE EndGroup \/ ReceiveAck \/ SenderRaises \/ SenderTimesOut
  <2>1. /\ sender'.buffer = sender.buffer /\ sender'.first = sender.first
        /\ UNCHANGED <<size, packedAt, memory, request, receiver, loads>>
    BY <1>0, <1>2 DEF EndGroup, ReceiveAck, SenderRaises, SenderTimesOut, SenderAt,
       SenderRecord, receiverVars
  <2> QED
    BY <2>1, ReadFrame, ReadSplit
<1>3. CASE SendComplete
  <2>1. /\ sender'.buffer = sender.buffer /\ sender'.first = sender.first
        /\ UNCHANGED <<size, packedAt, memory, receiver, loads>>
    BY <1>0, <1>3 DEF SendComplete, SenderAt, SenderRecord, receiverVars
  <2>2. ReadWire'
    BY <1>3 DEF SendComplete, Complete, Message, ReadWire
  <2> QED
    BY <2>1, <2>2, ReadFrame, ReadSplit
<1>4. CASE SendGroup
  <2>1. /\ Quiet /\ copies = << >> /\ Len(copies) = 0
        /\ sender.first \in 1..NumParams /\ sender.next \in 1..(NumParams + 1)
    BY <1>0, <1>4 DEF SendGroup, TurnsInv, CopiesInv, SenderInv, SenderRecord
  <2>2. /\ request'.kind = "group" /\ request'.buffer = sender.buffer
        /\ request'.first = sender.first /\ request'.last = sender.next - 1
        /\ sender'.buffer = 1 - sender.buffer /\ sender'.first = sender.next
        /\ UNCHANGED <<size, packedAt, memory, receiver, loads>>
    BY <1>0, <1>4 DEF SendGroup, Message, SenderRecord, receiverVars
  <2>3. sender.buffer = 1 - sender'.buffer
    BY <1>0, <2>2 DEF Buffer
  <2>4. PICK b \in Buffer : b = sender.buffer
    BY <1>0
  <2>4a. ASSUME NEW p \in Param, p >= sender.first, p <= sender.next - 1
         PROVE  Held(b, p)'
    <3>1. p < sender.next - Len(copies)
      BY <2>1, <2>4a DEF Param
    <3>2. Held(b, p)
      BY <2>4, <2>4a, <3>1 DEF CopiesInv
    <3> QED
      BY <2>2, <3>2 DEF Held
  <2>5. Adjacent(request.first, request.last)'
    BY <2>2 DEF SenderInv, Adjacent
  <2>6. request'.last < sender'.first /\ 1 <= request'.first
    BY <2>1, <2>2
  <2>7. request'.first <= request'.last => packedAt'[request'.first] = 0
    BY <2>1, <2>2 DEF SenderInv
  <2>8. ReadWire'
    <3>1. Readable(request.buffer, request.first, request.last)'
      <4>1. request'.buffer = b /\ b = 1 - sender'.buffer
        BY <2>2, <2>3, <2>4
      <4>2. \A p \in Param : p >= request'.first /\ p <= request'.last => Held(b, p)'
        BY <2>2, <2>4a
      <4>3. (\A p \in Param : p >= request.first /\ p <= request.last =>
                Held(request.buffer, p))'
        BY <4>1, <4>2
      <4> QED
        BY <2>5, <2>6, <4>1, <4>3 DEF Readable
    <3> QED
      BY <2>6, <2>7, <3>1 DEF ReadWire
  <2>9. ReadGroup' /\ ReadLoads'
    BY <2>1, <2>2 DEF Quiet, ReadGroup, ReadLoads
  <2> QED
    BY <2>8, <2>9, ReadSplit
<1>5. CASE CopyIn
  <2>1. /\ UNCHANGED <<size, packedAt, sender, request, receiver, loads>>
    BY <1>5 DEF CopyIn, receiverVars
  <2>2. /\ Head(copies) \in Copy /\ Head(copies).buffer = sender.buffer
    <3>1. /\ copies \in Seq(Copy) /\ copies # << >> /\ 1 \in 1..Len(copies)
          /\ Head(copies) = copies[1]
      BY <1>5 DEF CopyIn, TypeOK
    <3> QED
      BY <3>1 DEF CopiesInv
  <2>3. memory'[1 - sender.buffer] = memory[1 - sender.buffer]
    <3>1. 1 - sender.buffer \in Buffer /\ 1 - sender.buffer # sender.buffer
      BY <1>0 DEF Buffer
    <3> QED
      BY <1>5, <2>2, <3>1 DEF CopyIn, TypeOK
  <2> QED
    BY <2>1, <2>3, ReadFrame, ReadSplit
<1>6. CASE ReceiveGroup
  <2>1. /\ UNCHANGED <<size, packedAt, sender, memory, loads>>
        /\ receiver'.pc = "load" /\ receiver'.buffer = request.buffer
        /\ receiver'.key = request.first /\ receiver'.last = request.last
        /\ receiver'.offset = 0 /\ request' = Silence /\ request.kind = "group"
    BY <1>6 DEF ReceiveGroup, senderVars
  <2>2. ReadWire'
    BY <2>1 DEF ReadWire, Silence, Message
  <2>3. ReadWire
    BY ReadSplit
  <2>4. ReadGroup'
    BY <2>1, <2>3 DEF ReadWire, ReadGroup, Readable, Adjacent, Held
  <2> QED
    BY <2>1, <2>2, <2>4, ReadFrame, ReadSplit
<1>7. CASE LoadKey
  <2>1. /\ UNCHANGED <<size, packedAt, sender, memory, request>>
        /\ receiver.pc = "load" /\ receiver.key <= receiver.last
        /\ receiver'.pc = "load" /\ receiver'.buffer = receiver.buffer
        /\ receiver'.key = receiver.key + 1 /\ receiver'.last = receiver.last
        /\ receiver'.offset = receiver.offset + size[receiver.key]
    BY <1>0, <1>7 DEF LoadKey, ReceiverRecord, senderVars
  <2>2. /\ receiver.key \in Param /\ receiver.last \in 0..NumParams
        /\ sender.first \in 1..(NumParams + 1)
    BY <1>0, <2>1 DEF ReceiverRecord, SenderRecord, Param
  <2>3. /\ Readable(receiver.buffer, receiver.key, receiver.last)
        /\ packedAt[receiver.key] = receiver.offset
    BY <2>1 DEF ReadInv
  <2>4. ReadGroup'
    <3>1. receiver'.key <= receiver'.last =>
              packedAt[receiver.key + 1] = receiver.offset + size[receiver.key]
      BY <2>1, <2>2, <2>3 DEF Readable, Adjacent, Param
    <3>2. (Adjacent(receiver.key, receiver.last))'
      BY <2>1, <2>2, <2>3 DEF Readable, Adjacent, Param
    <3>3. \A p \in Param : p >= receiver'.key => p >= receiver.key
      BY <2>1, <2>2 DEF Param
    <3>4. (\A p \in Param : p >= receiver.key /\ p <= receiver.last =>
              Held(receiver.buffer, p))'
      BY <2>1, <2>3, <3>3 DEF Readable, Held
    <3> QED
      BY <2>1, <2>3, <3>1, <3>2, <3>4 DEF ReadGroup, Readable
  <2>5. ReadLoads'
    <3> SUFFICES ASSUME NEW i \in 1..Len(loads')
                 PROVE  /\ loads'[i].buffer = 1 - sender.buffer
                        /\ loads'[i].param < sender.first
                        /\ loads'[i].offset = packedAt[loads'[i].param]
                        /\ Held(loads[i].buffer, loads[i].param)'
      BY <2>1 DEF ReadLoads
    <3>1. CASE i = Len(loads) + 1
      <4>1. loads'[i] = [buffer |-> receiver.buffer, offset |-> receiver.offset,
                         param |-> receiver.key]
        BY <1>7, <3>1 DEF LoadKey, TypeOK
      <4>2. Held(receiver.buffer, receiver.key)
        BY <2>1, <2>2, <2>3 DEF Readable, Param
      <4>3. receiver.key < sender.first /\ receiver.buffer = 1 - sender.buffer
        BY <2>1, <2>2, <2>3 DEF Readable, Param
      <4> QED
        BY <2>1, <2>3, <4>1, <4>2, <4>3 DEF Held
    <3>2. CASE i # Len(loads) + 1
      <4>1. i \in 1..Len(loads) /\ loads'[i] = loads[i]
        BY <1>7, <3>2 DEF LoadKey, TypeOK
      <4> QED
        BY <2>1, <4>1 DEF ReadInv, Held
    <3> QED
      BY <3>1, <3>2
  <2> QED
    BY <2>1, <2>4, <2>5, ReadFrame, ReadSplit
<1>8. CASE AckGroup \/ AckComplete \/ FinishUpdate \/ ReceiverRaises \/ ReceiverTimesOut
  <2>1. UNCHANGED <<size, packedAt, sender, memory, loads>>
    BY <1>8 DEF AckGroup, AckComplete, FinishUpdate, ReceiverRaises, ReceiverTimesOut, senderVars
  <2>2. receiver'.pc # "load"
    BY <1>0, <1>8 DEF AckGroup, AckComplete, FinishUpdate, ReceiverRaises, ReceiverTimesOut,
       ReceiverRecord
  <2>3. request' = request \/ request' = Silence
    BY <1>8 DEF AckGroup, AckComplete, FinishUpdate, ReceiverRaises, ReceiverTimesOut
  <2>4. ReadWire'
    BY <2>1, <2>3, ReadFrame DEF ReadWire, Silence, Message
  <2>5. ReadGroup'
    BY <2>2 DEF ReadGroup
  <2> QED
    BY <2>1, <2>4, <2>5, ReadFrame, ReadSplit
<1>9. CASE CopyOut
  <2>1. /\ UNCHANGED <<size, packedAt, sender, memory, request, receiver>>
        /\ Len(loads') = Len(loads) - 1 /\ Len(loads) \in Nat
        /\ \A i \in 1..Len(loads') : loads'[i] = loads[i + 1]
    BY <1>9 DEF CopyOut, TypeOK, senderVars
  <2>2. ReadLoads'
    <3> SUFFICES ASSUME NEW i \in 1..Len(loads')
                 PROVE  /\ loads'[i].buffer = 1 - sender.buffer
                        /\ loads'[i].param < sender.first
                        /\ loads'[i].offset = packedAt[loads'[i].param]
                        /\ Held(loads[i].buffer, loads[i].param)'
      BY <2>1 DEF ReadLoads
    <3>1. i + 1 \in 1..Len(loads) /\ loads'[i] = loads[i + 1]
      BY <2>1
    <3> QED
      BY <2>1, <3>1 DEF ReadInv, Held
  <2> QED
    BY <2>1, <2>2, ReadFrame, ReadSplit
<1>10. CASE UNCHANGED vars
  BY <1>10, ReadFrame, ReadSplit DEF vars
<1> QED
  BY <1>1, <1>2, <1>3, <1>4, <1>5, <1>6, <1>7, <1>8, <1>9, <1>10 DEF Next, Sender, Receiver

\* What one copy out of a buffer reads: exactly its tensor.
LEMMA CopyOutReads ==
    ASSUME StreamInv, CopyOut
    PROVE  /\ Head(loads) \in Copy /\ Head(loads) = loads[1] /\ Len(loads) \in Nat \ {0}
           /\ loaded' = [loaded EXCEPT ![loads[1].param] = @ \cup {loads[1].param}]
<1> USE DEF StreamInv
<1>1. /\ Head(loads) \in Copy /\ Head(loads) = loads[1] /\ Len(loads) \in Nat \ {0}
      /\ 1 \in 1..Len(loads)
  BY DEF CopyOut, TypeOK
<1>2. PICK b \in Buffer, p \in Param, o \in Unit :
          b = loads[1].buffer /\ p = loads[1].param /\ o = loads[1].offset
  BY <1>1 DEF Copy
<1>3. Held(b, p) /\ o = packedAt[p] /\ p < sender.first
  BY <1>1, <1>2 DEF ReadInv
<1>4. packedAt[p] + size[p] <= BufferSize /\ size[p] \in 1..BufferSize
  BY <1>3 DEF SenderInv, TypeOK, SenderRecord, Param
<1>5. \A u \in o..(o + size[p] - 1) : u \in Unit /\ memory[b][u] = p
  BY <1>3, <1>4 DEF Held, Unit
<1>6. o \in o..(o + size[p] - 1)
  BY <1>4 DEF Unit
<1>7. {memory[b][u] : u \in o..(o + size[p] - 1)} = {p}
  BY <1>5, <1>6
<1>8. loaded' = [loaded EXCEPT ![loads[1].param] = @ \cup
          {memory[loads[1].buffer][u] :
              u \in loads[1].offset..(loads[1].offset + size[loads[1].param] - 1)}]
  BY <1>1 DEF CopyOut
<1>9. loaded' = [loaded EXCEPT ![loads[1].param] = @ \cup
          {memory[b][u] : u \in o..(o + size[p] - 1)}]
  BY <1>2, <1>8, Zenon
<1> QED
  BY <1>1, <1>2, <1>7, <1>9

\* A tensor is filled from its own bytes only.
LEMMA NoTornStep == StreamInv /\ [Next]_vars => NoTornWeight'
<1> SUFFICES ASSUME StreamInv, [Next]_vars PROVE NoTornWeight'
  OBVIOUS
<1> USE DEF StreamInv
<1>1. CASE CopyOut
  <2>1. PICK p \in Param : p = loads[1].param
    BY <1>1, CopyOutReads DEF Copy
  <2>2. loaded' = [loaded EXCEPT ![p] = @ \cup {p}]
    BY <1>1, <2>1, CopyOutReads
  <2> QED
    BY <2>2 DEF TypeOK, NoTornWeight
<1>2. CASE UNCHANGED loaded
  BY <1>2 DEF NoTornWeight
<1> QED
  BY <1>1, <1>2 DEF Next, Sender, Receiver, Pack, EndGroup, ReceiveAck, SendGroup, SendComplete,
     CopyIn, ReceiveGroup, LoadKey, AckGroup, AckComplete, FinishUpdate, SenderRaises,
     SenderTimesOut, ReceiverRaises, ReceiverTimesOut, vars

\* A tensor that was sent is loaded or on its way.
LEMMA LoadedStep == StreamInv /\ [Next]_vars => LoadedInv'
<1> SUFFICES ASSUME StreamInv, [Next]_vars PROVE LoadedInv'
  OBVIOUS
<1> USE DEF StreamInv
<1>0. /\ sender \in SenderRecord /\ receiver \in ReceiverRecord /\ request \in Request
      /\ sender.first \in 1..(NumParams + 1)
  BY DEF TypeOK, SenderRecord
<1>1. ASSUME UNCHANGED <<request, receiver, loads, loaded>>, sender'.first = sender.first
      PROVE  LoadedInv'
  BY <1>1 DEF LoadedInv, OnItsWay
<1>2. CASE Pack \/ EndGroup \/ ReceiveAck \/ SenderRaises \/ SenderTimesOut
  <2>1. sender'.first = sender.first /\ UNCHANGED <<request, receiver, loads, loaded>>
    BY <1>0, <1>2 DEF Pack, EndGroup, ReceiveAck, SenderRaises, SenderTimesOut, SenderAt,
       SenderRecord, receiverVars
  <2> QED
    BY <1>1, <2>1
<1>3. CASE SendComplete
  <2>1. request.kind # "group" /\ UNCHANGED <<receiver, loads, loaded>>
        /\ sender'.first = sender.first
    BY <1>0, <1>3 DEF SendComplete, SenderAt, TurnsInv, Quiet, Silence, Message, SenderRecord,
       receiverVars
  <2> QED
    BY <2>1 DEF LoadedInv, OnItsWay
<1>4. CASE SendGroup
  <2>1. /\ UNCHANGED <<receiver, loads, loaded>> /\ request' = Message("group", sender.buffer,
             sender.first, sender.next - 1, sender.used)
        /\ sender'.first = sender.next /\ sender.next \in 1..(NumParams + 1)
    BY <1>0, <1>4 DEF SendGroup, SenderRecord, receiverVars
  <2>2. Quiet
    BY <1>4 DEF SendGroup, TurnsInv
  <2>3. receiver.pc # "failed" => \A p \in Param : p < sender.first => loaded[p] = {p}
    BY <2>2 DEF LoadedInv, OnItsWay, Quiet, Silence, Message
  <2>4. \A p \in Param : p < sender.next /\ ~(p < sender.first) => OnItsWay(p)'
    BY <1>0, <2>1 DEF OnItsWay, Message, Param
  <2> QED
    BY <2>1, <2>2, <2>3, <2>4 DEF LoadedInv, Quiet
<1>5. CASE CopyIn
  BY <1>1, <1>5 DEF CopyIn, receiverVars
<1>6. CASE ReceiveGroup
  <2>1. /\ UNCHANGED <<sender, loads, loaded>>
        /\ receiver.pc = "recv" /\ request.kind = "group"
        /\ receiver'.pc = "load" /\ receiver'.key = request.first /\ receiver'.last = request.last
    BY <1>6 DEF ReceiveGroup, senderVars
  <2>2. \A p \in Param : OnItsWay(p) => OnItsWay(p)'
    BY <2>1 DEF OnItsWay
  <2> QED
    BY <2>1, <2>2 DEF LoadedInv
<1>7. CASE LoadKey
  <2>1. /\ UNCHANGED <<sender, request, loaded>> /\ receiver.pc = "load"
        /\ receiver'.pc = "load" /\ receiver'.key = receiver.key + 1
        /\ receiver'.last = receiver.last /\ receiver.key \in Nat
        /\ Len(loads) \in Nat /\ Len(loads') = Len(loads) + 1
        /\ loads'[Len(loads) + 1].param = receiver.key
        /\ \A i \in 1..Len(loads) : loads'[i] = loads[i]
    BY <1>0, <1>7 DEF LoadKey, ReceiverRecord, TypeOK, senderVars
  <2>2. ASSUME NEW p \in Param, OnItsWay(p) PROVE OnItsWay(p)'
    <3>1. CASE receiver.key = p
      <4>1. Len(loads) + 1 \in 1..Len(loads') /\ loads'[Len(loads) + 1].param = p
        BY <2>1, <3>1
      <4> QED
        BY <4>1 DEF OnItsWay
    <3>2. CASE \E i \in 1..Len(loads) : loads[i].param = p
      <4>1. PICK i \in 1..Len(loads) : loads[i].param = p
        BY <3>2
      <4>2. i \in 1..Len(loads') /\ loads'[i].param = p
        BY <2>1, <4>1
      <4> QED
        BY <4>2 DEF OnItsWay
    <3>3. CASE receiver.key # p /\ ~(\E i \in 1..Len(loads) : loads[i].param = p)
      BY <2>1, <2>2, <3>3 DEF OnItsWay, Param
    <3> QED
      BY <3>1, <3>2, <3>3
  <2> QED
    BY <2>1, <2>2 DEF LoadedInv
<1>8. CASE AckGroup
  <2>1. /\ UNCHANGED <<sender, request, loads, loaded>> /\ receiver.pc = "load"
        /\ receiver.key > receiver.last /\ loads = << >> /\ receiver'.pc = "recv"
    BY <1>0, <1>8 DEF AckGroup, ReceiverRecord, senderVars
  <2>2. request = Silence
    BY <2>1 DEF TurnsInv
  <2>3. \A p \in Param : ~OnItsWay(p)
    BY <1>0, <2>1, <2>2 DEF OnItsWay, Silence, Message, ReceiverRecord, Param
  <2> QED
    BY <2>1, <2>3 DEF LoadedInv
<1>9. CASE AckComplete
  <2>1. /\ UNCHANGED <<sender, loads, loaded>> /\ receiver.pc = "recv"
        /\ request.kind = "complete" /\ request # Silence
    BY <1>9 DEF AckComplete, Silence, Message, senderVars
  <2>2. loads = << >> /\ sender.first = NumParams + 1
    BY <2>1 DEF TurnsInv
  <2>3. \A p \in Param : p < sender.first /\ ~OnItsWay(p)
    BY <2>1, <2>2 DEF OnItsWay, Param
  <2> QED
    BY <2>1, <2>3 DEF LoadedInv
<1>10. CASE FinishUpdate
  <2>1. UNCHANGED <<sender, request, loads, loaded>> /\ receiver.pc = "finish"
        /\ receiver'.pc = "done"
    BY <1>0, <1>10 DEF FinishUpdate, ReceiverRecord, senderVars
  <2> QED
    BY <2>1 DEF LoadedInv
<1>11. CASE CopyOut
  <2>1. PICK p \in Param : p = loads[1].param
    BY <1>11, CopyOutReads DEF Copy
  <2>2. loaded' = [loaded EXCEPT ![p] = @ \cup {p}]
    BY <1>11, <2>1, CopyOutReads
  <2>3. loaded'[p] = {p} /\ \A q \in Param : q # p => loaded'[q] = loaded[q]
    BY <2>2 DEF TypeOK, NoTornWeight
  <2>4. /\ UNCHANGED <<sender, request, receiver>> /\ loads # << >>
        /\ Len(loads) \in Nat /\ Len(loads') = Len(loads) - 1
        /\ \A i \in 1..Len(loads') : loads'[i] = loads[i + 1]
    BY <1>11 DEF CopyOut, TypeOK, senderVars
  <2>5. ASSUME NEW q \in Param, q # p, OnItsWay(q) PROVE OnItsWay(q)'
    <3>1. CASE \E i \in 1..Len(loads) : loads[i].param = q
      <4>1. PICK i \in 1..Len(loads) : loads[i].param = q
        BY <3>1
      <4>2. i # 1
        BY <2>1, <2>5, <4>1
      <4>3. i - 1 \in 1..Len(loads') /\ loads'[i - 1].param = q
        BY <2>4, <4>1, <4>2
      <4> QED
        BY <4>3 DEF OnItsWay
    <3>2. CASE ~(\E i \in 1..Len(loads) : loads[i].param = q)
      BY <2>4, <2>5, <3>2 DEF OnItsWay
    <3> QED
      BY <3>1, <3>2
  <2>6. receiver.pc \notin {"finish", "done"}
    BY <2>4 DEF TurnsInv
  <2> QED
    BY <2>3, <2>4, <2>5, <2>6 DEF LoadedInv
<1>12. CASE ReceiverRaises \/ ReceiverTimesOut
  <2>1. receiver'.pc = "failed"
    BY <1>0, <1>12 DEF ReceiverRaises, ReceiverTimesOut, ReceiverRecord
  <2> QED
    BY <2>1 DEF LoadedInv
<1>13. CASE UNCHANGED vars
  BY <1>1, <1>13 DEF vars
<1> QED
  BY <1>2, <1>3, <1>4, <1>5, <1>6, <1>7, <1>8, <1>9, <1>10, <1>11, <1>12, <1>13
  DEF Next, Sender, Receiver

\* The invariant holds when a refit starts ...
LEMMA StreamInit == Init => StreamInv
<1> SUFFICES ASSUME Init PROVE StreamInv
  OBVIOUS
<1>1. TypeOK
  <2>1. sender \in SenderRecord
    BY DEF Init, SenderRecord, SenderPC, Buffer
  <2>2. receiver \in ReceiverRecord
    BY DEF Init, ReceiverRecord, ReceiverPC, Buffer
  <2>3. request \in Request
    BY DEF Init, Request, Silence, Message, Buffer
  <2>4. copies \in Seq(Copy) /\ loads \in Seq(Copy) /\ reply \in BOOLEAN
    <3>1. copies = << >> /\ loads = << >>
      BY DEF Init
    <3>2. reply = FALSE
      BY Zenon DEF Init
    <3>3. copies \in Seq(Copy) /\ loads \in Seq(Copy)
      BY <3>1
    <3> QED
      BY <3>2, <3>3, Zenon
  <2>5. memory \in [Buffer -> [Unit -> Param \cup {Nothing}]]
    <3> DEFINE row == [u \in Unit |-> Nothing]
    <3>1. row \in [Unit -> Param \cup {Nothing}]
      OBVIOUS
    <3>2. memory = [b \in Buffer |-> row]
      BY DEF Init
    <3> HIDE DEF row
    <3> QED
      BY <3>1, <3>2
  <2> QED
    BY <2>1, <2>2, <2>3, <2>4, <2>5 DEF Init, TypeOK, Unit
<1>2. SenderInv
  BY DEF Init, SenderInv, Adjacent, Param
<1>3. CopiesInv /\ TurnsInv
  <2>1. /\ Len(copies) = 0 /\ copies = << >> /\ loads = << >>
        /\ sender.first = 1 /\ sender.next = 1
        /\ sender.pc = "pack" /\ ~sender.await /\ receiver.pc = "recv"
        /\ request = Silence /\ ~reply
    BY DEF Init
  <2>2. CopiesInv
    BY <2>1 DEF CopiesInv, Param
  <2>3. TurnsInv
    BY <2>1 DEF TurnsInv, Quiet, Silence, Message
  <2> QED
    BY <2>2, <2>3
<1>4. ReadInv /\ NoTornWeight /\ LoadedInv
  BY DEF Init, ReadInv, NoTornWeight, LoadedInv, Silence, Message, Param
<1> QED
  BY <1>1, <1>2, <1>3, <1>4 DEF StreamInv

\* ... and from then on.
LEMMA StreamInvariant == Spec => []StreamInv
<1>1. StreamInv /\ [Next]_vars => StreamInv'
  BY TypeStep, SenderStep, CopiesStep, TurnsStep, ReadStep, NoTornStep, LoadedStep
  DEF StreamInv
<1> QED
  BY <1>1, StreamInit, PTL DEF Spec

\* The states of the stream have their types, and every offset lies in a buffer.
THEOREM StreamTypes == Spec => []TypeOK
  BY StreamInvariant, PTL DEF StreamInv

\* What holds of the stream is that its weights are intact.
LEMMA StreamIsIntact == StreamInv => IntactWeights
BY DEF StreamInv, LoadedInv, IntactWeights, SuccessIsComplete, UpdateSuccess

\* No tensor of the engine is ever filled from other bytes than its own, for
\* every packing of the tensors into the two buffers and every failure; and a refit
\* that the trainer takes for successful has loaded every tensor.
THEOREM WeightsAreIntact == Spec => []IntactWeights
BY StreamIsIntact, StreamInvariant, PTL

HIDE StreamConstants

USE BroadcastConstants

HostRecord ==
    [pc : {"pack", "unpack", "done", "failed"}, next : 1..(NumTensors + 1),
     buffer : 0..(NumBuffers - 1), unpacked : 0..NumTensors]

\* The k-th packed tensor of rank r, from the one before.
FirstOf(r, k) == IF k = 1 THEN 1 ELSE calls[r][k - 1].last + 1
BufferOf(r, k) == ((IF k = 1 THEN 0 ELSE calls[r][k - 1].buffer) + 1) % NumBuffers

\* What a rank has launched is the list from its beginning, without gaps.
Pieces(r) ==
    /\ \A k \in 1..Len(calls[r]) :
           /\ calls[r][k].first = FirstOf(r, k)
           /\ calls[r][k].last = ProducerCut(calls[r][k].first)
           /\ calls[r][k].buffer = BufferOf(r, k)
    /\ host[r].next = FirstOf(r, Len(calls[r]) + 1)
    /\ NextBuffer(r) = BufferOf(r, Len(calls[r]) + 1)
    /\ Len(calls[r]) < host[r].next
    /\ \A t \in Tensor : t < host[r].next =>
           \E k \in 1..Len(calls[r]) : t \in calls[r][k].first..calls[r][k].last
PiecesInv == \A r \in Rank : Pieces(r)

\* An engine rank unpacks what it has launched before it launches more.
HostInv ==
    \A r \in Rank :
        /\ host[r].pc = "done" => host[r].next > NumTensors
        /\ host[r].pc = "unpack" =>
               r \in EngineRank /\ host[r].unpacked + 1 = Len(calls[r])
        /\ r \in EngineRank /\ host[r].pc \in {"pack", "done"} =>
               host[r].unpacked = Len(calls[r])
        /\ host[r].unpacked <= Len(calls[r])

\* No two broadcasts in flight share a buffer.
FlightInv ==
    /\ \A r \in Rank : landed <= Len(calls[r])
    /\ \A r \in EngineRank : copied[r] <= landed
    /\ \A r \in Rank : \A j, k \in InFlight(r) :
           calls[r][j].buffer = calls[r][k].buffer => j = k

BroadcastTypes ==
    /\ bytes \in [Tensor -> 1..MaxBytes]
    /\ host \in [Rank -> HostRecord]
    /\ calls \in [Rank -> Seq(Call)]
    /\ landed \in 0..NumTensors /\ copied \in [EngineRank -> 0..NumTensors]
    /\ weights \in [EngineRank -> [Tensor -> SUBSET Tensor]]
    /\ errors \in 0..MaxErrors

BroadcastInv == BroadcastTypes /\ PiecesInv /\ HostInv /\ FlightInv /\ CollectivesMatch

LEMMA RanksAreApart ==
    /\ Trainer \subseteq Rank /\ EngineRank \subseteq Rank
    /\ Trainer \cap EngineRank = {} /\ Source \in Rank
<1>1. NumTrainers \in Nat \ {0} /\ NumEngines * RanksPerEngine \in Nat
  <2>1. \A a, b \in Nat : a * b \in Nat
    OBVIOUS
  <2> QED BY <2>1
<1> QED BY <1>1 DEF Trainer, EngineRank, Rank, Source

LEMMA CutIsInRange ==
    ASSUME NEW first \in Tensor PROVE ProducerCut(first) \in first..NumTensors
<1> DEFINE S == {last \in first..NumTensors : last = NumTensors \/ Overfull(first, last)}
<1>1. NumTensors \in S /\ S \subseteq Int
  BY DEF Tensor
<1>2. IsFiniteSet(first..NumTensors)
  BY FS_Interval DEF Tensor
<1>3. IsFiniteSet(S)
  BY <1>2, FS_Subset
<1>4. PICK x \in S : \A y \in S : x <= y
  BY <1>1, <1>3, SmallestExists
<1>5. \A l \in first..(x - 1) : ~Overfull(first, l)
  BY <1>4 DEF Tensor
<1>6. /\ x \in first..NumTensors
      /\ x = NumTensors \/ Overfull(first, x)
  BY <1>4
<1> QED BY <1>5, <1>6, Zenon DEF ProducerCut, Cut

\* Both sides cut alike, as long as the sizes stay.
LEMMA CutsAreAlike == \A first : ConsumerCut(first) = ProducerCut(first)
  BY Zenon DEF ProducerCut, ConsumerCut

LEMMA CutFrame == ASSUME bytes' = bytes, NEW first
                  PROVE  ProducerCut(first)' = ProducerCut(first)
  BY SMT DEF ProducerCut, Cut, Overfull, Bytes, FoldFunctionOnSet, MapThenFoldSet

\* A step that launches nothing on rank r.
LEMMA PiecesFrame ==
    ASSUME NEW r, Pieces(r), bytes' = bytes, calls'[r] = calls[r],
           host'[r].next = host[r].next, host'[r].buffer = host[r].buffer
    PROVE  Pieces(r)'
<1>1. \A first : ProducerCut(first)' = ProducerCut(first)
  BY CutFrame
<1>2. \A k : FirstOf(r, k)' = FirstOf(r, k) /\ BufferOf(r, k)' = BufferOf(r, k)
  BY DEF FirstOf, BufferOf
<1>3. NextBuffer(r)' = NextBuffer(r)
  BY DEF NextBuffer
<1>4. \A k : ProducerCut(calls[r][k].first)' = ProducerCut(calls[r][k].first)
  BY <1>1
<1>5. \A k : (FirstOf(r, k))' = FirstOf(r, k)
  BY <1>2
<1>6. /\ FirstOf(r, Len(calls[r]) + 1)' = FirstOf(r, Len(calls[r]) + 1)
      /\ BufferOf(r, Len(calls[r]) + 1)' = BufferOf(r, Len(calls[r]) + 1)
  BY DEF FirstOf, BufferOf
<1> QED BY <1>2, <1>3, <1>4, <1>6 DEF Pieces

-----------------------------------------------------------------------------
NextCall(r) ==
    [first |-> host[r].next, last |-> ProducerCut(host[r].next), buffer |-> NextBuffer(r)]

\* A turn of either loop.
LEMMA TurnShape ==
    ASSUME BroadcastTypes, NEW r \in Rank,
           \/ r \in Trainer /\ Produce(r)
           \/ r \in EngineRank /\ Consume(r)
    PROVE  /\ host[r].pc = "pack" /\ Synchronized(r)
           /\ UNCHANGED <<bytes, landed, copied, weights, errors>>
           /\ host' \in [Rank -> HostRecord]
           /\ \A q \in Rank \ {r} : host'[q] = host[q]
           /\ host'[r].unpacked = host[r].unpacked
           /\ \/ /\ host[r].next > NumTensors /\ calls' = calls
                 /\ host'[r].pc = "done" /\ host'[r].next = host[r].next
                 /\ host'[r].buffer = host[r].buffer
              \/ /\ host[r].next \in Tensor /\ NextCall(r) \in Call
                 /\ calls' = [calls EXCEPT ![r] = Append(@, NextCall(r))]
                 /\ host'[r].next = NextCall(r).last + 1
                 /\ host'[r].buffer = NextCall(r).buffer
                 /\ \/ r \in Trainer /\ host'[r].pc = "pack"
                    \/ r \in Trainer /\ host'[r].pc = "done" /\ host'[r].next > NumTensors
                    \/ r \in EngineRank /\ host'[r].pc = "unpack"
<1>1. PICK after \in {"pack", "unpack"} :
          /\ Turn(r, ProducerCut, after)
          /\ after = "pack" => r \in Trainer
          /\ after = "unpack" => r \in EngineRank
  <2>1. ASSUME Consume(r) PROVE Turn(r, ProducerCut, "unpack")
    BY <2>1, Zenon, CutsAreAlike DEF Consume, Turn
  <2> QED BY <2>1, Zenon DEF Produce
<1>2. /\ host[r].pc = "pack" /\ Synchronized(r)
      /\ UNCHANGED <<bytes, landed, copied, weights, errors>>
  BY <1>1 DEF Turn
<1>3. host[r] \in HostRecord
  BY DEF BroadcastTypes
<1>4. CASE host[r].next > NumTensors
  <2>1. calls' = calls /\ host' = [host EXCEPT ![r].pc = "done"]
    BY <1>1, <1>4 DEF Turn
  <2>2. host' \in [Rank -> HostRecord]
    BY <1>3, <2>1 DEF BroadcastTypes, HostRecord
  <2> QED BY <1>2, <1>3, <1>4, <2>1, <2>2 DEF BroadcastTypes, HostRecord
<1>5. CASE ~(host[r].next > NumTensors)
  <2>1. host[r].next \in Tensor
    BY <1>3, <1>5 DEF HostRecord, Tensor
  <2>2. NextBuffer(r) \in 0..(NumBuffers - 1)
    BY <1>3 DEF HostRecord, NextBuffer
  <2>3. ProducerCut(host[r].next) \in Tensor
    BY <2>1, CutIsInRange DEF Tensor
  <2>4. NextCall(r) \in Call
    BY <2>1, <2>2, <2>3 DEF NextCall, Call
  <2> DEFINE last == ProducerCut(host[r].next)
             pc == IF after = "pack" /\ EndsWith(host[r].next, last) THEN "done" ELSE after
  <2>5. /\ calls' = [calls EXCEPT ![r] = Append(@, NextCall(r))]
        /\ host' = [host EXCEPT ![r].next = last + 1, ![r].buffer = NextBuffer(r), ![r].pc = pc]
    BY <1>1, <1>5, Zenon DEF Turn, NextCall
  <2>6. pc \in {"pack", "unpack", "done"} /\ last + 1 \in 1..(NumTensors + 1)
    BY <2>3 DEF Tensor
  <2>7. pc = "done" => r \in Trainer /\ last + 1 > NumTensors
    BY <1>1 DEF EndsWith
  <2>8. pc # "done" => pc = after
    OBVIOUS
  <2> HIDE DEF pc, last
  <2>9. host' = [host EXCEPT ![r] = [pc |-> pc, next |-> last + 1, buffer |-> NextBuffer(r),
                                     unpacked |-> host[r].unpacked]]
    <3>1. DOMAIN host = Rank
      BY DEF BroadcastTypes
    <3>2. host[r] = [pc |-> host[r].pc, next |-> host[r].next, buffer |-> host[r].buffer,
                     unpacked |-> host[r].unpacked]
      BY <1>3 DEF HostRecord
    <3> DEFINE a == [host EXCEPT ![r].next = last + 1]
               b == [a EXCEPT ![r].buffer = NextBuffer(r)]
    <3>3. host' = [b EXCEPT ![r].pc = pc]
      BY <2>5
    <3>4. /\ DOMAIN a = Rank /\ \A q \in Rank \ {r} : a[q] = host[q]
          /\ a[r] = [host[r] EXCEPT !.next = last + 1]
      BY <3>1
    <3> HIDE DEF a
    <3>5. /\ DOMAIN b = Rank /\ \A q \in Rank \ {r} : b[q] = host[q]
          /\ b[r] = [a[r] EXCEPT !.buffer = NextBuffer(r)]
      BY <3>4
    <3> HIDE DEF b
    <3>6. /\ \A q \in Rank \ {r} : host'[q] = host[q]
          /\ host'[r] = [b[r] EXCEPT !.pc = pc]
      BY <3>3, <3>5
    <3>7. host'[r] = [pc |-> pc, next |-> last + 1, buffer |-> NextBuffer(r),
                      unpacked |-> host[r].unpacked]
      <4>1. a[r] = [pc |-> host[r].pc, next |-> last + 1, buffer |-> host[r].buffer,
                    unpacked |-> host[r].unpacked]
        BY <3>2, <3>4
      <4>2. b[r] = [pc |-> host[r].pc, next |-> last + 1, buffer |-> NextBuffer(r),
                    unpacked |-> host[r].unpacked]
        BY <3>5, <4>1
      <4> QED BY <3>6, <4>2
    <3> QED BY <3>1, <3>3, <3>5, <3>6, <3>7
  <2>10. host' \in [Rank -> HostRecord]
    BY <1>3, <2>2, <2>6, <2>9 DEF BroadcastTypes, HostRecord
  <2>11. NextCall(r).last = last /\ NextCall(r).buffer = NextBuffer(r)
    BY DEF NextCall, last
  <2> QED
    BY <1>1, <1>2, <2>1, <2>4, <2>5, <2>6, <2>7, <2>8, <2>9, <2>10, <2>11 DEF BroadcastTypes
<1> QED BY <1>4, <1>5
LEMMA TurnStep ==
    ASSUME BroadcastInv, NEW r \in Rank,
           \/ r \in Trainer /\ Produce(r)
           \/ r \in EngineRank /\ Consume(r)
    PROVE  BroadcastInv'
<1> USE DEF BroadcastInv
<1>1. /\ host[r].pc = "pack" /\ Synchronized(r)
      /\ UNCHANGED <<bytes, landed, copied, weights, errors>>
      /\ host' \in [Rank -> HostRecord]
      /\ \A q \in Rank \ {r} : host'[q] = host[q]
      /\ host'[r].unpacked = host[r].unpacked
  BY TurnShape
<1>2. Trainer \subseteq Rank /\ EngineRank \subseteq Rank /\ Trainer \cap EngineRank = {}
  BY RanksAreApart
<1>3. \A first : ProducerCut(first)' = ProducerCut(first)
  BY <1>1, CutFrame
<1>4. /\ calls \in [Rank -> Seq(Call)] /\ host[r] \in HostRecord
      /\ landed \in 0..NumTensors /\ copied \in [EngineRank -> 0..NumTensors]
  BY DEF BroadcastTypes
<1>5. CASE /\ host[r].next > NumTensors /\ calls' = calls
           /\ host'[r].pc = "done" /\ host'[r].next = host[r].next
           /\ host'[r].buffer = host[r].buffer
  <2>1. BroadcastTypes'
    BY <1>1, <1>5 DEF BroadcastTypes
  <2>2. PiecesInv'
    <3> SUFFICES ASSUME NEW q \in Rank PROVE Pieces(q)'
      BY DEF PiecesInv
    <3>1. Pieces(q) /\ calls'[q] = calls[q] /\ host'[q].next = host[q].next
          /\ host'[q].buffer = host[q].buffer /\ bytes' = bytes
      BY <1>1, <1>5 DEF PiecesInv
    <3> QED BY <3>1, PiecesFrame
  <2>3. HostInv'
    BY <1>1, <1>5 DEF HostInv
  <2>4. FlightInv'
    BY <1>1, <1>5 DEF FlightInv, InFlight, Over
  <2>5. CollectivesMatch'
    BY <1>5 DEF CollectivesMatch
  <2> QED BY <2>1, <2>2, <2>3, <2>4, <2>5
<1>6. CASE /\ host[r].next \in Tensor /\ NextCall(r) \in Call
           /\ calls' = [calls EXCEPT ![r] = Append(@, NextCall(r))]
           /\ host'[r].next = NextCall(r).last + 1
           /\ host'[r].buffer = NextCall(r).buffer
           /\ \/ r \in Trainer /\ host'[r].pc = "pack"
              \/ r \in Trainer /\ host'[r].pc = "done" /\ host'[r].next > NumTensors
              \/ r \in EngineRank /\ host'[r].pc = "unpack"
  <2> DEFINE n == Len(calls[r])
  <2>1. /\ n \in Nat /\ Len(calls'[r]) = n + 1
        /\ calls' \in [Rank -> Seq(Call)]
        /\ \A q \in Rank \ {r} : calls'[q] = calls[q]
        /\ \A k \in 1..n : calls'[r][k] = calls[r][k]
        /\ calls'[r][n + 1] = NextCall(r)
    BY <1>4, <1>6
  <2>2. /\ NextCall(r).first = host[r].next
        /\ NextCall(r).last = ProducerCut(host[r].next)
        /\ NextCall(r).buffer = NextBuffer(r)
        /\ NextCall(r).last \in Tensor /\ NextCall(r).last >= host[r].next
    BY <1>6, CutIsInRange DEF NextCall, Call, Tensor
  <2>3. /\ host[r].next = FirstOf(r, n + 1)
        /\ NextBuffer(r) = BufferOf(r, n + 1)
        /\ n < host[r].next /\ n < NumTensors
    BY <1>4, <1>6, <2>1, SMTT(30) DEF PiecesInv, Pieces, HostRecord, Tensor
  <2> HIDE DEF n
  <2>4. \A k \in 1..(n + 1) : FirstOf(r, k)' = FirstOf(r, k) /\ BufferOf(r, k)' = BufferOf(r, k)
    <3> SUFFICES ASSUME NEW k \in 1..(n + 1)
                 PROVE  FirstOf(r, k)' = FirstOf(r, k) /\ BufferOf(r, k)' = BufferOf(r, k)
      OBVIOUS
    <3>1. k # 1 => calls'[r][k - 1] = calls[r][k - 1]
      BY <2>1
    <3> QED BY <3>1 DEF FirstOf, BufferOf
  <2>5. BroadcastTypes'
    BY <1>1, <2>1 DEF BroadcastTypes
  <2>6. ASSUME NEW q \in Rank \ {r} PROVE Pieces(q)'
    <3>1. Pieces(q) /\ calls'[q] = calls[q] /\ host'[q] = host[q] /\ bytes' = bytes
      BY <1>1, <2>1 DEF PiecesInv
    <3> QED BY <3>1, PiecesFrame
  <2>7. \A k \in 1..(n + 1) :
            /\ calls'[r][k].first = FirstOf(r, k)'
            /\ calls'[r][k].last = ProducerCut(calls[r][k].first)'
            /\ calls'[r][k].buffer = BufferOf(r, k)'
    <3> SUFFICES ASSUME NEW k \in 1..(n + 1)
                 PROVE  /\ calls'[r][k].first = FirstOf(r, k)
                        /\ calls'[r][k].last = ProducerCut(calls'[r][k].first)
                        /\ calls'[r][k].buffer = BufferOf(r, k)
      BY <1>3, <2>4
    <3>1. CASE k \in 1..n
      BY <2>1, <3>1 DEF PiecesInv, Pieces, n
    <3>2. CASE k = n + 1
      BY <2>1, <2>2, <2>3, <3>2
    <3> QED BY <2>1, <3>1, <3>2
  <2>8. /\ host'[r].next = FirstOf(r, Len(calls[r]) + 1)'
        /\ NextBuffer(r)' = BufferOf(r, Len(calls[r]) + 1)'
        /\ Len(calls'[r]) < host'[r].next
    <3>1. (n + 1) + 1 # 1 /\ ((n + 1) + 1) - 1 = n + 1
      BY <2>1
    <3> QED BY <1>6, <2>1, <2>2, <2>3, <3>1, SMTT(20) DEF FirstOf, BufferOf, NextBuffer, Tensor
  <2>9. ASSUME NEW t \in Tensor, t < host'[r].next
        PROVE  \E k \in 1..Len(calls'[r]) : t \in calls'[r][k].first..calls'[r][k].last
    <3>1. CASE t < host[r].next
      <4>1. PICK k \in 1..n : t \in calls[r][k].first..calls[r][k].last
        BY <3>1 DEF PiecesInv, Pieces, n
      <4> QED BY <2>1, <4>1
    <3>2. CASE ~(t < host[r].next)
      <4>1. t \in NextCall(r).first..NextCall(r).last
        BY <1>6, <2>2, <2>9, <3>2 DEF Tensor
      <4> QED BY <2>1, <4>1
    <3> QED BY <3>1, <3>2
  <2>10. PiecesInv'
    <3>1. Pieces(r)'
      BY <2>1, <2>7, <2>8, <2>9 DEF Pieces
    <3> QED BY <2>6, <3>1 DEF PiecesInv
  <2>11. HostInv'
    <3> SUFFICES ASSUME NEW q \in Rank
                 PROVE  /\ host'[q].pc = "done" => host'[q].next > NumTensors
                        /\ host'[q].pc = "unpack" => q \in EngineRank /\ host'[q].unpacked + 1 = Len(calls'[q])
                        /\ q \in EngineRank /\ host'[q].pc \in {"pack", "done"} =>
                               host'[q].unpacked = Len(calls'[q])
                        /\ host'[q].unpacked <= Len(calls'[q])
      BY DEF HostInv
    <3>1. CASE q # r
      BY <1>1, <2>1, <3>1 DEF HostInv
    <3>2. CASE q = r
      <4>1. Len(calls'[q]) = n + 1 /\ n = Len(calls[r]) /\ n \in Nat
        BY <2>1, <3>2 DEF n
      <4>2. /\ host[r].unpacked <= n /\ host[r].unpacked \in Nat
            /\ r \in EngineRank => host[r].unpacked = n
            /\ host'[r].unpacked = host[r].unpacked
        BY <1>1, <1>4, <4>1, SMTT(20) DEF HostInv, HostRecord
      <4>3. /\ host'[r].pc = "done" => host'[r].next > NumTensors
            /\ host'[r].pc = "unpack" => r \in EngineRank
            /\ r \in EngineRank => host'[r].pc = "unpack"
        BY <1>2, <1>6
      <4> QED BY <3>2, <4>1, <4>2, <4>3, SMTT(20)
    <3> QED BY <3>1, <3>2
  <2>12. FlightInv'
    <3>1. \A q \in Rank : landed' <= Len(calls'[q])
      <4>1. landed <= n /\ landed \in Nat
        BY <1>4 DEF FlightInv, n
      <4> QED BY <1>1, <2>1, <4>1 DEF FlightInv
    <3>2. \A q \in EngineRank : copied'[q] <= landed'
      BY <1>1 DEF FlightInv
    <3>3. \A q \in Rank : \A k : Over(q, k)' = Over(q, k)
      BY <1>1 DEF Over
    <3>4. \A q \in Rank \ {r} : InFlight(q)' = InFlight(q)
      BY <2>1, <3>3 DEF InFlight
    <3>5. InFlight(r)' \subseteq InFlight(r) \cup {n + 1}
      BY <1>4, <2>1, <3>3 DEF InFlight, n
    <3>6. \A k \in InFlight(r) : k \in 1..n /\ calls[r][k].buffer # NextBuffer(r)
      BY <1>1, <1>4 DEF Synchronized, InFlight, n
    <3>7. ASSUME NEW q \in Rank, NEW j \in InFlight(q)', NEW k \in InFlight(q)',
                 calls'[q][j].buffer = calls'[q][k].buffer
          PROVE  j = k
      <4>1. CASE q # r
        BY <2>1, <3>4, <3>7, <4>1, SMTT(20) DEF FlightInv
      <4>2. CASE q = r
        <5>1. CASE j \in InFlight(r) /\ k \in InFlight(r)
          BY <2>1, <3>6, <3>7, <4>2, <5>1 DEF FlightInv
        <5>2. CASE j = n + 1 \/ k = n + 1
          BY <2>1, <2>2, <3>5, <3>6, <3>7, <4>2, <5>2
        <5> QED BY <3>5, <3>7, <4>2, <5>1, <5>2
      <4> QED BY <4>1, <4>2
    <3> QED BY <3>1, <3>2, <3>7 DEF FlightInv
  <2>13. CollectivesMatch'
    <3>1. ASSUME NEW s \in Rank \ {r}, n + 1 \in DOMAIN calls[s]
          PROVE  calls[s][n + 1] = NextCall(r)
      <4>1. /\ calls[s] \in Seq(Call) /\ n + 1 \in 1..Len(calls[s])
            /\ calls[s][n + 1] \in Call
        BY <1>4, <3>1
      <4>2. /\ calls[s][n + 1].first = FirstOf(s, n + 1)
            /\ calls[s][n + 1].last = ProducerCut(calls[s][n + 1].first)
            /\ calls[s][n + 1].buffer = BufferOf(s, n + 1)
        BY <4>1 DEF PiecesInv, Pieces
      <4>3. n # 0 => calls[s][n] = calls[r][n]
        BY <1>4, <2>1, <4>1 DEF CollectivesMatch, n
      <4>4. FirstOf(s, n + 1) = FirstOf(r, n + 1) /\ BufferOf(s, n + 1) = BufferOf(r, n + 1)
        <5>1. n + 1 # 1 => n # 0 /\ (n + 1) - 1 = n
          BY <2>1, SMTT(20)
        <5> QED BY <4>3, <5>1 DEF FirstOf, BufferOf
      <4>5. \A c, d \in Call :
                c.first = d.first /\ c.last = d.last /\ c.buffer = d.buffer => c = d
        BY DEF Call
      <4>6. /\ calls[s][n + 1].first = NextCall(r).first
            /\ calls[s][n + 1].last = NextCall(r).last
            /\ calls[s][n + 1].buffer = NextCall(r).buffer
        BY <2>2, <2>3, <4>2, <4>4
      <4> QED BY <1>6, <4>1, <4>5, <4>6
    <3>2. ASSUME NEW q \in Rank, NEW s \in Rank, NEW k \in DOMAIN calls'[q] \cap DOMAIN calls'[s]
          PROVE  calls'[q][k] = calls'[s][k]
      <4>1. \A p \in Rank : k \in DOMAIN calls'[p] =>
                \/ k \in DOMAIN calls[p] /\ calls'[p][k] = calls[p][k]
                \/ p = r /\ k = n + 1 /\ calls'[p][k] = NextCall(r)
        <5>1. SUFFICES ASSUME NEW p \in Rank, k \in DOMAIN calls'[p]
                       PROVE  \/ k \in DOMAIN calls[p] /\ calls'[p][k] = calls[p][k]
                              \/ p = r /\ k = n + 1 /\ calls'[p][k] = NextCall(r)
          OBVIOUS
        <5>2. CASE p # r
          BY <2>1, <5>1, <5>2
        <5>3. CASE p = r
          <6>1. DOMAIN calls'[r] = 1..(n + 1) /\ DOMAIN calls[r] = 1..n
            BY <1>4, <2>1 DEF n
          <6> QED BY <2>1, <5>1, <5>3, <6>1
        <5> QED BY <5>2, <5>3
      <4>2. n + 1 \notin DOMAIN calls[r]
        BY <1>4, <2>1 DEF n
      <4> QED BY <3>1, <4>1, <4>2, <3>2 DEF CollectivesMatch
    <3> QED BY <3>2 DEF CollectivesMatch
  <2> QED BY <2>5, <2>10, <2>11, <2>12, <2>13
<1> QED BY <1>5, <1>6, TurnShape
\* Unpacking, an exception: only the rank's Python code moves.
LEMMA HostStep ==
    ASSUME BroadcastInv, NEW r \in Rank,
           UNCHANGED <<bytes, calls, landed, copied, weights>>, errors' \in 0..MaxErrors,
           \/ r \in EngineRank /\ Unpack(r)
           \/ host[r].pc # "done" /\ host' = [host EXCEPT ![r].pc = "failed"]
    PROVE  BroadcastInv'
<1> USE DEF BroadcastInv
<1>1. /\ host \in [Rank -> HostRecord] /\ host[r] \in HostRecord
      /\ calls[r] \in Seq(Call) /\ Len(calls[r]) \in Nat
  BY DEF BroadcastTypes
<1>2. Len(calls[r]) <= NumTensors
  BY <1>1 DEF PiecesInv, Pieces, HostRecord
<1>3. /\ host' \in [Rank -> HostRecord] /\ \A q \in Rank \ {r} : host'[q] = host[q]
      /\ host'[r].next = host[r].next /\ host'[r].buffer = host[r].buffer
      /\ \/ host'[r].pc = "failed" /\ host'[r].unpacked = host[r].unpacked
         \/ /\ r \in EngineRank /\ host[r].pc = "unpack"
            /\ host'[r].unpacked = host[r].unpacked + 1
            /\ host'[r].pc = "pack" \/ (host'[r].pc = "done" /\ host[r].next > NumTensors)
  <2>1. CASE host' = [host EXCEPT ![r].pc = "failed"]
    <3>1. host' = [host EXCEPT ![r] = [host[r] EXCEPT !.pc = "failed"]]
      BY <1>1, <2>1
    <3>2. [host[r] EXCEPT !.pc = "failed"] \in HostRecord
      BY <1>1 DEF HostRecord
    <3> QED BY <1>1, <3>1, <3>2 DEF HostRecord
  <2>2. CASE r \in EngineRank /\ Unpack(r)
    <3> DEFINE call == calls[r][Len(calls[r])]
               pc == IF EndsWith(call.first, call.last) THEN "done" ELSE "pack"
               now == [host[r] EXCEPT !.unpacked = @ + 1, !.pc = pc]
    <3>1. host[r].pc = "unpack" /\ host' = [host EXCEPT ![r].unpacked = @ + 1, ![r].pc = pc]
      BY <2>2 DEF Unpack
    <3>2. host[r].unpacked + 1 = Len(calls[r]) /\ host[r].unpacked \in Nat
      BY <1>1, <3>1 DEF HostInv, HostRecord
    <3>3. pc = "done" => host[r].next > NumTensors
      <4>1. pc = "done" => call.last = NumTensors
        BY DEF EndsWith
      <4>2. host[r].next = call.last + 1
        <5>1. Len(calls[r]) + 1 # 1 /\ (Len(calls[r]) + 1) - 1 = Len(calls[r])
          BY <1>1, <3>2, SMTT(20) DEF HostRecord
        <5> QED BY <5>1 DEF PiecesInv, Pieces, FirstOf
      <4> QED BY <4>1, <4>2
    <3>4. pc \in {"pack", "done"}
      OBVIOUS
    <3> HIDE DEF pc, call
    <3>5. now \in HostRecord
      <4>1. host[r].unpacked + 1 \in 0..NumTensors
        BY <1>1, <1>2, <3>2
      <4>2. pc \in {"pack", "unpack", "done", "failed"}
        BY <3>4
      <4>3. /\ DOMAIN host[r] = {"pc", "next", "buffer", "unpacked"}
            /\ host[r].next \in 1..(NumTensors + 1) /\ host[r].buffer \in 0..(NumBuffers - 1)
        BY <1>1 DEF HostRecord
      <4>4. now = [pc |-> pc, next |-> host[r].next, buffer |-> host[r].buffer,
                   unpacked |-> host[r].unpacked + 1]
        <5>1. host[r] = [pc |-> host[r].pc, next |-> host[r].next, buffer |-> host[r].buffer,
                         unpacked |-> host[r].unpacked]
          BY <1>1 DEF HostRecord
        <5> DEFINE b == [host[r] EXCEPT !.unpacked = @ + 1]
        <5>2. b = [pc |-> host[r].pc, next |-> host[r].next, buffer |-> host[r].buffer,
                   unpacked |-> host[r].unpacked + 1]
          BY <5>1
        <5>3. now = [b EXCEPT !.pc = pc]
          OBVIOUS
        <5> HIDE DEF b, now
        <5> QED BY <5>2, <5>3
      <4> QED BY <4>1, <4>2, <4>3, <4>4 DEF HostRecord
    <3>6. host' = [host EXCEPT ![r] = now]
      <4> DEFINE a == [host EXCEPT ![r].unpacked = @ + 1]
      <4>1. host' = [a EXCEPT ![r].pc = pc]
        BY <3>1
      <4>2. a = [host EXCEPT ![r] = [host[r] EXCEPT !.unpacked = @ + 1]]
        BY <1>1
      <4>3. a[r] = [host[r] EXCEPT !.unpacked = @ + 1] /\ DOMAIN a = Rank
            /\ \A q \in Rank \ {r} : a[q] = host[q]
        BY <1>1, <4>2
      <4> HIDE DEF a
      <4> QED BY <1>1, <4>1, <4>3
    <3>7. now.unpacked = host[r].unpacked + 1 /\ now.pc = pc
          /\ now.next = host[r].next /\ now.buffer = host[r].buffer
      BY <1>1 DEF HostRecord
    <3> HIDE DEF now
    <3> QED BY <1>1, <2>2, <3>1, <3>3, <3>4, <3>5, <3>6, <3>7
  <2> QED BY <2>1, <2>2
<1>4. BroadcastTypes'
  BY <1>3 DEF BroadcastTypes
<1>5. PiecesInv'
  <2> SUFFICES ASSUME NEW q \in Rank PROVE Pieces(q)'
    BY DEF PiecesInv
  <2>1. /\ Pieces(q) /\ bytes' = bytes /\ calls'[q] = calls[q]
        /\ host'[q].next = host[q].next /\ host'[q].buffer = host[q].buffer
    BY <1>3 DEF PiecesInv
  <2> QED BY <2>1, PiecesFrame
<1>6. HostInv'
  <2> SUFFICES ASSUME NEW q \in Rank
               PROVE  /\ host'[q].pc = "done" => host'[q].next > NumTensors
                      /\ host'[q].pc = "unpack" => q \in EngineRank /\ host'[q].unpacked + 1 = Len(calls[q])
                      /\ q \in EngineRank /\ host'[q].pc \in {"pack", "done"} =>
                             host'[q].unpacked = Len(calls[q])
                      /\ host'[q].unpacked <= Len(calls[q])
    BY DEF HostInv
  <2>1. CASE q # r
    BY <1>3, <2>1 DEF HostInv
  <2>2. CASE q = r
    <3>1. /\ host[r].unpacked \in Nat /\ host[r].unpacked <= Len(calls[r])
          /\ host[r].pc = "unpack" => host[r].unpacked < Len(calls[r])
      BY <1>1, SMTT(20) DEF HostInv, HostRecord
    <3>2. host[r].pc = "unpack" => host[r].unpacked + 1 = Len(calls[r])
      BY DEF HostInv
    <3> QED BY <1>1, <1>3, <2>2, <3>1, <3>2
  <2> QED BY <2>1, <2>2
<1>7. FlightInv'
  <2>1. \A q \in Rank : InFlight(q)' = InFlight(q)
    BY DEF InFlight, Over
  <2> QED BY <2>1 DEF FlightInv
<1>8. CollectivesMatch'
  BY DEF CollectivesMatch
<1> QED BY <1>4, <1>5, <1>6, <1>7, <1>8
\* A broadcast is over, or a packed tensor is copied into a model: fewer are in flight.
LEMMA StreamStep ==
    ASSUME BroadcastInv, Streams PROVE BroadcastInv'
<1> USE DEF BroadcastInv
<1>1. /\ UNCHANGED <<bytes, host, calls, errors>>
      /\ \A q \in Rank : calls[q] \in Seq(Call) /\ Len(calls[q]) <= NumTensors
  <2>1. UNCHANGED <<bytes, host, calls, errors>>
    BY DEF Streams, Land, CopyToModel
  <2>2. ASSUME NEW q \in Rank PROVE calls[q] \in Seq(Call) /\ Len(calls[q]) <= NumTensors
    <3>1. calls[q] \in Seq(Call) /\ host[q].next \in 1..(NumTensors + 1)
      BY DEF BroadcastTypes, HostRecord
    <3> QED BY <3>1 DEF PiecesInv, Pieces
  <2> QED BY <2>1, <2>2
<1>2. /\ EngineRank \subseteq Rank /\ Trainer \cap EngineRank = {} /\ Source \in Rank
      /\ Rank = Trainer \cup EngineRank
  BY RanksAreApart DEF Rank
<1>3. /\ landed \in 0..NumTensors /\ copied \in [EngineRank -> 0..NumTensors]
      /\ \A q \in EngineRank : copied[q] <= landed
      /\ \A q \in Rank : landed <= Len(calls[q])
  BY DEF BroadcastTypes, FlightInv
<1>4. /\ landed' \in 0..NumTensors /\ landed <= landed'
      /\ copied' \in [EngineRank -> 0..NumTensors]
      /\ \A q \in EngineRank : copied[q] <= copied'[q] /\ copied'[q] <= landed'
      /\ \A q \in Rank : landed' <= Len(calls[q])
      /\ weights' \in [EngineRank -> [Tensor -> SUBSET Tensor]]
  <2>1. CASE Land
    <3>1. /\ landed' = landed + 1 /\ UNCHANGED <<copied, weights>>
          /\ \A q \in Rank : landed < Len(calls[q])
      BY <2>1 DEF Land
    <3>2. \A q \in Rank : landed' <= Len(calls[q]) /\ landed' <= NumTensors
      BY <1>1, <1>3, <3>1
    <3>3. \A q \in EngineRank : copied[q] \in Nat
      BY <1>3
    <3> QED BY <1>2, <1>3, <3>1, <3>2, <3>3 DEF BroadcastTypes
  <2>2. ASSUME NEW r \in EngineRank, CopyToModel(r)
        PROVE  /\ landed' = landed
               /\ copied' = [copied EXCEPT ![r] = @ + 1] /\ copied[r] < landed
               /\ weights' \in [EngineRank -> [Tensor -> SUBSET Tensor]]
    <3> DEFINE k == copied[r] + 1
               row == [t \in Tensor |->
                   IF t \in calls[r][k].first..calls[r][k].last
                   THEN weights[r][t] \cup ComesFrom(r, k, t) ELSE weights[r][t]]
    <3>1. /\ landed' = landed /\ copied[r] < landed
          /\ copied' = [copied EXCEPT ![r] = @ + 1]
          /\ weights' = [weights EXCEPT ![r] = row]
      BY <2>2 DEF CopyToModel
    <3>2. k \in 1..Len(calls[Source])
      BY <1>1, <1>2, <1>3, <3>1
    <3>3. calls[Source][k] \in Call
      BY <1>1, <1>2, <3>2
    <3>4. calls[Source][k].first..calls[Source][k].last \subseteq Tensor
      BY <3>3 DEF Call, Tensor
    <3>5. \A t : ComesFrom(r, k, t) \subseteq Tensor
      BY <3>4 DEF ComesFrom
    <3>6. weights \in [EngineRank -> [Tensor -> SUBSET Tensor]]
      BY DEF BroadcastTypes
    <3> HIDE DEF k
    <3>7. row \in [Tensor -> SUBSET Tensor]
      <4>1. \A t \in Tensor : weights[r][t] \in SUBSET Tensor
        BY <3>6
      <4> QED BY <3>5, <4>1
    <3> HIDE DEF row
    <3> QED BY <3>1, <3>6, <3>7
  <2>3. ASSUME NEW r \in EngineRank, CopyToModel(r)
        PROVE  /\ copied' \in [EngineRank -> 0..NumTensors]
               /\ \A q \in EngineRank : copied[q] <= copied'[q] /\ copied'[q] <= landed'
    <3>1. copied[r] + 1 \in 0..NumTensors /\ copied[r] + 1 <= landed
      BY <1>3, <2>3, <2>2
    <3>2. copied' \in [EngineRank -> 0..NumTensors]
      BY <1>3, <2>3, <2>2, <3>1
    <3>3. ASSUME NEW q \in EngineRank
          PROVE  copied[q] <= copied'[q] /\ copied'[q] <= landed'
      <4>1. copied[q] \in Nat /\ copied[q] <= landed
        BY <1>3
      <4> QED BY <1>3, <2>3, <2>2, <3>1, <4>1
    <3> QED BY <3>2, <3>3
  <2> QED BY <1>3, <2>1, <2>2, <2>3 DEF Streams
<1>5. BroadcastTypes'
  BY <1>1, <1>4 DEF BroadcastTypes
<1>6. PiecesInv'
  <2> SUFFICES ASSUME NEW q \in Rank PROVE Pieces(q)'
    BY DEF PiecesInv
  <2>1. Pieces(q)
    BY DEF PiecesInv
  <2> QED BY <1>1, <2>1, PiecesFrame
<1>7. HostInv'
  BY <1>1 DEF HostInv
<1>8. FlightInv'
  <2>1. ASSUME NEW q \in Rank PROVE InFlight(q)' \subseteq InFlight(q)
    <3>1. SUFFICES ASSUME NEW k \in DOMAIN calls[q], Over(q, k) PROVE Over(q, k)'
      BY <1>1 DEF InFlight
    <3>2. k \in Nat
      BY <1>1
    <3>3. CASE q \in Trainer
      BY <1>3, <1>4, <3>1, <3>2, <3>3 DEF Over
    <3>4. CASE q \notin Trainer
      <4>1. copied[q] \in Nat /\ copied'[q] \in Nat /\ copied[q] <= copied'[q]
        BY <1>2, <1>3, <1>4, <3>4
      <4> QED BY <3>1, <3>2, <3>4, <4>1 DEF Over
    <3> QED BY <3>3, <3>4
  <2> QED BY <1>1, <1>4, <2>1 DEF FlightInv
<1>9. CollectivesMatch'
  BY <1>1 DEF CollectivesMatch
<1> QED BY <1>5, <1>6, <1>7, <1>8, <1>9

LEMMA BroadcastStep == BroadcastInv /\ BroadcastNext => BroadcastInv'
<1> SUFFICES ASSUME BroadcastInv, BroadcastNext PROVE BroadcastInv'
  OBVIOUS
<1>1. Trainer \subseteq Rank /\ EngineRank \subseteq Rank
  BY RanksAreApart
<1>2. ASSUME NEW r \in Trainer, Produce(r) PROVE BroadcastInv'
  BY <1>1, <1>2, TurnStep
<1>3. ASSUME NEW r \in EngineRank, Consume(r) PROVE BroadcastInv'
  BY <1>1, <1>3, TurnStep
<1>4. ASSUME NEW r \in EngineRank, Unpack(r) PROVE BroadcastInv'
  <2>1. UNCHANGED <<bytes, calls, landed, copied, weights>> /\ errors' \in 0..MaxErrors
    BY <1>4 DEF Unpack, BroadcastInv, BroadcastTypes
  <2> QED BY <1>1, <1>4, <2>1, HostStep
<1>5. ASSUME NEW r \in Rank, Raise(r) PROVE BroadcastInv'
  <2>1. /\ UNCHANGED <<bytes, calls, landed, copied, weights>> /\ errors' \in 0..MaxErrors
        /\ host[r].pc # "done" /\ host' = [host EXCEPT ![r].pc = "failed"]
    BY <1>5 DEF Raise, BroadcastInv, BroadcastTypes
  <2> QED BY <2>1, HostStep
<1> QED
  BY <1>2, <1>3, <1>4, <1>5, StreamStep DEF BroadcastNext, Python

LEMMA BroadcastBegins == BroadcastInit => BroadcastInv
<1> SUFFICES ASSUME BroadcastInit PROVE BroadcastInv
  OBVIOUS
<1>1. /\ \A r \in Rank : /\ host[r] = [pc |-> "pack", next |-> 1, buffer |-> 0, unpacked |-> 0]
                         /\ calls[r] = << >> /\ Len(calls[r]) = 0 /\ DOMAIN calls[r] = {}
      /\ landed = 0 /\ \A r \in EngineRank : copied[r] = 0
  BY DEF BroadcastInit
<1>2. BroadcastTypes
  <2>1. [pc |-> "pack", next |-> 1, buffer |-> 0, unpacked |-> 0] \in HostRecord
    BY DEF HostRecord
  <2>2. host \in [Rank -> HostRecord]
    BY <2>1 DEF BroadcastInit
  <2>3. [t \in Tensor |-> {}] \in [Tensor -> SUBSET Tensor]
    OBVIOUS
  <2>4. weights \in [EngineRank -> [Tensor -> SUBSET Tensor]]
    BY <2>3 DEF BroadcastInit
  <2>5. calls \in [Rank -> Seq(Call)] /\ copied \in [EngineRank -> 0..NumTensors]
    BY DEF BroadcastInit
  <2> QED BY <2>2, <2>4, <2>5 DEF BroadcastInit, BroadcastTypes
<1>3. PiecesInv
  BY <1>1 DEF PiecesInv, Pieces, FirstOf, BufferOf, NextBuffer, Tensor
<1>4. HostInv /\ FlightInv /\ CollectivesMatch
  BY <1>1 DEF HostInv, FlightInv, InFlight, CollectivesMatch
<1> QED BY <1>2, <1>3, <1>4 DEF BroadcastInv

\* One packed tensor per buffer.
LEMMA BroadcastTypesHold == BroadcastInv => BroadcastTypeOK
<1> SUFFICES ASSUME BroadcastInv PROVE BroadcastTypeOK
  OBVIOUS
<1>1. ASSUME NEW r \in Rank PROVE Cardinality(InFlight(r)) <= NumBuffers
  <2> DEFINE S == InFlight(r)
             T == 0..(NumBuffers - 1)
             f == [k \in S |-> calls[r][k].buffer]
  <2>1. calls[r] \in Seq(Call)
    BY DEF BroadcastInv, BroadcastTypes
  <2>2. f \in [S -> T]
    <3>1. \A k \in S : calls[r][k] \in Call
      BY <2>1 DEF InFlight
    <3>2. \A c \in Call : c.buffer \in T
      BY DEF Call
    <3> QED BY <3>1, <3>2
  <2>3. \A j, k \in S : f[j] = f[k] => j = k
    BY DEF BroadcastInv, FlightInv
  <2>4. f \in Injection(S, T)
    BY <2>2, <2>3, Fun_IsInj
  <2>5. IsFiniteSet(T) /\ Cardinality(T) = NumBuffers
    <3>1. 0 \in Int /\ NumBuffers - 1 \in Int /\ NumBuffers \in Nat /\ ~(0 > NumBuffers - 1)
      OBVIOUS
    <3>2. Cardinality(T) = IF 0 > NumBuffers - 1 THEN 0 ELSE (NumBuffers - 1) - 0 + 1
      BY <3>1, FS_Interval
    <3>3. IsFiniteSet(T)
      BY <3>1, FS_Interval
    <3> QED BY <3>1, <3>2, <3>3
  <2> HIDE DEF S, T, f
  <2>6. Cardinality(S) <= Cardinality(T)
    BY <2>4, <2>5, FS_Injection
  <2> QED BY <2>5, <2>6 DEF S
<1> QED BY <1>1 DEF BroadcastInv, BroadcastTypes, HostRecord, BroadcastTypeOK

\* A rank whose loop has ended has launched the copy of every tensor.
LEMMA DoneHasLaunched ==
    ASSUME BroadcastInv, NEW r \in EngineRank, host[r].pc = "done" PROVE Launched(r)
<1>1. r \in Rank
  BY RanksAreApart
<1>2. host[r].unpacked = Len(calls[r]) /\ host[r].next > NumTensors
  BY <1>1 DEF BroadcastInv, HostInv
<1>3. host[r].next \in Nat
  BY <1>1 DEF BroadcastInv, BroadcastTypes, HostRecord
<1>4. \A t \in Tensor : t < host[r].next
  BY <1>2, <1>3 DEF Tensor
<1> QED BY <1>1, <1>2, <1>4 DEF BroadcastInv, PiecesInv, Pieces, Launched
-----------------------------------------------------------------------------
(* Over HTTP. *)

USE HttpConstants

\* The workers on the GPUs of the server of worker r.
Sharing(r) == {q \in PolicyRank : device[q] \in ToSet(servers[ServerOf(r)])}

\* The first worker of a server has posted every tensor before the one it is at.
Posted(r, k) == <<k, Sharing(r)>> \in received[ServerOf(r)]

HttpInv ==
    /\ HttpTypeOK
    /\ \A r \in PolicyRank :
           /\ sends[r].pc # "failed" => ServerOf(r) # 0
           /\ sends[r].pc \in {"gather", "post", "done"} => matching[r] = Sharing(r)
           /\ First(r) /\ ServerOf(r) \in DOMAIN servers =>
                  /\ sends[r].pc \in {"gather", "post"} =>
                         \A k \in 1..(sends[r].tensor - 1) : Posted(r, k)
                  /\ sends[r].pc = "done" => \A k \in 1..NumUpdates : Posted(r, k)

SendRecord ==
    [pc : {"uuids", "gather", "post", "done", "failed"}, tensor : 1..NumUpdates]

LEMMA ServerFrame ==
    ASSUME device' = device, servers' = servers
    PROVE  /\ PolicyRank' = PolicyRank
           /\ \A r : ServerOf(r)' = ServerOf(r) /\ Sharing(r)' = Sharing(r)
<1>1. PolicyRank' = PolicyRank
  BY DEF PolicyRank
<1>2. \A r : ServerOf(r)' = ServerOf(r)
  BY SMT DEF ServerOf, ServersOn, SelectInSeq, Min
<1> QED BY <1>1, <1>2 DEF Sharing

\* What the next tensor is.
LEMMA NextTensorType ==
    ASSUME NEW r, sends[r] \in SendRecord
    PROVE  /\ NextTensor(r) \in SendRecord
           /\ \/ /\ NextTensor(r).pc = "done" /\ sends[r].tensor = NumUpdates
              \/ NextTensor(r).pc = "gather" /\ NextTensor(r).tensor = sends[r].tensor + 1
<1>1. CASE sends[r].tensor = NumUpdates
  BY <1>1 DEF NextTensor, SendRecord
<1>2. CASE sends[r].tensor # NumUpdates
  <2>1. sends[r].tensor + 1 \in 1..NumUpdates
    BY <1>2 DEF SendRecord
  <2> QED BY <1>2, <2>1 DEF NextTensor, SendRecord
<1> QED BY <1>1, <1>2

LEMMA HttpStepKeeps == HttpInv /\ HttpNext => HttpInv'
<1> SUFFICES ASSUME HttpInv, HttpNext PROVE HttpInv'
  OBVIOUS
<1> USE DEF HttpInv
<1>1. UNCHANGED <<device, servers>>
  BY DEF HttpNext, HttpStep, GatherUuids, GatherHandlers, Post, PostFails
<1>2. /\ PolicyRank' = PolicyRank
      /\ \A r : ServerOf(r)' = ServerOf(r) /\ Sharing(r)' = Sharing(r)
  BY <1>1, ServerFrame
<1>3. /\ sends \in [PolicyRank -> SendRecord]
      /\ matching \in [PolicyRank -> SUBSET PolicyRank]
      /\ received \in [DOMAIN servers -> SUBSET ((1..NumUpdates) \X SUBSET PolicyRank)]
      /\ postErrors \in 0..MaxPostErrors
  BY DEF HttpTypeOK, SendRecord
<1>4. CASE GatherUuids
  <2>1. /\ \A r \in PolicyRank : sends[r].pc = "uuids"
        /\ matching' = [r \in PolicyRank |-> Sharing(r)]
        /\ sends' = [r \in PolicyRank |-> [pc |-> "gather", tensor |-> 1]]
        /\ UNCHANGED <<received, postErrors>>
    BY <1>4 DEF GatherUuids, AllAt, Sharing
  <2>2. [pc |-> "gather", tensor |-> 1] \in SendRecord
    BY DEF SendRecord
  <2>3. \A r \in PolicyRank : Sharing(r) \in SUBSET PolicyRank
    BY DEF Sharing
  <2>4. HttpTypeOK'
    BY <1>1, <1>2, <1>3, <2>1, <2>2, <2>3 DEF HttpTypeOK, SendRecord
  <2> QED BY <1>2, <2>1, <2>4
<1>5. CASE GatherHandlers
  <2> DEFINE now(r) == IF First(r) THEN [sends[r] EXCEPT !.pc = "post"] ELSE NextTensor(r)
  <2>1. /\ \A r \in PolicyRank : sends[r].pc = "gather"
        /\ sends' = [r \in PolicyRank |-> now(r)]
        /\ UNCHANGED <<matching, received, postErrors>>
    BY <1>5 DEF GatherHandlers, AllAt
  <2>2. ASSUME NEW r \in PolicyRank
        PROVE  /\ now(r) \in SendRecord
               /\ First(r) => now(r).pc = "post" /\ now(r).tensor = sends[r].tensor
               /\ now(r).pc \in {"post", "gather", "done"}
    <3>1. sends[r] \in SendRecord
      BY <1>3
    <3>2. CASE First(r)
      BY <3>1, <3>2 DEF SendRecord
    <3>3. CASE ~First(r)
      BY <3>1, <3>3, NextTensorType
    <3> QED BY <3>2, <3>3
  <2> HIDE DEF now
  <2>3. HttpTypeOK'
    BY <1>1, <1>2, <1>3, <2>1, <2>2 DEF HttpTypeOK, SendRecord
  <2>4. \A r \in PolicyRank : First(r)' <=> First(r)
    BY <2>1 DEF First
  <2> QED BY <1>1, <1>2, <2>1, <2>2, <2>3, <2>4 DEF Posted
<1>6. ASSUME NEW r \in PolicyRank, Post(r) PROVE HttpInv'
  <2>1. /\ sends[r].pc = "post"
        /\ received' = [received EXCEPT ![ServerOf(r)] = @ \cup {<<sends[r].tensor, matching[r]>>}]
        /\ sends' = [sends EXCEPT ![r] = NextTensor(r)]
        /\ UNCHANGED <<matching, postErrors>>
    BY <1>6 DEF Post
  <2>2. sends[r] \in SendRecord /\ matching[r] \in SUBSET PolicyRank /\ matching[r] = Sharing(r)
    BY <1>3, <2>1
  <2>3. <<sends[r].tensor, matching[r]>> \in (1..NumUpdates) \X SUBSET PolicyRank
    BY <2>2 DEF SendRecord
  <2>4. /\ received' \in [DOMAIN servers -> SUBSET ((1..NumUpdates) \X SUBSET PolicyRank)]
        /\ \A s \in DOMAIN servers : received[s] \subseteq received'[s]
        /\ ServerOf(r) \in DOMAIN servers =>
               <<sends[r].tensor, Sharing(r)>> \in received'[ServerOf(r)]
    <3> DEFINE s == ServerOf(r)
               new == <<sends[r].tensor, matching[r]>>
               T == (1..NumUpdates) \X SUBSET PolicyRank
    <3>1. received' = [received EXCEPT ![s] = @ \cup {new}] /\ new \in T
      BY <2>1, <2>3
    <3>2. received \in [DOMAIN servers -> SUBSET T]
      BY <1>3
    <3> HIDE DEF s, T, new
    <3>3. /\ received' \in [DOMAIN servers -> SUBSET T]
          /\ \A x \in DOMAIN servers : received[x] \subseteq received'[x]
          /\ s \in DOMAIN servers => new \in received'[s]
      BY <3>1, <3>2
    <3> QED BY <2>2, <3>3 DEF s, T, new
  <2>5. /\ sends' \in [PolicyRank -> SendRecord] /\ sends'[r] = NextTensor(r)
        /\ \A q \in PolicyRank \ {r} : sends'[q] = sends[q]
    BY <1>3, <2>1, <2>2, NextTensorType
  <2>6. HttpTypeOK'
    BY <1>1, <1>2, <1>3, <2>1, <2>4, <2>5 DEF HttpTypeOK, SendRecord
  <2>7. \A q \in PolicyRank : First(q)' <=> First(q)
    BY <2>1 DEF First
  <2>8. \A q \in PolicyRank : \A k : ServerOf(q) \in DOMAIN servers /\ Posted(q, k) =>
            Posted(q, k)'
    BY <1>2, <2>4 DEF Posted
  <2>9. ASSUME NEW q \in PolicyRank
        PROVE  /\ sends'[q].pc # "failed" => ServerOf(q) # 0
               /\ sends'[q].pc \in {"gather", "post", "done"} => matching[q] = Sharing(q)
               /\ First(q) /\ ServerOf(q) \in DOMAIN servers =>
                      /\ sends'[q].pc \in {"gather", "post"} =>
                             \A k \in 1..(sends'[q].tensor - 1) : Posted(q, k)'
                      /\ sends'[q].pc = "done" => \A k \in 1..NumUpdates : Posted(q, k)'
    <3>1. CASE q # r
      BY <2>5, <2>8, <3>1
    <3>2. CASE q = r
      <4>1. ServerOf(r) # 0 /\ matching[r] = Sharing(r)
        BY <2>1
      <4>2. ASSUME First(r), ServerOf(r) \in DOMAIN servers
            PROVE  \A k \in 1..sends[r].tensor : Posted(r, k)'
        <5>1. \A k \in 1..(sends[r].tensor - 1) : Posted(r, k)'
          BY <2>1, <2>8, <4>2
        <5>2. \A k : k = sends[r].tensor => Posted(r, k)'
          BY <1>2, <2>4, <4>2 DEF Posted
        <5>3. sends[r].tensor \in Nat
          BY <2>2 DEF SendRecord
        <5>4. \A k \in 1..sends[r].tensor : k \in 1..(sends[r].tensor - 1) \/ k = sends[r].tensor
          BY <5>3
        <5> QED BY <5>1, <5>2, <5>4
      <4>3. sends[r].tensor \in Nat /\ (sends[r].tensor + 1) - 1 = sends[r].tensor
        BY <2>2 DEF SendRecord
      <4> QED BY <2>2, <2>5, <3>2, <4>1, <4>2, <4>3, NextTensorType
    <3> QED BY <3>1, <3>2
  <2> QED BY <1>1, <1>2, <2>1, <2>6, <2>7, <2>9
<1>7. ASSUME NEW r \in PolicyRank, PostFails(r) PROVE HttpInv'
  <2>1. /\ sends' = [sends EXCEPT ![r] = [pc |-> "failed", tensor |-> sends[r].tensor]]
        /\ postErrors' \in 0..MaxPostErrors
        /\ UNCHANGED <<matching, received>>
    BY <1>3, <1>7 DEF PostFails, At
  <2>2. [pc |-> "failed", tensor |-> sends[r].tensor] \in SendRecord
    BY <1>3 DEF SendRecord
  <2>3. /\ sends' \in [PolicyRank -> SendRecord] /\ sends'[r].pc = "failed"
        /\ \A q \in PolicyRank \ {r} : sends'[q] = sends[q]
    BY <1>3, <2>1, <2>2
  <2>4. HttpTypeOK'
    BY <1>1, <1>2, <1>3, <2>1, <2>3 DEF HttpTypeOK, SendRecord
  <2>5. \A q \in PolicyRank : First(q)' <=> First(q)
    BY <2>1 DEF First
  <2> QED BY <1>1, <1>2, <2>1, <2>3, <2>4, <2>5 DEF Posted
<1> QED BY <1>4, <1>5, <1>6, <1>7 DEF HttpNext, HttpStep
\* Each worker begins where it has found its server or not.
LEMMA HttpBegins == HttpInit => HttpInv
<1> SUFFICES ASSUME HttpInit PROVE HttpInv
  OBVIOUS
<1>1. /\ PolicyRank = {} /\ DOMAIN servers = {}
      /\ sends = << >> /\ matching = << >> /\ received = << >> /\ postErrors = 0
  BY DEF HttpInit, PolicyRank
<1>2. /\ sends \in [PolicyRank -> SendRecord] /\ matching \in [PolicyRank -> SUBSET PolicyRank]
      /\ received \in [DOMAIN servers -> SUBSET ((1..NumUpdates) \X SUBSET PolicyRank)]
  BY <1>1
<1>3. HttpTypeOK
  BY <1>1, <1>2 DEF HttpTypeOK, SendRecord
<1> QED BY <1>1, <1>3 DEF HttpInv

LEMMA HttpStarts ==
    ASSUME NEW gpus, NEW gpusOfServers, postErrors \in 0..MaxPostErrors,
           StartHttp(gpus, gpusOfServers)
    PROVE  HttpInv'
<1> DEFINE begin(r) == [pc |-> IF ServersOn(gpus[r], gpusOfServers) = 0 THEN "failed" ELSE "uuids",
                        tensor |-> 1]
<1>1. /\ device' = gpus /\ servers' = gpusOfServers /\ PolicyRank' = DOMAIN gpus
      /\ sends' = [r \in DOMAIN gpus |-> begin(r)]
      /\ matching' = [r \in DOMAIN gpus |-> {}]
      /\ received' = [s \in DOMAIN gpusOfServers |-> {}]
      /\ postErrors' = postErrors
  BY DEF StartHttp, PolicyRank
<1>2. \A r : /\ begin(r) \in SendRecord /\ begin(r).pc \in {"failed", "uuids"}
             /\ begin(r).pc # "failed" => ServersOn(gpus[r], gpusOfServers) # 0
  BY DEF SendRecord
<1>3. \A r : ServerOf(r)' = ServersOn(gpus[r], gpusOfServers)
  BY <1>1 DEF ServerOf
<1> HIDE DEF begin
<1>4. HttpTypeOK'
  BY <1>1, <1>2 DEF HttpTypeOK, SendRecord
<1> QED BY <1>1, <1>2, <1>3, <1>4 DEF HttpInv

\* If the servers are OwnServers, a worker finds the one on its GPU.
LEMMA ServerIsFound ==
    ASSUME OwnServers, NEW s \in DOMAIN servers, NEW r, device[r] \in ToSet(servers[s])
    PROVE  ServerOf(r) = s
<1> DEFINE I == {i \in 1..Len(servers) : device[r] \in ToSet(servers[i])}
<1>1. ServerOf(r) = IF I # {} THEN CHOOSE x \in I : \A y \in I : x <= y ELSE 0
  BY DEF ServerOf, ServersOn, SelectInSeq, Min
<1>2. I = {s}
  BY DEF OwnServers
<1>3. s \in Int /\ s <= s
  BY DEF OwnServers
<1> HIDE DEF I
<1> QED BY <1>1, <1>2, <1>3

\* When all workers are done, every server has every tensor.
LEMMA DoneHasPosted ==
    ASSUME HttpInv, OwnServers, AllAt("done"), NEW s \in DOMAIN servers PROVE Updated(s)
<1> DEFINE S == {q \in PolicyRank : device[q] \in ToSet(servers[s])}
<1>1. S \in SUBSET Int /\ IsFiniteSet(S) /\ S # {}
  <2>1. S \subseteq PolicyRank /\ IsFiniteSet(PolicyRank) /\ PolicyRank \subseteq Int
    BY DEF OwnServers
  <2>2. IsFiniteSet(S)
    BY <2>1, FS_Subset
  <2>3. \E q \in PolicyRank : device[q] \in ToSet(servers[s])
    BY DEF OwnServers
  <2> QED BY <2>1, <2>2, <2>3
<1>2. PICK r \in S : \A q \in S : r <= q
  BY <1>1, SmallestExists
<1>3. /\ r \in PolicyRank /\ device[r] \in ToSet(servers[s]) /\ sends[r].pc = "done"
  BY <1>2 DEF AllAt
<1>4. ServerOf(r) = s
  BY <1>3, ServerIsFound
<1>5. matching[r] = Sharing(r) /\ Sharing(r) = S
  BY <1>3, <1>4 DEF HttpInv, Sharing
<1>6. First(r)
  BY <1>2, <1>5 DEF First
<1>7. \A k \in 1..NumUpdates : <<k, S>> \in received[s]
  BY <1>3, <1>4, <1>5, <1>6 DEF HttpInv, Posted
<1>8. {device[q] : q \in S} = ToSet(servers[s])
  <2>1. \A gpu \in ToSet(servers[s]) : \E q \in PolicyRank : device[q] = gpu
    BY DEF OwnServers
  <2>2. ToSet(servers[s]) \subseteq {device[q] : q \in S}
    BY <2>1
  <2>3. {device[q] : q \in S} \subseteq ToSet(servers[s])
    OBVIOUS
  <2> QED BY <2>2, <2>3
<1>9. S \in SUBSET PolicyRank
  OBVIOUS
<1> HIDE DEF S
<1> QED BY <1>7, <1>8, <1>9 DEF Updated
-----------------------------------------------------------------------------
(* The job. *)

\* Until the trainer prepares a refit nothing has moved; when it goes on, the ranks it
\* has asked are done.
Control ==
    /\ path \in {"none", "ipc", "nccl", "http"}
    /\ stage \in {"launch", "transfer", "returned", "raised", "unexplored"}
    /\ stage = "launch" <=> path = "none"
    /\ path = "none" => Init /\ BroadcastInit /\ HttpInit
    /\ stage = "returned" =>
           /\ path = "ipc" => UpdateSuccess
           /\ path = "nccl" => \A r \in LeadRank : host[r].pc = "done"
           /\ path = "http" => AllAt("done")

TransferInv == StreamInv /\ BroadcastInv /\ HttpInv /\ Control

LEMMA StreamKeeps == StreamInv /\ [Next]_vars => StreamInv'
  BY TypeStep, SenderStep, CopiesStep, TurnsStep, ReadStep, NoTornStep, LoadedStep
  DEF StreamInv

LEMMA BroadcastKeeps == BroadcastInv /\ [BroadcastNext]_broadcastVars => BroadcastInv'
<1>1. ASSUME BroadcastInv, UNCHANGED broadcastVars PROVE BroadcastInv'
  <2> USE <1>1 DEF BroadcastInv, broadcastVars
  <2>1. BroadcastTypes'
    BY DEF BroadcastTypes
  <2>2. PiecesInv'
    <3> SUFFICES ASSUME NEW q \in Rank PROVE Pieces(q)'
      BY DEF PiecesInv
    <3>1. Pieces(q)
      BY DEF PiecesInv
    <3> QED BY <3>1, PiecesFrame
  <2>3. HostInv' /\ CollectivesMatch'
    BY DEF HostInv, CollectivesMatch
  <2>4. FlightInv'
    BY DEF FlightInv, InFlight, Over
  <2> QED BY <2>1, <2>2, <2>3, <2>4
<1> QED BY <1>1, BroadcastStep

LEMMA HttpKeeps == HttpInv /\ [HttpNext]_httpVars => HttpInv'
<1>1. ASSUME HttpInv, UNCHANGED httpVars PROVE HttpInv'
  <2>1. /\ UNCHANGED <<device, servers, sends, matching, received, postErrors>>
        /\ PolicyRank' = PolicyRank
        /\ \A r : ServerOf(r)' = ServerOf(r) /\ Sharing(r)' = Sharing(r)
    BY <1>1, ServerFrame DEF httpVars
  <2>2. HttpTypeOK'
    BY <1>1, <2>1 DEF HttpInv, HttpTypeOK
  <2>3. \A r \in PolicyRank : First(r)' <=> First(r)
    BY <2>1 DEF First
  <2> QED BY <1>1, <2>1, <2>2, <2>3 DEF HttpInv, Posted
<1> QED BY <1>1, HttpStepKeeps

\* What is done stays done.
LEMMA StreamStaysDone == UpdateSuccess /\ [Next]_vars => UpdateSuccess'
  BY DEF UpdateSuccess, Next, vars, Sender, Receiver, Pack, EndGroup, ReceiveAck, SendGroup,
         SendComplete, CopyIn, ReceiveGroup, LoadKey, AckGroup, AckComplete, FinishUpdate,
         CopyOut, SenderRaises, SenderTimesOut, ReceiverRaises, ReceiverTimesOut,
         senderVars, receiverVars

LEMMA HostStaysDone ==
    ASSUME BroadcastInv, [BroadcastNext]_broadcastVars, NEW q \in Rank, host[q].pc = "done"
    PROVE  host'[q].pc = "done"
<1>1. DOMAIN host = Rank
  BY DEF BroadcastInv, BroadcastTypes
<1>2. ASSUME NEW r, host[r].pc # "done",
             \A x \in Rank \ {r} : host'[x] = host[x]
      PROVE  host'[q].pc = "done"
  BY <1>2
<1>3. ASSUME NEW r \in Rank, \/ r \in Trainer /\ Produce(r)
                             \/ r \in EngineRank /\ Consume(r)
      PROVE  host'[q].pc = "done"
  BY <1>2, <1>3, TurnShape DEF BroadcastInv
<1>4. ASSUME NEW r \in EngineRank, Unpack(r) PROVE host'[q].pc = "done"
  BY <1>1, <1>2, <1>4 DEF Unpack
<1>5. ASSUME NEW r \in Rank, Raise(r) PROVE host'[q].pc = "done"
  BY <1>1, <1>2, <1>5 DEF Raise
<1>6. CASE Streams \/ UNCHANGED broadcastVars
  BY <1>6 DEF Streams, Land, CopyToModel, broadcastVars
<1> QED
  BY <1>3, <1>4, <1>5, <1>6, RanksAreApart DEF BroadcastNext, Python

LEMMA HttpStaysDone == AllAt("done") /\ [HttpNext]_httpVars => AllAt("done")'
<1> SUFFICES ASSUME AllAt("done"), [HttpNext]_httpVars PROVE AllAt("done")'
  OBVIOUS
<1>1. \A r \in PolicyRank : sends[r].pc = "done"
  BY DEF AllAt
<1>2. UNCHANGED httpVars
  BY <1>1 DEF HttpNext, HttpStep, GatherUuids, GatherHandlers, AllAt, Post, PostFails
<1> QED BY <1>1, <1>2 DEF httpVars, AllAt, PolicyRank

LEMMA LeadsAreEngines == LeadRank \subseteq EngineRank
<1> SUFFICES ASSUME NEW e \in 0..(NumEngines - 1)
             PROVE  NumTrainers + e * RanksPerEngine \in EngineRank
  BY DEF LeadRank
<1>1. /\ e \in Nat /\ NumEngines \in Nat /\ e + 1 <= NumEngines
      /\ RanksPerEngine \in Nat /\ RanksPerEngine >= 1 /\ NumTrainers \in Nat
  OBVIOUS
<1>2. \A a, b, c \in Nat : a <= b => a * c <= b * c
  OBVIOUS
<1>3. (e + 1) * RanksPerEngine <= NumEngines * RanksPerEngine
  BY <1>1, <1>2
<1>4. (e + 1) * RanksPerEngine = e * RanksPerEngine + RanksPerEngine
  BY <1>1
<1>5. e * RanksPerEngine \in Nat /\ NumEngines * RanksPerEngine \in Nat
  BY <1>1
<1> DEFINE x == e * RanksPerEngine
           y == NumEngines * RanksPerEngine
           z == (e + 1) * RanksPerEngine
<1> HIDE DEF x, y, z
<1>6. x \in Nat /\ y \in Nat /\ z <= y /\ z = x + RanksPerEngine
  BY <1>3, <1>4, <1>5 DEF x, y, z
<1>7. NumTrainers + x \in NumTrainers..((NumTrainers + y) - 1)
  BY <1>1, <1>6
<1> QED BY <1>7 DEF x, y, EngineRank
\* How a step of the job moves the three transfers.
LEMMA TransferStep ==
    ASSUME TransferInv, [RefitNext]_refitVars
    PROVE  /\ Init' \/ StreamInv'
           /\ BroadcastInit' \/ BroadcastInv'
           /\ HttpInv'
           /\ Control'
<1> USE DEF TransferInv
<1>1. ASSUME [Next]_vars, [BroadcastNext]_broadcastVars, [HttpNext]_httpVars
      PROVE  /\ StreamInv' /\ BroadcastInv' /\ HttpInv'
             /\ UpdateSuccess => UpdateSuccess'
             /\ (\A r \in LeadRank : host[r].pc = "done") => \A r \in LeadRank : host'[r].pc = "done"
             /\ AllAt("done") => AllAt("done")'
  <2>1. StreamInv' /\ BroadcastInv' /\ HttpInv'
    BY <1>1, StreamKeeps, BroadcastKeeps, HttpKeeps
  <2>2. ASSUME NEW r \in LeadRank, host[r].pc = "done" PROVE host'[r].pc = "done"
    <3>1. r \in Rank
      BY LeadsAreEngines, RanksAreApart
    <3> QED BY <1>1, <2>2, <3>1, HostStaysDone
  <2> QED BY <1>1, <2>1, <2>2, StreamStaysDone, HttpStaysDone
<1>2. ASSUME UNCHANGED <<vars, broadcastVars, httpVars>>
      PROVE  /\ Init => Init' 
             /\ BroadcastInit => BroadcastInit'
             /\ HttpInit => HttpInit'
  <2>1. Init => Init'
    BY <1>2 DEF Init, vars
  <2>2. BroadcastInit => BroadcastInit'
    BY <1>2 DEF BroadcastInit, broadcastVars
  <2>3. HttpInit => HttpInit'
    BY <1>2 DEF HttpInit, httpVars
  <2> QED BY <2>1, <2>2, <2>3
<1>3. CASE \/ Launching(LaunchNext) \/ UNCHANGED refitVars
  <2>1. UNCHANGED <<vars, broadcastVars, httpVars, path, stage>>
    BY <1>3 DEF Launching, refitVars
  <2> QED BY <1>1, <1>2, <2>1 DEF Control
<1>4. CASE Prepare
  <2>1. /\ stage = "launch" /\ path = "none" /\ path' = Path
        /\ Init /\ BroadcastInit /\ HttpInit
    BY <1>4 DEF Prepare, Control
  <2>2. CASE Path = "ipc" /\ stage' = "transfer" /\ PrepareIPC
    <3>1. Init'
      BY <2>1, <2>2 DEF PrepareIPC, Init
    <3>2. BroadcastInv' /\ HttpInv'
      BY <1>1, <2>2, BroadcastKeeps, HttpKeeps DEF PrepareIPC
    <3> QED BY <2>1, <2>2, <3>1, <3>2 DEF Control
  <2>3. CASE Path = "http" /\ stage' = "transfer" /\ PrepareHTTP
    <3>1. StreamInv' /\ BroadcastInv'
      BY <2>3, StreamKeeps, BroadcastKeeps DEF PrepareHTTP
    <3>2. postErrors \in 0..MaxPostErrors
      BY DEF HttpInv, HttpTypeOK
    <3>3. HttpInv'
      BY <2>3, <3>2, HttpStarts DEF PrepareHTTP
    <3> QED BY <2>1, <2>3, <3>1, <3>3 DEF Control
  <2>4. CASE Path = "nccl" /\ stage' = "transfer" /\ PrepareNCCL
    <3>1. BroadcastInit'
      BY <2>1, <2>4 DEF PrepareNCCL, BroadcastInit
    <3>2. StreamInv' /\ HttpInv'
      BY <2>4, StreamKeeps, HttpKeeps DEF PrepareNCCL
    <3> QED BY <2>1, <2>4, <3>1, <3>2 DEF Control
  <2>5. CASE /\ Path = "nccl" /\ stage' = "unexplored"
             /\ UNCHANGED <<vars, broadcastVars, httpVars>>
    BY <1>1, <2>1, <2>5 DEF Control
  <2> QED BY <1>4, <2>2, <2>3, <2>4, <2>5 DEF Prepare
<1>5. CASE Return
  <2>1. /\ stage = "transfer" /\ TrainersDone /\ ResultsTrue /\ stage' = "returned"
        /\ UNCHANGED <<vars, broadcastVars, httpVars, path>>
    BY <1>5 DEF Return
  <2>2. /\ path = "ipc" => UpdateSuccess
        /\ path = "nccl" => \A r \in LeadRank : host[r].pc = "done"
        /\ path = "http" => AllAt("done")
    BY <2>1 DEF TrainersDone, ResultsTrue, UpdateSuccess
  <2> QED BY <1>1, <2>1, <2>2 DEF Control
<1>6. CASE RaiseError
  BY <1>1, <1>6 DEF RaiseError, Control
<1>7. CASE OverIPC(Next) \/ OverNCCL(BroadcastNext) \/ OverHTTP(HttpNext)
  <2>1. /\ path # "none" /\ UNCHANGED <<path, stage>>
        /\ [Next]_vars /\ [BroadcastNext]_broadcastVars /\ [HttpNext]_httpVars
    BY <1>7 DEF OverIPC, OverNCCL, OverHTTP
  <2> QED BY <1>1, <2>1 DEF Control
<1> QED BY <1>3, <1>4, <1>5, <1>6, <1>7 DEF RefitNext, Trainers

LEMMA TransferInvariant == RefitSpec => []TransferInv
<1>1. RefitInit => Init /\ BroadcastInit /\ HttpInit /\ Control
  <2>1. RefitInit => Init /\ BroadcastInit /\ HttpInit
    BY DEF RefitInit
  <2>2. RefitInit => path = "none" /\ stage = "launch"
    BY DEF RefitInit
  <2> QED BY <2>1, <2>2 DEF Control
<1>2. TransferInv /\ [RefitNext]_refitVars =>
          /\ Init' \/ StreamInv'
          /\ BroadcastInit' \/ BroadcastInv'
          /\ HttpInv'
          /\ Control'
  BY TransferStep
<1>3. TransferInv <=> StreamInv /\ BroadcastInv /\ HttpInv /\ Control
  BY DEF TransferInv
<1> QED
  BY <1>1, <1>2, <1>3, StreamInit, BroadcastBegins, HttpBegins, PTL DEF RefitSpec

\* All ranks launch the same broadcasts in the same order, for every list of tensors, every
\* target size and every number of buffers, although each cuts the list by itself.
THEOREM BroadcastsMatch == RefitSpec => []CollectivesMatch
<1>1. TransferInv => CollectivesMatch
  BY DEF TransferInv, BroadcastInv
<1> QED BY <1>1, TransferInvariant, PTL

\* In the job, too, no tensor of a colocated engine is filled from other bytes than its
\* own, and a stream that succeeds has loaded them all.
THEOREM RefitIsIntact == RefitSpec => []IntactWeights
<1>1. TransferInv => IntactWeights
  BY StreamIsIntact DEF TransferInv
<1> QED BY <1>1, TransferInvariant, PTL
-----------------------------------------------------------------------------
(* Setup. *)

USE LaunchConstants

Name == {"policy", "engine", "teacher", "reward"}
ClusterFields ==
    {"nodes", "gpus", "share", "state", "unified", "spread", "groups", "sorted", "attempts"}
IsAList(x) == x \in Seq({x[i] : i \in DOMAIN x})

\* A cluster has as many placement groups as it needs, or fewer and waits for more.
SoundCluster(c) ==
    /\ DOMAIN c = ClusterFields
    /\ c.nodes \in Nat /\ c.gpus \in Int /\ c.share \in Nat
    /\ c.state \in {"none", "requested", "ready", "removed"}
    /\ c.attempts \in 0..MaxRetries
    /\ IsAList(c.groups) /\ Len(c.groups) <= NumGroups(c)
    /\ c.state \in {"none", "removed"} => c.groups = << >>
    /\ c.state = "requested" => Len(c.groups) < NumGroups(c)

\* Only the policy's own cluster can be left without a node.
ClustersInv ==
    \A name \in DOMAIN clusters :
        /\ SoundCluster(clusters[name])
        /\ name # "train" \/ config.colocated => clusters[name].nodes >= 1

SharesInv ==
    /\ IsFiniteSet(DOMAIN workers)
    /\ \A name \in DOMAIN clusters : Cardinality(GroupsOn(name)) <= clusters[name].share

\* No two threads ask for the groups of one cluster.
ThreadsInv ==
    /\ todo \in [DOMAIN todo -> Seq(Name)]
    /\ DOMAIN outcome = DOMAIN todo
    /\ \A t \in DOMAIN todo : outcome[t] \in {"none", "size", "resources", "bundles"}
    /\ \A t \in DOMAIN todo : \A i \in 1..Len(todo[t]) :
           ClusterOf(todo[t][i]) \in DOMAIN clusters
    /\ \A t, u \in DOMAIN todo : \A i \in 1..Len(todo[t]), j \in 1..Len(todo[u]) :
           ClusterOf(todo[t][i]) = ClusterOf(todo[u][j]) => t = u

\* A thread has given up when it has tried for the last time.
RetriesInv ==
    \A t \in DOMAIN todo : \A i \in 1..Len(todo[t]) :
        clusters[ClusterOf(todo[t][i])].attempts = MaxRetries => outcome[t] # "none"

LaunchInv ==
    /\ config \in Configuration /\ joined \in 1..config.nodes
    /\ launch \in {"constructing", "connecting", "ready", "failed"}
    /\ ClustersInv /\ SharesInv /\ ThreadsInv /\ RetriesInv

LEMMA AskedIsKnown ==
    ASSUME LaunchInv, NEW t \in DOMAIN todo, Running(t)
    PROVE  /\ todo[t] \in Seq(Name) /\ Len(todo[t]) \in Nat \ {0}
           /\ Constructed(t) = todo[t][1] /\ Constructed(t) \in Name
           /\ Asked(t) \in DOMAIN clusters /\ SoundCluster(Of(t))
<1>1. todo[t] \in Seq(Name) /\ todo[t] # << >>
  BY DEF LaunchInv, ThreadsInv, Running
<1>2. Len(todo[t]) \in Nat \ {0} /\ Constructed(t) = todo[t][1] /\ Constructed(t) \in Name
  BY <1>1 DEF Constructed
<1>3. Asked(t) \in DOMAIN clusters
  BY <1>1, <1>2 DEF LaunchInv, ThreadsInv, Asked
<1> QED BY <1>1, <1>2, <1>3 DEF LaunchInv, ClustersInv, Of

\* A cluster that is big enough for its workers has a node.
LEMMA SizedHasNode ==
    ASSUME LaunchInv, NEW t \in DOMAIN todo, Running(t), ~WrongSize(t)
    PROVE  Of(t).nodes >= 1
<1>1. /\ Asked(t) \in DOMAIN clusters /\ SoundCluster(Of(t)) /\ Constructed(t) \in Name
  BY AskedIsKnown
<1>2. CASE Asked(t) # "train" \/ config.colocated
  BY <1>1, <1>2 DEF LaunchInv, ClustersInv, Of
<1>3. CASE Asked(t) = "train" /\ ~config.colocated
  <2>1. Constructed(t) # "engine" /\ Constructed(t) # "reward"
    BY <1>3 DEF Asked, ClusterOf
  <2>2. ~(World(Of(t)) < config.policy)
    BY <2>1 DEF WrongSize
  <2>3. config.policy \in Nat \ {0}
    BY DEF LaunchInv, Configuration
  <2>4. Of(t).nodes \in Nat /\ Of(t).gpus \in Int
    BY <1>1 DEF SoundCluster
  <2>5. Of(t).nodes = 0 => World(Of(t)) = 0
    BY <2>4 DEF World
  <2> QED BY <2>2, <2>3, <2>4, <2>5
<1> QED BY <1>2, <1>3

\* A step that only has to do with one cluster.
LEMMA ClusterStep ==
    ASSUME LaunchInv, NEW n \in DOMAIN clusters,
           UNCHANGED <<config, joined, todo, workers, launch>>,
           DOMAIN clusters' = DOMAIN clusters,
           \A m \in DOMAIN clusters \ {n} : clusters'[m] = clusters[m],
           SoundCluster(clusters'[n]),
           clusters'[n].nodes = clusters[n].nodes, clusters'[n].share = clusters[n].share,
           DOMAIN outcome' = DOMAIN outcome,
           \A t \in DOMAIN todo : \/ outcome'[t] = outcome[t]
                                  \/ outcome'[t] \in {"size", "resources", "bundles"},
           \/ clusters'[n].attempts = clusters[n].attempts
           \/ \A t \in DOMAIN todo : \A i \in 1..Len(todo[t]) :
                  /\ ClusterOf(todo[t][i]) = n /\ clusters'[n].attempts = MaxRetries
                  => outcome'[t] # "none"
    PROVE  LaunchInv'
<1> USE DEF LaunchInv
<1>1. ClustersInv'
  BY DEF ClustersInv
<1>2. SharesInv'
  <2>1. \A m : GroupsOn(m)' = GroupsOn(m)
    BY DEF GroupsOn, ClusterOf
  <2> QED BY <2>1 DEF SharesInv
<1>3. \A x : ClusterOf(x)' = ClusterOf(x)
  BY DEF ClusterOf
<1>4. ThreadsInv'
  BY <1>3, SMTT(20) DEF ThreadsInv
<1>5. RetriesInv'
  <2> SUFFICES ASSUME NEW t \in DOMAIN todo, NEW i \in 1..Len(todo[t]),
                      clusters'[ClusterOf(todo[t][i])].attempts = MaxRetries
               PROVE  outcome'[t] # "none"
    BY <1>3 DEF RetriesInv
  <2>1. ClusterOf(todo[t][i]) \in DOMAIN clusters
    BY DEF ThreadsInv
  <2> QED BY <2>1 DEF RetriesInv
<1> QED BY <1>1, <1>2, <1>4, <1>5
\* Nodes join; setup() goes on.
LEMMA SetupFrame ==
    ASSUME LaunchInv, UNCHANGED <<config, clusters, todo, outcome, workers>>,
           joined' \in 1..config.nodes, launch' \in {"constructing", "connecting", "ready", "failed"}
    PROVE  LaunchInv'
<1> USE DEF LaunchInv
<1>1. \A x : ClusterOf(x)' = ClusterOf(x) /\ GroupsOn(x)' = GroupsOn(x)
  BY DEF ClusterOf, GroupsOn
<1>2. ClustersInv' /\ SharesInv'
  BY <1>1 DEF ClustersInv, SharesInv
<1>3. ThreadsInv' /\ RetriesInv'
  BY <1>1, SMTT(20) DEF ThreadsInv, RetriesInv
<1> QED BY <1>2, <1>3

\* A thread fails.
LEMMA FailStep ==
    ASSUME LaunchInv, NEW t \in DOMAIN todo, Running(t),
           NEW reason \in {"size", "resources", "bundles"},
           UNCHANGED <<config, joined, clusters, todo, workers, launch>>, Fail(t, reason)
    PROVE  LaunchInv'
<1>1. /\ Asked(t) \in DOMAIN clusters /\ SoundCluster(clusters[Asked(t)])
  BY AskedIsKnown DEF Of
<1>2. /\ DOMAIN outcome' = DOMAIN outcome
      /\ \A u \in DOMAIN todo : \/ outcome'[u] = outcome[u]
                                \/ outcome'[u] \in {"size", "resources", "bundles"}
  BY DEF Fail, LaunchInv, ThreadsInv
<1> QED BY <1>1, <1>2, ClusterStep

LEMMA RequestStep ==
    ASSUME LaunchInv, NEW t \in DOMAIN todo, RequestGroups(t) PROVE LaunchInv'
<1> DEFINE n == Asked(t)
           unified == Unified(t)
           spread == Unified(t) /\ config.colocated
<1>1. /\ Running(t) /\ ~WrongSize(t) /\ Of(t).state = "none"
      /\ UNCHANGED <<config, joined, todo, outcome, workers, launch>>
      /\ clusters' = [clusters EXCEPT ![n].state = "requested", ![n].unified = unified,
                          ![n].spread = spread]
  BY DEF RequestGroups
<1>2. n \in DOMAIN clusters /\ SoundCluster(clusters[n]) /\ clusters[n].nodes >= 1
  BY <1>1, AskedIsKnown, SizedHasNode DEF Of
<1>3. clusters[n].groups = << >>
  BY <1>1, <1>2 DEF SoundCluster, Of
<1> DEFINE a == [clusters EXCEPT ![n].state = "requested"]
           b == [a EXCEPT ![n].unified = unified]
<1> HIDE DEF n, unified, spread
<1>4. clusters' = [b EXCEPT ![n].spread = spread]
  BY <1>1
<1>5. /\ DOMAIN a = DOMAIN clusters /\ \A m \in DOMAIN clusters \ {n} : a[m] = clusters[m]
      /\ a[n] = [clusters[n] EXCEPT !.state = "requested"]
  BY <1>2
<1> HIDE DEF a
<1>6. /\ DOMAIN b = DOMAIN clusters /\ \A m \in DOMAIN clusters \ {n} : b[m] = clusters[m]
      /\ b[n] = [a[n] EXCEPT !.unified = unified]
  BY <1>2, <1>5
<1> HIDE DEF b
<1>7. /\ DOMAIN clusters' = DOMAIN clusters
      /\ \A m \in DOMAIN clusters \ {n} : clusters'[m] = clusters[m]
      /\ clusters'[n] = [b[n] EXCEPT !.spread = spread]
  BY <1>2, <1>4, <1>6
<1>8. /\ clusters'[n].nodes = clusters[n].nodes /\ clusters'[n].share = clusters[n].share
      /\ clusters'[n].gpus = clusters[n].gpus /\ clusters'[n].groups = << >>
      /\ clusters'[n].attempts = clusters[n].attempts /\ clusters'[n].state = "requested"
      /\ DOMAIN clusters'[n] = ClusterFields
  BY <1>2, <1>3, <1>5, <1>6, <1>7 DEF SoundCluster, ClusterFields
<1>9. SoundCluster(clusters'[n])
  <2>1. NumGroups(clusters'[n]) >= 1
    BY <1>2, <1>8 DEF NumGroups
  <2>2. IsAList(clusters'[n].groups) /\ Len(clusters'[n].groups) = 0
    BY <1>8 DEF IsAList
  <2>3. NumGroups(clusters'[n]) \in Nat
    BY <1>2, <1>8 DEF NumGroups, SoundCluster
  <2> QED BY <1>2, <1>8, <2>1, <2>2, <2>3 DEF SoundCluster
<1>10. DOMAIN outcome' = DOMAIN outcome /\ \A u \in DOMAIN todo : outcome'[u] = outcome[u]
  BY <1>1
<1>11. UNCHANGED <<config, joined, todo, workers, launch>>
  BY <1>1
<1> QED BY <1>2, <1>7, <1>8, <1>9, <1>10, <1>11, ClusterStep

LEMMA RetryStep ==
    ASSUME LaunchInv, NEW t \in DOMAIN todo, RetryLater(t) PROVE LaunchInv'
<1> DEFINE n == Asked(t)
           now == [clusters[n] EXCEPT !.attempts = @ + 1]
<1>1. /\ Running(t) /\ Of(t) = clusters[n]
      /\ UNCHANGED <<config, joined, todo, workers, launch>>
      /\ clusters' = [clusters EXCEPT ![n].attempts = @ + 1]
      /\ IF clusters[n].attempts + 1 = MaxRetries THEN Fail(t, "resources")
         ELSE UNCHANGED outcome
  BY DEF RetryLater, Of
<1>2. /\ n \in DOMAIN clusters /\ SoundCluster(clusters[n])
      /\ todo[t] \in Seq(Name) /\ Len(todo[t]) \in Nat \ {0} /\ n = ClusterOf(todo[t][1])
  BY <1>1, AskedIsKnown DEF Asked
<1>3. clusters[n].attempts # MaxRetries
  <2>1. RetriesInv /\ outcome[t] = "none"
    BY <1>1 DEF LaunchInv, Running
  <2>2. 1 \in 1..Len(todo[t])
    BY <1>2
  <2>3. clusters[ClusterOf(todo[t][1])].attempts # MaxRetries
    BY <2>1, <2>2 DEF RetriesInv
  <2> QED BY <1>2, <2>3
<1>4. clusters[n].attempts + 1 \in 0..MaxRetries
  BY <1>2, <1>3, SMTT(20) DEF SoundCluster
<1> HIDE DEF n
<1>5. /\ DOMAIN clusters' = DOMAIN clusters
      /\ \A m \in DOMAIN clusters \ {n} : clusters'[m] = clusters[m]
      /\ clusters'[n] = now
  BY <1>1, <1>2
<1>6. /\ now.nodes = clusters[n].nodes /\ now.share = clusters[n].share
      /\ now.gpus = clusters[n].gpus /\ now.groups = clusters[n].groups
      /\ now.state = clusters[n].state /\ now.unified = clusters[n].unified
      /\ now.attempts = clusters[n].attempts + 1 /\ DOMAIN now = ClusterFields
  BY <1>2 DEF SoundCluster, ClusterFields
<1>7. SoundCluster(now)
  <2>1. NumGroups(now) = NumGroups(clusters[n])
    BY <1>6 DEF NumGroups
  <2> HIDE DEF now
  <2> QED BY <1>2, <1>4, <1>6, <2>1 DEF SoundCluster
<1> HIDE DEF now
<1>8. /\ DOMAIN outcome' = DOMAIN outcome
      /\ \A u \in DOMAIN todo : outcome'[u] = outcome[u] \/ outcome'[u] = "resources"
      /\ clusters[n].attempts + 1 = MaxRetries => outcome'[t] = "resources"
  BY <1>1 DEF Fail, LaunchInv, ThreadsInv
<1>9. ASSUME NEW u \in DOMAIN todo, NEW i \in 1..Len(todo[u]), ClusterOf(todo[u][i]) = n,
             clusters'[n].attempts = MaxRetries
      PROVE  outcome'[u] # "none"
  <2>1. u = t
    <3>1. 1 \in 1..Len(todo[t])
      BY <1>2
    <3> QED BY <1>2, <1>9, <3>1 DEF LaunchInv, ThreadsInv
  <2> QED BY <1>5, <1>6, <1>8, <1>9, <2>1
<1>10. /\ SoundCluster(clusters'[n])
       /\ clusters'[n].nodes = clusters[n].nodes /\ clusters'[n].share = clusters[n].share
  BY <1>5, <1>6, <1>7
<1>11. \A u \in DOMAIN todo : \/ outcome'[u] = outcome[u]
                             \/ outcome'[u] \in {"size", "resources", "bundles"}
  BY <1>8
<1>12. UNCHANGED <<config, joined, todo, workers, launch>>
  BY <1>1
<1>13. \A u \in DOMAIN todo : \A i \in 1..Len(todo[u]) :
           ClusterOf(todo[u][i]) = n /\ clusters'[n].attempts = MaxRetries => outcome'[u] # "none"
  BY <1>9
<1> QED BY <1>2, <1>5, <1>8, <1>10, <1>11, <1>12, <1>13, ClusterStep

LEMMA PlaceStep ==
    ASSUME LaunchInv, NEW n \in DOMAIN clusters, PlaceGroup(n) PROVE LaunchInv'
<1> DEFINE c == clusters[n]
<1>1. PICK group :
          LET placed == Append(c.groups, group)
          IN  clusters' = [clusters EXCEPT ![n].groups = placed,
                  ![n].state = IF Len(placed) = NumGroups(c) THEN "ready" ELSE @,
                  ![n].sorted = IF c.unified THEN Sorted(group) ELSE @]
  BY DEF PlaceGroup
<1>2. /\ c.state = "requested" /\ SoundCluster(c)
      /\ UNCHANGED <<config, joined, todo, outcome, workers, launch>>
  BY DEF PlaceGroup, LaunchInv, ClustersInv
<1> DEFINE placed == Append(c.groups, group)
           state == IF Len(placed) = NumGroups(c) THEN "ready" ELSE c.state
           sorted == IF c.unified THEN Sorted(group) ELSE c.sorted
           a == [clusters EXCEPT ![n].groups = placed]
           b == [a EXCEPT ![n].state = IF Len(placed) = NumGroups(c) THEN "ready" ELSE @]
<1> HIDE DEF placed
<1>3. clusters' = [b EXCEPT ![n].sorted = IF c.unified THEN Sorted(group) ELSE @]
  BY <1>1 DEF placed
<1> HIDE DEF sorted
<1>4. /\ DOMAIN a = DOMAIN clusters /\ \A m \in DOMAIN clusters \ {n} : a[m] = clusters[m]
      /\ a[n] = [c EXCEPT !.groups = placed]
  OBVIOUS
<1>5. /\ a[n].state = c.state /\ a[n].sorted = c.sorted /\ a[n].groups = placed
      /\ a[n].attempts = c.attempts /\ a[n].nodes = c.nodes /\ a[n].share = c.share
      /\ a[n].gpus = c.gpus /\ a[n].unified = c.unified /\ DOMAIN a[n] = ClusterFields
  BY <1>2, <1>4 DEF SoundCluster, ClusterFields
<1> HIDE DEF a
<1>6. /\ DOMAIN b = DOMAIN clusters /\ \A m \in DOMAIN clusters \ {n} : b[m] = clusters[m]
      /\ b[n] = [a[n] EXCEPT !.state = state]
  BY <1>4, <1>5
<1> HIDE DEF b
<1>7. /\ DOMAIN clusters' = DOMAIN clusters
      /\ \A m \in DOMAIN clusters \ {n} : clusters'[m] = clusters[m]
      /\ \E x : clusters'[n] = [b[n] EXCEPT !.sorted = x]
  BY <1>3, <1>6
<1> HIDE DEF c, state
<1>8. /\ clusters'[n].nodes = c.nodes /\ clusters'[n].share = c.share
      /\ clusters'[n].gpus = c.gpus /\ clusters'[n].groups = placed
      /\ clusters'[n].attempts = c.attempts /\ clusters'[n].state = state
      /\ clusters'[n].unified = c.unified /\ DOMAIN clusters'[n] = ClusterFields
  BY <1>5, <1>6, <1>7 DEF ClusterFields
<1>9. /\ IsAList(placed) /\ Len(placed) = Len(c.groups) + 1
      /\ Len(c.groups) \in Nat
  <2> DEFINE S == {c.groups[i] : i \in DOMAIN c.groups} \cup {group}
  <2>1. c.groups \in Seq({c.groups[i] : i \in DOMAIN c.groups})
    BY <1>2 DEF SoundCluster, IsAList
  <2>2. c.groups \in Seq(S)
    BY <2>1
  <2>3. /\ placed \in Seq(S) /\ Len(placed) = Len(c.groups) + 1
        /\ Len(c.groups) \in Nat
    BY <2>2 DEF placed
  <2>4. placed \in Seq({placed[i] : i \in DOMAIN placed})
    BY <2>3
  <2> QED BY <2>3, <2>4 DEF IsAList
<1>10. SoundCluster(clusters'[n])
  <2>1. NumGroups(clusters'[n]) = NumGroups(c) /\ NumGroups(c) \in Nat
    BY <1>2, <1>8 DEF NumGroups, SoundCluster
  <2>2. Len(c.groups) < NumGroups(c)
    BY <1>2 DEF SoundCluster
  <2>3. /\ state = "ready" \/ (state = "requested" /\ Len(placed) # NumGroups(c))
        /\ Len(placed) <= NumGroups(c)
    BY <1>2, <1>9, <2>1, <2>2 DEF state
  <2>4. /\ c.nodes \in Nat /\ c.gpus \in Int /\ c.share \in Nat /\ c.attempts \in 0..MaxRetries
    BY <1>2 DEF SoundCluster
  <2>5. state = "requested" => Len(placed) < NumGroups(c)
    BY <1>9, <2>1, <2>3
  <2> QED BY <1>8, <1>9, <2>1, <2>3, <2>4, <2>5 DEF SoundCluster
<1>11. DOMAIN outcome' = DOMAIN outcome /\ \A u \in DOMAIN todo : outcome'[u] = outcome[u]
  BY <1>2
<1>12. UNCHANGED <<config, joined, todo, workers, launch>>
  BY <1>2
<1> QED BY <1>7, <1>8, <1>10, <1>11, <1>12, ClusterStep DEF c
LEMMA GiveUpStep ==
    ASSUME LaunchInv, NEW t \in DOMAIN todo, GiveUp(t) PROVE LaunchInv'
<1> DEFINE n == Asked(t)
           a == [clusters EXCEPT ![n].state = "removed"]
<1>1. /\ Running(t) /\ Of(t).state = "requested" /\ Fail(t, "resources")
      /\ UNCHANGED <<config, joined, todo, workers, launch>>
      /\ clusters' = [a EXCEPT ![n].groups = << >>]
  BY DEF GiveUp
<1>2. n \in DOMAIN clusters /\ SoundCluster(clusters[n])
  BY <1>1, AskedIsKnown DEF Of
<1> HIDE DEF n
<1>3. /\ DOMAIN a = DOMAIN clusters /\ \A m \in DOMAIN clusters \ {n} : a[m] = clusters[m]
      /\ a[n] = [clusters[n] EXCEPT !.state = "removed"]
  BY <1>2
<1> HIDE DEF a
<1>4. /\ DOMAIN clusters' = DOMAIN clusters
      /\ \A m \in DOMAIN clusters \ {n} : clusters'[m] = clusters[m]
      /\ clusters'[n] = [a[n] EXCEPT !.groups = << >>]
  BY <1>1, <1>2, <1>3
<1>5. /\ clusters'[n].nodes = clusters[n].nodes /\ clusters'[n].share = clusters[n].share
      /\ clusters'[n].gpus = clusters[n].gpus /\ clusters'[n].groups = << >>
      /\ clusters'[n].attempts = clusters[n].attempts /\ clusters'[n].state = "removed"
      /\ DOMAIN clusters'[n] = ClusterFields
  BY <1>2, <1>3, <1>4 DEF SoundCluster, ClusterFields
<1>6. SoundCluster(clusters'[n])
  <2>1. NumGroups(clusters'[n]) \in Nat
    BY <1>2, <1>5 DEF NumGroups, SoundCluster
  <2>2. IsAList(clusters'[n].groups) /\ Len(clusters'[n].groups) = 0
    BY <1>5 DEF IsAList
  <2>3. /\ clusters[n].nodes \in Nat /\ clusters[n].gpus \in Int /\ clusters[n].share \in Nat
        /\ clusters[n].attempts \in 0..MaxRetries
    BY <1>2 DEF SoundCluster
  <2> QED BY <1>5, <2>1, <2>2, <2>3 DEF SoundCluster
<1>7. /\ DOMAIN outcome' = DOMAIN outcome
      /\ \A u \in DOMAIN todo : \/ outcome'[u] = outcome[u]
                                \/ outcome'[u] \in {"size", "resources", "bundles"}
  BY <1>1 DEF Fail, LaunchInv, ThreadsInv
<1>8. UNCHANGED <<config, joined, todo, workers, launch>>
  BY <1>1
<1> QED BY <1>2, <1>4, <1>5, <1>6, <1>7, <1>8, ClusterStep

\* One more group of workers on a cluster whose share is not used up.
LEMMA ConstructStep ==
    ASSUME LaunchInv, NEW t \in DOMAIN todo, Construct(t) PROVE LaunchInv'
<1> USE DEF LaunchInv
<1> DEFINE n == Asked(t)
           new == Constructed(t)
<1>1. /\ Running(t) /\ Of(t) = clusters[n]
      /\ Cardinality(GroupsOn(n)) < clusters[n].share
      /\ UNCHANGED <<config, joined, clusters, launch>>
  BY DEF Construct, Of
<1>2. /\ n \in DOMAIN clusters /\ n = ClusterOf(new)
      /\ todo[t] \in Seq(Name) /\ Len(todo[t]) \in Nat \ {0}
  BY <1>1, AskedIsKnown DEF Asked
<1>3. CASE Fail(t, "bundles") /\ UNCHANGED <<todo, workers>>
  BY <1>1, <1>3, FailStep
<1>4. CASE /\ DOMAIN workers' = DOMAIN workers \cup {new}
           /\ todo' = [todo EXCEPT ![t] = Tail(@)] /\ UNCHANGED outcome
  <2> HIDE DEF n, new
  <2>1. \A x : ClusterOf(x)' = ClusterOf(x)
    BY <1>1 DEF ClusterOf
  <2>2. ClustersInv'
    BY <1>1 DEF ClustersInv
  <2>3. SharesInv'
    <3>1. IsFiniteSet(DOMAIN workers')
      BY <1>4, FS_AddElement, ZenonT(20) DEF SharesInv
    <3>2. ASSUME NEW m \in DOMAIN clusters
          PROVE  Cardinality(GroupsOn(m)') <= clusters[m].share
      <4> DEFINE G == GroupsOn(m)
                 H == GroupsOn(m)'
      <4>1. G = {x \in DOMAIN workers : ClusterOf(x) = m}
        BY DEF GroupsOn
      <4>2. H = {x \in DOMAIN workers \cup {new} : ClusterOf(x) = m}
        BY <1>4, <2>1 DEF GroupsOn
      <4>3. IsFiniteSet(G) /\ Cardinality(G) <= clusters[m].share
        <5>1. IsFiniteSet(DOMAIN workers) /\ G \subseteq DOMAIN workers
          BY <4>1 DEF SharesInv
        <5>2. IsFiniteSet(G)
          BY <5>1, FS_Subset
        <5> QED BY <5>2 DEF SharesInv
      <4>4. Cardinality(G) \in Nat /\ clusters[m].share \in Nat
        BY <4>3, FS_CardinalityType DEF ClustersInv, SoundCluster
      <4>5. m = n => Cardinality(G) < clusters[m].share
        BY <1>1
      <4> HIDE DEF G, H
      <4>6. CASE m = n /\ new \notin G
        <5>1. H = G \cup {new}
          BY <1>2, <4>1, <4>2, <4>6
        <5>2. Cardinality(H) = Cardinality(G) + 1
          BY <4>3, <4>6, <5>1, FS_AddElement
        <5> QED BY <4>4, <4>5, <4>6, <5>2 DEF H
      <4>7. CASE ~(m = n /\ new \notin G)
        <5>1. H = G
          BY <1>2, <4>1, <4>2, <4>7
        <5> QED BY <4>3, <5>1 DEF H
      <4> QED BY <4>6, <4>7
    <3> QED BY <1>1, <3>1, <3>2 DEF SharesInv
  <2>4. /\ DOMAIN todo' = DOMAIN todo
        /\ \A u \in DOMAIN todo \ {t} : todo'[u] = todo[u]
        /\ todo'[t] \in Seq(Name) /\ Len(todo'[t]) = Len(todo[t]) - 1
        /\ \A i \in 1..Len(todo'[t]) : i + 1 \in 1..Len(todo[t]) /\ todo'[t][i] = todo[t][i + 1]
    <3>1. todo'[t] = Tail(todo[t]) /\ todo[t] # << >>
      BY <1>2, <1>4
    <3> QED BY <1>2, <1>4, <3>1, SMTT(20)
  <2>5. \A u \in DOMAIN todo : \A i \in 1..Len(todo'[u]) :
            \E j \in 1..Len(todo[u]) : todo'[u][i] = todo[u][j]
    <3> SUFFICES ASSUME NEW u \in DOMAIN todo, NEW i \in 1..Len(todo'[u])
                 PROVE  \E j \in 1..Len(todo[u]) : todo'[u][i] = todo[u][j]
      OBVIOUS
    <3>1. CASE u = t
      BY <2>4, <3>1
    <3>2. CASE u # t
      BY <2>4, <3>2
    <3> QED BY <3>1, <3>2
  <2>6. ThreadsInv'
    <3>1. todo' \in [DOMAIN todo -> Seq(Name)]
      BY <1>4, <2>4 DEF ThreadsInv
    <3>2. \A u \in DOMAIN todo : \A i \in 1..Len(todo'[u]) :
              ClusterOf(todo'[u][i]) \in DOMAIN clusters
      BY <2>5, SMTT(20) DEF ThreadsInv
    <3>3. ASSUME NEW u \in DOMAIN todo, NEW v \in DOMAIN todo,
                 NEW i \in 1..Len(todo'[u]), NEW j \in 1..Len(todo'[v]),
                 ClusterOf(todo'[u][i]) = ClusterOf(todo'[v][j])
          PROVE  u = v
      <4>1. PICK k \in 1..Len(todo[u]) : todo'[u][i] = todo[u][k]
        BY <2>5
      <4>2. PICK l \in 1..Len(todo[v]) : todo'[v][j] = todo[v][l]
        BY <2>5
      <4> QED BY <3>3, <4>1, <4>2 DEF ThreadsInv
    <3>4. /\ DOMAIN outcome' = DOMAIN todo' /\ DOMAIN todo' = DOMAIN todo
          /\ \A u \in DOMAIN todo : outcome'[u] \in {"none", "size", "resources", "bundles"}
      BY <1>4, <2>4 DEF ThreadsInv
    <3>5. \A u \in DOMAIN todo' : \A i \in 1..Len(todo'[u]) :
              ClusterOf(todo[u][i])' \in DOMAIN clusters'
      BY <1>1, <2>1, <3>2, <3>4
    <3>6. \A u, v \in DOMAIN todo' : \A i \in 1..Len(todo'[u]), j \in 1..Len(todo'[v]) :
              ClusterOf(todo[u][i])' = ClusterOf(todo[v][j])' => u = v
      BY <2>1, <3>3, <3>4
    <3>7. todo' \in [DOMAIN todo' -> Seq(Name)]
      BY <3>1, <3>4
    <3> HIDE DEF LaunchInv
    <3> QED BY <3>4, <3>5, <3>6, <3>7 DEF ThreadsInv
  <2>7. RetriesInv'
    <3> SUFFICES ASSUME NEW u \in DOMAIN todo, NEW i \in 1..Len(todo'[u]),
                        clusters[ClusterOf(todo'[u][i])].attempts = MaxRetries
                 PROVE  outcome[u] # "none"
      BY <1>1, <1>4, <2>1, <2>4 DEF RetriesInv
    <3>1. PICK j \in 1..Len(todo[u]) : todo'[u][i] = todo[u][j]
      BY <2>5
    <3> QED BY <3>1 DEF RetriesInv
  <2> QED BY <1>1, <2>2, <2>3, <2>6, <2>7
<1>5. \/ Fail(t, "bundles") /\ UNCHANGED <<todo, workers>>
      \/ /\ DOMAIN workers' = DOMAIN workers \cup {new}
         /\ todo' = [todo EXCEPT ![t] = Tail(@)] /\ UNCHANGED outcome
  BY DEF Construct
<1> QED BY <1>3, <1>4, <1>5

LEMMA LaunchStep == LaunchInv /\ [LaunchNext]_launchVars => LaunchInv'
<1> SUFFICES ASSUME LaunchInv, [LaunchNext]_launchVars PROVE LaunchInv'
  OBVIOUS
<1>0. /\ config.nodes \in Nat /\ joined \in 1..config.nodes
      /\ launch \in {"constructing", "connecting", "ready", "failed"}
  BY DEF LaunchInv, Configuration
<1>1. CASE Join
  <2>1. joined' \in 1..config.nodes /\ UNCHANGED <<config, clusters, todo, outcome, workers, launch>>
    BY <1>0, <1>1 DEF Join
  <2> QED BY <1>0, <2>1, SetupFrame
<1>2. ASSUME NEW t \in DOMAIN todo, RefuseSize(t) PROVE LaunchInv'
  BY <1>2, FailStep DEF RefuseSize
<1>3. CASE Constructs
  <2>1. /\ launch' \in {"failed", "ready", "connecting"}
        /\ UNCHANGED <<config, joined, clusters, todo, outcome, workers>>
    BY <1>3 DEF Constructs
  <2> QED BY <1>0, <2>1, SetupFrame
<1>4. CASE Connect
  <2>1. launch' = "ready" /\ UNCHANGED <<config, joined, clusters, todo, outcome, workers>>
    BY <1>4 DEF Connect
  <2> QED BY <1>0, <2>1, SetupFrame
<1>5. CASE UNCHANGED launchVars
  <2>1. UNCHANGED <<config, joined, clusters, todo, outcome, workers, launch>>
    BY <1>5 DEF launchVars
  <2> QED BY <1>0, <2>1, SetupFrame
<1> QED
  BY <1>1, <1>2, <1>3, <1>4, <1>5, RequestStep, RetryStep, ConstructStep, PlaceStep, GiveUpStep
  DEF LaunchNext, Setup, Ray
LEMMA NewIsSound ==
    \A nodes \in Nat, gpus \in Int, share \in Nat : SoundCluster(NewCluster(nodes, gpus, share))
<1> TAKE nodes \in Nat, gpus \in Int, share \in Nat
<1> DEFINE c == NewCluster(nodes, gpus, share)
<1>1. /\ c.nodes = nodes /\ c.gpus = gpus /\ c.share = share /\ c.state = "none"
      /\ c.unified = FALSE /\ c.groups = << >> /\ c.attempts = 0 /\ DOMAIN c = ClusterFields
  BY DEF NewCluster, ClusterFields
<1> HIDE DEF c
<1>2. IsAList(c.groups) /\ Len(c.groups) = 0
  BY <1>1 DEF IsAList
<1>3. NumGroups(c) = nodes
  BY <1>1 DEF NumGroups
<1>4. SoundCluster(c)
  BY <1>1, <1>2, <1>3 DEF SoundCluster
<1> QED BY <1>4 DEF c

LEMMA LaunchBegins == LaunchInit => LaunchInv
<1> SUFFICES ASSUME LaunchInit PROVE LaunchInv
  OBVIOUS
<1>1. /\ config \in Configuration /\ Accepted(config) /\ joined = 1
      /\ todo = Threads(config) /\ outcome = [t \in DOMAIN todo |-> "none"]
      /\ workers = << >> /\ launch = "constructing"
      /\ clusters = [name \in {ClusterOf(x) : x \in UNION {ToSet(todo[t]) : t \in DOMAIN todo}} |->
             CASE name = "train" -> TrainCluster(config)
               [] name = "inference" -> InferenceCluster(config)
               [] name = "reward" -> NewCluster(1, config.reward, 1)]
  BY DEF LaunchInit
<1>2. /\ config.nodes \in Nat \ {0} /\ config.gpus \in Nat \ {0}
      /\ config.inference \in 1..MaxWorld /\ config.reward \in {0, 1}
      /\ config.colocated \in BOOLEAN
  BY <1>1 DEF Configuration
<1>3. /\ DOMAIN todo \subseteq {"setup", "engine", "reward"}
      /\ "setup" \in DOMAIN todo =>
             todo["setup"] \in {<<"teacher", "engine", "policy">>, <<"engine", "policy">>, <<"policy">>}
      /\ "engine" \in DOMAIN todo =>
             /\ todo["setup"] = <<"policy">> /\ todo["engine"] = <<"engine">>
             /\ ~config.colocated
      /\ "reward" \in DOMAIN todo => todo["reward"] = <<"reward">>
      /\ \E f : todo = [t \in DOMAIN todo |-> f[t]]
  <2> DEFINE apart == config.algorithm # "distillation" /\ ~config.colocated
             inSetup == IF config.algorithm = "distillation" THEN <<"teacher", "engine", "policy">>
                        ELSE IF config.colocated THEN <<"engine", "policy">> ELSE <<"policy">>
             D == {"setup"} \cup {x \in {"engine"} : apart} \cup {x \in {"reward"} : config.reward > 0}
  <2>1. todo = [t \in D |-> IF t = "setup" THEN inSetup ELSE <<t>>]
    BY <1>1 DEF Threads
  <2>2. inSetup \in {<<"teacher", "engine", "policy">>, <<"engine", "policy">>, <<"policy">>}
    OBVIOUS
  <2>3. apart => inSetup = <<"policy">> /\ ~config.colocated
    OBVIOUS
  <2>4. DOMAIN todo = D /\ D \subseteq {"setup", "engine", "reward"} /\ "setup" \in D
        /\ ("engine" \in D => apart)
    BY <2>1
  <2> HIDE DEF D, apart, inSetup
  <2>5. \E f : todo = [t \in DOMAIN todo |-> f[t]]
    <3>1. todo = [t \in DOMAIN todo |-> todo[t]]
      BY <2>1, <2>4
    <3> QED BY <3>1
  <2> QED BY <2>1, <2>2, <2>3, <2>4, <2>5
<1>4. \A t \in DOMAIN todo :
          /\ todo[t] \in Seq(Name)
          /\ \A i \in 1..Len(todo[t]) :
                 /\ ClusterOf(todo[t][i]) \in {"train", "inference", "reward"}
                 /\ ClusterOf(todo[t][i]) = "reward" <=> t = "reward"
                 /\ "engine" \in DOMAIN todo =>
                        (ClusterOf(todo[t][i]) = "inference" <=> t = "engine")
  <2> SUFFICES ASSUME NEW t \in DOMAIN todo
               PROVE  /\ todo[t] \in Seq(Name)
                      /\ \A i \in 1..Len(todo[t]) :
                             /\ ClusterOf(todo[t][i]) \in {"train", "inference", "reward"}
                             /\ ClusterOf(todo[t][i]) = "reward" <=> t = "reward"
                             /\ "engine" \in DOMAIN todo =>
                                    (ClusterOf(todo[t][i]) = "inference" <=> t = "engine")
    OBVIOUS
  <2>1. CASE t = "setup"
    <3>1. ASSUME todo[t] = <<"policy">> PROVE todo[t] \in Seq(Name) /\ Len(todo[t]) = 1 /\ todo[t][1] = "policy"
      BY <3>1 DEF Name
    <3>2. CASE todo[t] = <<"policy">>
      BY <2>1, <3>1, <3>2 DEF ClusterOf
    <3>3. CASE todo[t] = <<"engine", "policy">>
      <4>1. /\ todo[t] \in Seq(Name) /\ Len(todo[t]) = 2
            /\ todo[t][1] = "engine" /\ todo[t][2] = "policy"
        BY <3>3 DEF Name
      <4>2. "engine" \notin DOMAIN todo
        BY <1>3, <2>1, <3>3
      <4> QED BY <2>1, <4>1, <4>2 DEF ClusterOf
    <3>4. CASE todo[t] = <<"teacher", "engine", "policy">>
      <4>1. /\ todo[t] \in Seq(Name) /\ Len(todo[t]) = 3
            /\ todo[t][1] = "teacher" /\ todo[t][2] = "engine" /\ todo[t][3] = "policy"
        BY <3>4 DEF Name
      <4>2. "engine" \notin DOMAIN todo
        BY <1>3, <2>1, <3>4
      <4> QED BY <2>1, <4>1, <4>2 DEF ClusterOf
    <3> QED BY <1>3, <2>1, <3>2, <3>3, <3>4
  <2>2. CASE t = "engine"
    <3>1. todo[t] \in Seq(Name) /\ Len(todo[t]) = 1 /\ todo[t][1] = "engine" /\ ~config.colocated
      <4>1. todo[t] = <<"engine">> /\ ~config.colocated
        BY <1>3, <2>2
      <4>2. <<"engine">> \in Seq(Name)
        BY DEF Name
      <4> QED BY <4>1, <4>2
    <3> QED BY <2>2, <3>1 DEF ClusterOf
  <2>3. CASE t = "reward"
    <3>1. todo[t] \in Seq(Name) /\ Len(todo[t]) = 1 /\ todo[t][1] = "reward"
      <4>1. todo[t] = <<"reward">>
        BY <1>3, <2>3
      <4>2. <<"reward">> \in Seq(Name)
        BY DEF Name
      <4> QED BY <4>1, <4>2
    <3> QED BY <2>3, <3>1 DEF ClusterOf
  <2> QED BY <1>3, <2>1, <2>2, <2>3
<1>5. \A t \in DOMAIN todo : \A i \in 1..Len(todo[t]) :
          ClusterOf(todo[t][i]) \in DOMAIN clusters
  <2> SUFFICES ASSUME NEW t \in DOMAIN todo, NEW i \in 1..Len(todo[t])
               PROVE  ClusterOf(todo[t][i]) \in DOMAIN clusters
    OBVIOUS
  <2>1. i \in DOMAIN todo[t]
    BY <1>4
  <2>2. todo[t][i] \in UNION {ToSet(todo[u]) : u \in DOMAIN todo}
    BY <2>1 DEF ToSet
  <2> QED BY <1>1, <2>2
<1>6. ThreadsInv
  <2>1. ASSUME NEW t \in DOMAIN todo, NEW u \in DOMAIN todo,
               NEW i \in 1..Len(todo[t]), NEW j \in 1..Len(todo[u]),
               ClusterOf(todo[t][i]) = ClusterOf(todo[u][j])
        PROVE  t = u
    <3>1. (t = "reward" <=> u = "reward") /\ ("engine" \in DOMAIN todo => (t = "engine" <=> u = "engine"))
      BY <1>4, <2>1
    <3> QED BY <1>3, <3>1
  <2>2. todo \in [DOMAIN todo -> Seq(Name)]
    BY <1>3, <1>4
  <2> QED BY <1>1, <1>5, <2>1, <2>2 DEF ThreadsInv
<1>7. PolicyNodes(config) \in Nat \ {0} /\ TrainCluster(config).nodes >= 0
  BY <1>1, <1>2, SMTT(20) DEF Accepted, PolicyNodes
<1>8. /\ SoundCluster(TrainCluster(config)) /\ TrainCluster(config).attempts = 0
      /\ config.colocated => TrainCluster(config).nodes >= 1
  <2>1. CASE config.colocated
    <3>1. PICK g \in Int, s \in Nat : TrainCluster(config) = NewCluster(PolicyNodes(config), g, s)
      BY <1>2, <2>1 DEF TrainCluster
    <3>2. /\ SoundCluster(NewCluster(PolicyNodes(config), g, s))
          /\ NewCluster(PolicyNodes(config), g, s).nodes = PolicyNodes(config)
          /\ NewCluster(PolicyNodes(config), g, s).attempts = 0
      <4>1. PolicyNodes(config) \in Nat
        BY <1>7
      <4>2. SoundCluster(NewCluster(PolicyNodes(config), g, s))
        BY <3>1, <4>1, NewIsSound
      <4> QED BY <4>2 DEF NewCluster
    <3>3. PolicyNodes(config) >= 1
      BY <1>7
    <3> QED BY <3>1, <3>2, <3>3
  <2>2. CASE ~config.colocated
    <3>1. PICK n \in Int, g \in Int, s \in Nat : TrainCluster(config) = NewCluster(n, g, s)
      BY <1>2, <1>7, <2>2 DEF TrainCluster
    <3>2. TrainCluster(config).nodes = n
      BY <3>1 DEF NewCluster
    <3>3. n \in Nat
      BY <1>7, <3>2
    <3>4. SoundCluster(NewCluster(n, g, s)) /\ NewCluster(n, g, s).attempts = 0
      <4>1. SoundCluster(NewCluster(n, g, s))
        BY <3>1, <3>3, NewIsSound
      <4> QED BY <4>1 DEF NewCluster
    <3> QED BY <2>2, <3>1, <3>4
  <2> QED BY <2>1, <2>2
<1>9. /\ SoundCluster(InferenceCluster(config)) /\ InferenceCluster(config).attempts = 0
      /\ InferenceCluster(config).nodes >= 1
  <2>1. PICK n \in Nat \ {0}, g \in Int, s \in Nat : InferenceCluster(config) = NewCluster(n, g, s)
    BY <1>2, SMTT(20) DEF InferenceCluster
  <2>2. /\ SoundCluster(NewCluster(n, g, s)) /\ NewCluster(n, g, s).nodes = n
        /\ NewCluster(n, g, s).attempts = 0
    <3>1. n \in Nat
      OBVIOUS
    <3>2. SoundCluster(NewCluster(n, g, s))
      BY <2>1, <3>1, NewIsSound
    <3> QED BY <3>2 DEF NewCluster
  <2>3. n >= 1
    OBVIOUS
  <2> QED BY <2>1, <2>2, <2>3
<1>10. LET c == NewCluster(1, config.reward, 1)
       IN  SoundCluster(c) /\ c.attempts = 0 /\ c.nodes = 1
  <2>1. config.reward \in Int /\ 1 \in Nat
    BY <1>2
  <2>2. /\ SoundCluster(NewCluster(1, config.reward, 1))
        /\ NewCluster(1, config.reward, 1).nodes = 1
        /\ NewCluster(1, config.reward, 1).attempts = 0
    <3>1. SoundCluster(NewCluster(1, config.reward, 1))
      BY <2>1, NewIsSound
    <3> QED BY <3>1 DEF NewCluster
  <2> QED BY <2>2
<1>11. \A name \in DOMAIN clusters :
           /\ name \in {"train", "inference", "reward"}
           /\ SoundCluster(clusters[name]) /\ clusters[name].attempts = 0
           /\ name # "train" \/ config.colocated => clusters[name].nodes >= 1
  <2> SUFFICES ASSUME NEW name \in DOMAIN clusters
               PROVE  /\ name \in {"train", "inference", "reward"}
                      /\ SoundCluster(clusters[name]) /\ clusters[name].attempts = 0
                      /\ name # "train" \/ config.colocated => clusters[name].nodes >= 1
    OBVIOUS
  <2>1. name \in {"train", "inference", "reward"}
    BY <1>1 DEF ClusterOf
  <2>2. clusters[name] = CASE name = "train" -> TrainCluster(config)
                           [] name = "inference" -> InferenceCluster(config)
                           [] name = "reward" -> NewCluster(1, config.reward, 1)
    BY <1>1
  <2> QED BY <1>8, <1>9, <1>10, <2>1, <2>2
<1>12. ClustersInv /\ RetriesInv
  BY <1>5, <1>11 DEF ClustersInv, RetriesInv
<1>13. SharesInv
  <2>1. \A name : GroupsOn(name) = {}
    BY <1>1 DEF GroupsOn
  <2>2. DOMAIN workers = {} /\ IsFiniteSet({}) /\ Cardinality({}) = 0
    BY <1>1, FS_EmptySet
  <2>3. \A name \in DOMAIN clusters : 0 <= clusters[name].share
    BY <1>11 DEF SoundCluster
  <2> QED BY <2>1, <2>2, <2>3 DEF SharesInv
<1> QED BY <1>1, <1>2, <1>6, <1>12, <1>13 DEF LaunchInv

LEMMA LaunchTypesHold == LaunchInv => LaunchTypeOK
  BY DEF LaunchInv, LaunchTypeOK, ClustersInv, SoundCluster, SharesInv, ThreadsInv

\* The clusters matter until the refit is prepared.
LEMMA LaunchInvariant == RefitSpec => [](stage = "launch" => LaunchInv)
<1>1. RefitInit => LaunchInit
  BY DEF RefitInit
<1>2. (stage = "launch" => LaunchInv) /\ [RefitNext]_refitVars => (stage = "launch" => LaunchInv)'
  <2> SUFFICES ASSUME stage = "launch" => LaunchInv, [RefitNext]_refitVars, stage' = "launch"
               PROVE  LaunchInv'
    OBVIOUS
  <2>1. stage = "launch" /\ [LaunchNext]_launchVars
    BY DEF RefitNext, refitVars, Launching, Trainers, Prepare, Return, RaiseError,
           OverIPC, OverNCCL, OverHTTP
  <2> QED BY <2>1, LaunchStep
<1> QED BY <1>1, <1>2, LaunchBegins, PTL DEF RefitSpec

\* The states of the job have their types.  A cluster never has more placement groups than
\* it needs nor more groups of workers than its share, its groups are asked for MaxRetries
\* times at most, and a rank has at most one packed tensor per buffer in flight.
THEOREM RefitTypes == RefitSpec => []RefitTypeOK
<1>1. TransferInv /\ (stage = "launch" => LaunchInv) => RefitTypeOK
  BY LaunchTypesHold, BroadcastTypesHold
  DEF TransferInv, StreamInv, HttpInv, Control, RefitTypeOK
<1> QED BY <1>1, TransferInvariant, LaunchInvariant, PTL
-----------------------------------------------------------------------------
(* The layout. *)

HIDE BroadcastConstants
HIDE HttpConstants
HIDE LaunchConstants

-----------------------------------------------------------------------------

(* Lists of GPUs. *)

\* GPUs by node and number.
Gpu == Nat \X Nat

\* Where the slices of a list have their elements from.
SlicesOf(ws, list, e) ==
    \A k \in 1..Len(ws) : \A i \in 1..e :
        (k - 1) * e + i \in 1..Len(list) /\ ws[k][i] = list[(k - 1) * e + i]

\* A list cut into slices of one size.
LEMMA SlicesAreTied ==
    ASSUME NEW S, NEW e, e \in Nat \ {0}, NEW list, Distinct(list, S)
    PROVE  /\ Tied(Slices(list, e), S, e) /\ SlicesOf(Slices(list, e), list, e)
           /\ Len(Slices(list, e)) = Len(list) \div e
<1> DEFINE n == Len(list) \div e
           ws == Slices(list, e)
           at(k, i) == (k - 1) * e + i
<1>1. list \in Seq(S) /\ Len(list) \in Nat
  BY DEF Distinct
<1>2. n \in Nat /\ n * e <= Len(list)
  <2> DEFINE q == Len(list) \div e
             r == Len(list) % e
  <2>1. q \in Nat /\ r \in 0..(e - 1) /\ Len(list) = e * q + r
    BY <1>1, Division
  <2> HIDE DEF q, r
  <2>2. Len(list) = q * e + r
    BY <2>1
  <2> QED BY <2>1, <2>2 DEF q
<1>3. ASSUME NEW k \in 1..n, NEW i \in 1..e
      PROVE  at(k, i) \in 1..Len(list) /\ (k - 1) * e + 1 \in 1..Len(list) /\ k * e \in 1..Len(list)
  <2>1. k * e <= n * e
    BY <1>2, Order
  <2>2. (k - 1) * e \in Nat /\ k * e = (k - 1) * e + e
    BY <1>2
  <2> QED BY <1>1, <1>2, <2>1, <2>2
<1>4. ws = [k \in 1..n |-> SubSeq(list, (k - 1) * e + 1, k * e)]
  BY DEF Slices
<1>5. ASSUME NEW k \in 1..n
      PROVE  ws[k] \in Seq(S) /\ Len(ws[k]) = e /\ \A i \in 1..e : ws[k][i] = list[at(k, i)]
  <2>1. (k - 1) * e \in Nat /\ k * e = (k - 1) * e + e
    BY <1>2
  <2>2. 1 \in 1..e
    OBVIOUS
  <2>3. (k - 1) * e + 1 \in 1..Len(list) /\ k * e \in 1..Len(list)
    BY <1>3, <2>2
  <2> DEFINE f == (k - 1) * e + 1
             l == k * e
  <2>4. f \in 1..Len(list) /\ l \in 1..Len(list) /\ l - f + 1 = e /\ \A i \in 1..e : f + i - 1 = at(k, i)
    BY <2>1, <2>3
  <2>5. ws[k] = SubSeq(list, f, l)
    BY <1>4
  <2> HIDE DEF f, l, ws, at
  <2>6. /\ SubSeq(list, f, l) \in Seq(S) /\ Len(SubSeq(list, f, l)) = l - f + 1
        /\ \A i \in 1..(l - f + 1) : SubSeq(list, f, l)[i] = list[f + i - 1]
    BY <1>1, <2>4, SubSeqProperties
  <2> QED BY <2>4, <2>5, <2>6
<1>6. ws \in Seq(Seq(S)) /\ Len(ws) = n
  <2>1. DOMAIN ws = 1..n /\ \A k \in 1..n : ws[k] \in Seq(S)
    BY <1>4, <1>5
  <2>2. ws \in [1..n -> Seq(S)]
    BY <1>4, <2>1
  <2> HIDE DEF ws, n
  <2> QED BY <1>2, <2>2
<1> HIDE DEF ws
<1>7. Apart(ws, n)
  <2> SUFFICES ASSUME NEW k \in 1..n, NEW l \in 1..n, NEW i \in 1..e, NEW j \in 1..e,
                      ws[k][i] = ws[l][j]
               PROVE  k = l /\ i = j
    BY <1>5 DEF Apart
  <2>n. ws[k][i] = list[at(k, i)] /\ ws[l][j] = list[at(l, j)]
    BY <1>5
  <2>m. at(k, i) \in 1..Len(list) /\ at(l, j) \in 1..Len(list)
    BY <1>3
  <2>1. at(k, i) = at(l, j)
    <3> HIDE DEF at, n
    <3> QED BY <2>n, <2>m DEF Distinct
  <2>2. k - 1 \in Nat /\ l - 1 \in Nat /\ i - 1 \in 0..(e - 1) /\ j - 1 \in 0..(e - 1)
    BY <1>2
  <2>3. e * (k - 1) + (i - 1) = e * (l - 1) + (j - 1)
    BY <2>1, <2>2
  <2> DEFINE a == k - 1
             b == l - 1
             c == i - 1
             d == j - 1
  <2> HIDE DEF a, b, c, d
  <2>4. (e * a + c) \div e = a /\ (e * a + c) % e = c /\ (e * b + d) \div e = b /\ (e * b + d) % e = d
    BY <2>2, Quotient DEF a, b, c, d
  <2>5. a = b /\ c = d
    BY <2>3, <2>4 DEF a, b, c, d
  <2> QED BY <2>5 DEF a, b, c, d
<1>8. \A k \in 1..n : Len(ws[k]) = e
  BY <1>5
<1> HIDE DEF n
<1>9. SlicesOf(ws, list, e)
  BY <1>3, <1>5, <1>6 DEF SlicesOf
<1> QED BY <1>6, <1>7, <1>8, <1>9 DEF Tied, ws, n

\* Sorted by node and GPU, a list of GPUs keeps its elements.
LEMMA SortedKeeps ==
    ASSUME NEW G, G \in Nat \ {0}, NEW group, Distinct(group, Nat \X (0..(G - 1)))
    PROVE  /\ Distinct(Sorted(group), Nat \X (0..(G - 1)))
           /\ ToSet(Sorted(group)) = ToSet(group) /\ Len(Sorted(group)) = Len(group)
<1> DEFINE S == ToSet(group)
           n == Len(group)
           Elem == Nat \X (0..(G - 1))
           key == [x \in S |-> G * x[1] + x[2]]
           sorted == Sorted(group)
<1>1. IsFiniteSet(S) /\ Cardinality(S) = n /\ S \subseteq Elem
  BY DistinctCounts
<1>2. n \in Nat /\ DOMAIN group = 1..n
  BY DEF Distinct
<1>3. \A x \in S : x[1] \in Nat /\ x[2] \in 0..(G - 1) /\ x = <<x[1], x[2]>>
  BY <1>1
<1>4. key \in [S -> Int]
  BY <1>3
<1>5. ASSUME NEW x \in S, NEW y \in S PROVE (Before(x, y) <=> key[x] < key[y]) /\ (key[x] = key[y] => x = y)
  <2> DEFINE a == x[1]
             b == y[1]
             c == x[2]
             d == y[2]
  <2>1. a \in Nat /\ b \in Nat /\ c \in 0..(G - 1) /\ d \in 0..(G - 1)
    BY <1>3
  <2>2. x = <<a, c>> /\ y = <<b, d>>
    BY <1>3
  <2>3. key[x] = G * a + c /\ key[y] = G * b + d
    OBVIOUS
  <2>4. Before(x, y) <=> a < b \/ (a = b /\ c < d)
    BY DEF Before
  <2> HIDE DEF a, b, c, d, key
  <2>5. ASSUME NEW q \in Nat, NEW r \in Nat, q < r PROVE G * q + G <= G * r
    <3>1. (q + 1) * G <= r * G
      BY <2>5, Order
    <3>2. (q + 1) * G = G * q + G /\ r * G = G * r
      OBVIOUS
    <3> QED BY <3>1, <3>2
  <2>6. G * a \in Nat /\ G * b \in Nat
    BY <2>1
  <2>7. CASE a < b
    BY <2>1, <2>2, <2>3, <2>4, <2>5, <2>6, <2>7
  <2>8. CASE b < a
    BY <2>1, <2>2, <2>3, <2>4, <2>5, <2>6, <2>8
  <2>9. CASE a = b
    BY <2>1, <2>2, <2>3, <2>4, <2>6, <2>9
  <2> QED BY <2>1, <2>7, <2>8, <2>9
<1> DEFINE r == Ranking(S, key)
           Under(gpu) == {x \in S : Before(x, gpu)}
<1>6. r \in Bijection(S, 0..(n - 1))
  <2>1. \A x, y \in S : key[x] = key[y] => x = y
    BY <1>5
  <2> HIDE DEF key, S
  <2> QED BY <1>1, <1>4, <2>1, RankIsBijection
<1>7. \A gpu \in S : Cardinality(Under(gpu)) = r[gpu]
  <2> SUFFICES ASSUME NEW gpu \in S PROVE Cardinality(Under(gpu)) = r[gpu]
    OBVIOUS
  <2>1. Under(gpu) = Below(S, key, gpu)
    BY <1>5 DEF Below
  <2>2. r[gpu] = Cardinality(Below(S, key, gpu))
    BY DEF Ranking
  <2> QED BY <2>1, <2>2
<1>8. sorted = [k \in 1..n |-> CHOOSE gpu \in S : Cardinality(Under(gpu)) = k - 1]
  BY <1>2 DEF Sorted
<1> HIDE DEF sorted, Under, key, S
<1>9. r \in [S -> 0..(n - 1)] /\ (\A x, y \in S : r[x] = r[y] => x = y)
      /\ \A m \in 0..(n - 1) : \E x \in S : r[x] = m
  BY <1>6 DEF Bijection, Injection, Surjection, IsInjective
<1> HIDE DEF r
<1>10. ASSUME NEW k \in 1..n PROVE sorted[k] \in S /\ r[sorted[k]] = k - 1
  <2>1. k - 1 \in 0..(n - 1)
    BY <1>2
  <2>2. \E gpu \in S : Cardinality(Under(gpu)) = k - 1
    BY <1>7, <1>9, <2>1
  <2>3. sorted[k] = CHOOSE gpu \in S : Cardinality(Under(gpu)) = k - 1
    BY <1>8
  <2>4. sorted[k] \in S /\ Cardinality(Under(sorted[k])) = k - 1
    BY <2>2, <2>3
  <2> QED BY <1>7, <2>4
<1>11. DOMAIN sorted = 1..n /\ sorted \in [1..n -> S]
  BY <1>8, <1>10
<1>12. sorted \in Seq(Elem) /\ Len(sorted) = n
  BY <1>1, <1>2, <1>11
<1>13. \A k, l \in 1..n : sorted[k] = sorted[l] => k = l
  <2> SUFFICES ASSUME NEW k \in 1..n, NEW l \in 1..n, sorted[k] = sorted[l] PROVE k = l
    OBVIOUS
  <2>1. r[sorted[k]] = k - 1 /\ r[sorted[l]] = l - 1
    BY <1>10
  <2> QED BY <2>1
<1>14. ASSUME NEW x \in S PROVE \E k \in 1..n : sorted[k] = x
  <2>1. r[x] \in 0..(n - 1)
    BY <1>9
  <2>2. r[x] + 1 \in 1..n
    BY <1>2, <2>1
  <2>3. sorted[r[x] + 1] \in S /\ r[sorted[r[x] + 1]] = r[x]
    BY <1>10, <2>1, <2>2
  <2> QED BY <1>9, <2>2, <2>3
<1>15. ToSet(sorted) = S
  BY <1>10, <1>11, <1>14 DEF ToSet
<1> QED BY <1>12, <1>13, <1>15 DEF Distinct, sorted, S

\* So it does when it is taken node by node.
LEMMA NodeByNodeKeeps ==
    ASSUME config.nodes \in Nat, NEW R, NEW group, Distinct(group, (1..config.nodes) \X R)
    PROVE  /\ Distinct(NodeByNode(group), (1..config.nodes) \X R)
           /\ ToSet(NodeByNode(group)) = ToSet(group)
<1> DEFINE N == config.nodes
           Elem == (1..N) \X R
           n == Len(group)
           Only(m) == [k \in 1..n |-> IF NodeOf(group[k]) = m THEN <<group[k]>> ELSE << >>]
           Of1(m) == FlattenSeq(Only(m))
           pieces == [m \in 1..N |-> Of1(m)]
<1>1. n \in Nat /\ DOMAIN group = 1..n /\ group \in [1..n -> Elem]
      /\ \A k, l \in 1..n : group[k] = group[l] => k = l
  BY DEF Distinct
<1>2. NodeByNode(group) = FlattenSeq(pieces)
  BY <1>1 DEF NodeByNode, Those
<1> HIDE DEF n
<1>3. ASSUME NEW m \in 1..N
      PROVE  /\ Distinct(Of1(m), Elem)
             /\ \A p \in 1..Len(Of1(m)) : \E k \in 1..n : Of1(m)[p] = group[k] /\ NodeOf(group[k]) = m
             /\ \A k \in 1..n : NodeOf(group[k]) = m => \E p \in 1..Len(Of1(m)) : Of1(m)[p] = group[k]
  <2> DEFINE only == Only(m)
  <2>1. \A k \in 1..n : /\ only[k] \in Seq(Elem)
                        /\ \A i \in 1..Len(only[k]) : only[k][i] = group[k] /\ NodeOf(group[k]) = m /\ i = 1
                        /\ NodeOf(group[k]) = m => Len(only[k]) = 1 /\ only[k][1] = group[k]
    <3> SUFFICES ASSUME NEW k \in 1..n
                 PROVE  /\ only[k] \in Seq(Elem)
                        /\ \A i \in 1..Len(only[k]) : only[k][i] = group[k] /\ NodeOf(group[k]) = m /\ i = 1
                        /\ NodeOf(group[k]) = m => Len(only[k]) = 1 /\ only[k][1] = group[k]
      OBVIOUS
    <3>1. group[k] \in Elem
      BY <1>1
    <3>2. only[k] = IF NodeOf(group[k]) = m THEN <<group[k]>> ELSE << >>
      OBVIOUS
    <3> HIDE DEF only, Elem
    <3>3. CASE NodeOf(group[k]) = m
      BY <3>1, <3>2, <3>3
    <3>4. CASE NodeOf(group[k]) # m
      BY <3>1, <3>2, <3>4
    <3> QED BY <3>3, <3>4
  <2>2. only \in [1..n -> Seq(Elem)]
    BY <2>1
  <2> HIDE DEF only, Elem
  <2>3. Apart(only, n)
    BY <1>1, <2>1 DEF Apart
  <2>4. Distinct(FlattenSeq(only), Elem) /\ AllOf(FlattenSeq(only), only, n)
    BY <1>1, <2>2, <2>3, ApartFlattens
  <2> DEFINE flat == FlattenSeq(only)
  <2>5. Of1(m) = flat
    BY DEF only
  <2> HIDE DEF flat, Of1
  <2>6. \A p \in 1..Len(flat) : \E k \in 1..n : flat[p] = group[k] /\ NodeOf(group[k]) = m
    BY <2>1, <2>4 DEF AllOf, flat
  <2>7. \A k \in 1..n : NodeOf(group[k]) = m => \E p \in 1..Len(flat) : flat[p] = group[k]
    <3> SUFFICES ASSUME NEW k \in 1..n, NodeOf(group[k]) = m
                 PROVE  \E p \in 1..Len(flat) : flat[p] = group[k]
      OBVIOUS
    <3>1. 1 \in 1..Len(only[k]) /\ only[k][1] = group[k]
      BY <2>1
    <3>2. PICK p \in 1..Len(flat) : flat[p] = only[k][1]
      BY <2>4, <3>1 DEF AllOf, flat
    <3> QED BY <3>1, <3>2
  <2> QED BY <2>4, <2>5, <2>6, <2>7 DEF flat
<1> HIDE DEF Elem, Of1
<1>4. pieces \in [1..N -> Seq(Elem)] /\ \A m \in 1..N : pieces[m] = Of1(m)
  BY <1>3 DEF Distinct
<1> HIDE DEF pieces
<1>5. Apart(pieces, N)
  <2> SUFFICES ASSUME NEW k \in 1..N, NEW l \in 1..N, NEW i \in 1..Len(pieces[k]),
                      NEW j \in 1..Len(pieces[l]), pieces[k][i] = pieces[l][j]
               PROVE  k = l /\ i = j
    BY DEF Apart
  <2>1. NodeOf(pieces[k][i]) = k /\ NodeOf(pieces[l][j]) = l
    BY <1>3, <1>4
  <2>2. k = l
    BY <2>1
  <2> QED BY <1>3, <1>4, <2>2 DEF Distinct
<1> DEFINE flat == FlattenSeq(pieces)
<1>6. Distinct(flat, Elem) /\ AllOf(flat, pieces, N)
  BY <1>4, <1>5, ApartFlattens
<1> HIDE DEF flat
<1>7. DOMAIN flat = 1..Len(flat)
  BY <1>6 DEF Distinct
<1>8. ToSet(flat) \subseteq ToSet(group)
  <2> SUFFICES ASSUME NEW p \in 1..Len(flat) PROVE \E k \in 1..n : flat[p] = group[k]
    BY <1>1, <1>7 DEF ToSet
  <2>1. PICK m \in 1..N : \E i \in 1..Len(pieces[m]) : flat[p] = pieces[m][i]
    BY <1>6 DEF AllOf
  <2> QED BY <1>3, <1>4, <2>1
<1>9. ToSet(group) \subseteq ToSet(flat)
  <2> SUFFICES ASSUME NEW k \in 1..n PROVE \E p \in 1..Len(flat) : flat[p] = group[k]
    BY <1>1, <1>7 DEF ToSet
  <2> DEFINE m == NodeOf(group[k])
  <2>1. m \in 1..N
    BY <1>1 DEF NodeOf, Elem
  <2> HIDE DEF m
  <2>2. PICK i \in 1..Len(pieces[m]) : pieces[m][i] = group[k]
    <3>1. NodeOf(group[k]) = m /\ pieces[m] = Of1(m)
      BY <1>4, <2>1 DEF m
    <3>2. \E p \in 1..Len(Of1(m)) : Of1(m)[p] = group[k]
      BY <1>3, <2>1, <3>1
    <3> QED BY <3>1, <3>2
  <2> QED BY <1>6, <2>1, <2>2 DEF AllOf
<1> QED BY <1>2, <1>6, <1>8, <1>9 DEF flat, Elem

\* Where setup() puts a cluster.
Plan(name) == CASE name = "train" -> TrainCluster(config)
                [] name = "inference" -> InferenceCluster(config)
                [] name = "reward" -> NewCluster(1, config.reward, 1)

\* The GPUs of the nodes of a job.
Places == (1..config.nodes) \X (0..(config.gpus - 1))

\* The clusters that are there, and how big they are.
PlanInv ==
    /\ Accepted(config)
    /\ DOMAIN clusters \subseteq {"train", "inference", "reward"}
    /\ "inference" \in DOMAIN clusters => ~config.colocated
    /\ "reward" \in DOMAIN clusters => config.reward = 1
    /\ \A n \in DOMAIN clusters :
           LET c == clusters[n]
           IN  /\ c.nodes = Plan(n).nodes /\ c.gpus = Plan(n).gpus
               /\ c.unified \in BOOLEAN /\ c.spread = (c.unified /\ config.colocated)
               /\ c.unified => /\ n # "reward" /\ c.nodes >= 2 /\ c.gpus = config.gpus
                               /\ config.engine > config.gpus /\ config.backend = "vllm"

\* The placement groups of a cluster have the GPUs it asked for, and all of them once.
Grouped(c) ==
    /\ Tied(c.groups, Places, Bundles(c))
    /\ c.state = "ready" => Len(c.groups) = NumGroups(c)
    /\ IF c.unified /\ c.groups # << >> THEN c.sorted = Sorted(c.groups[1]) ELSE c.sorted = << >>

\* Other clusters have other GPUs.
AsunderInv ==
    \A n, m \in DOMAIN clusters :
        \A k \in 1..Len(clusters[n].groups), l \in 1..Len(clusters[m].groups) :
            \A i \in 1..Len(clusters[n].groups[k]), j \in 1..Len(clusters[m].groups[l]) :
                clusters[n].groups[k][i] = clusters[m].groups[l][j] => n = m

\* Groups on one node, and on whole nodes.
OnOneNode(group) == \A i, j \in 1..Len(group) : NodeOf(group[i]) = NodeOf(group[j])
WholeNodes(group) ==
    \A i \in 1..Len(group) : \A d \in 0..(config.gpus - 1) :
        \E j \in 1..Len(group) : group[j] = <<NodeOf(group[i]), d>>

\* Policy and engine have nodes of their own.
NodeWise == config.nodes >= 2 /\ (config.colocated \/ PolicyNodes(config) >= 2)

\* Where the groups of a cluster are on.
NodesInv ==
    \A n \in DOMAIN clusters : \A k \in 1..Len(clusters[n].groups) :
        /\ ~clusters[n].unified => OnOneNode(clusters[n].groups[k])
        /\ NodeWise /\ n # "reward" /\ ~clusters[n].spread => WholeNodes(clusters[n].groups[k])

\* All of this.
PlacesInv == PlanInv /\ (\A n \in DOMAIN clusters : Grouped(clusters[n])) /\ AsunderInv /\ NodesInv

\* The workers of a group are on the bundles of its cluster.
WorkersInv ==
    \A x \in DOMAIN workers :
        /\ x \in Name /\ ClusterOf(x) \in DOMAIN clusters /\ clusters[ClusterOf(x)].state = "ready"
        /\ workers[x] = WorkersOf(x, clusters[ClusterOf(x)])
        /\ ~Unallocated(x, clusters[ClusterOf(x)])
        /\ x = "engine" /\ config.backend = "vllm" =>
               World(clusters[ClusterOf(x)]) % config.engine = 0

\* Policy and engine are constructed before setup() goes on.
ConstructedInv ==
    /\ \A x \in {"policy", "engine"} :
           x \in DOMAIN workers \/ \E t \in Awaited : \E i \in 1..Len(todo[t]) : todo[t][i] = x
    /\ launch \in {"connecting", "ready"} => \A t \in Awaited : todo[t] = << >>
    /\ launch = "connecting" => ~config.colocated

\* All that setup() keeps to.
LayoutInv == LaunchInv /\ PlacesInv /\ WorkersInv /\ ConstructedInv

-----------------------------------------------------------------------------

(* The plan. *)

\* What a cluster is planned with.
Planned(n, c) == c.nodes = Plan(n).nodes /\ c.gpus = Plan(n).gpus

\* Configurations are made of numbers.
LEMMA ConfigTypes ==
    ASSUME config \in Configuration
    PROVE  /\ config.nodes \in Nat \ {0} /\ config.gpus \in Nat \ {0} /\ config.engine \in Nat \ {0}
           /\ config.policy \in Nat \ {0} /\ config.inference \in 1..MaxWorld
           /\ config.reward \in {0, 1} /\ config.colocated \in BOOLEAN
           /\ config.backend \in {"vllm", "sglang"} /\ config.algorithm \in {"grpo", "distillation"}
<1>1. /\ config.nodes \in NodeCounts /\ config.gpus \in GpuCounts /\ config.engine \in EngineSizes
      /\ config.policy \in PolicySizes
  BY DEF Configuration
<1>2. NodeCounts \subseteq Nat \ {0} /\ GpuCounts \subseteq Nat \ {0}
      /\ EngineSizes \subseteq Nat \ {0} /\ PolicySizes \subseteq Nat \ {0}
  BY LaunchConstants
<1> QED BY <1>1, <1>2 DEF Configuration

\* With several nodes for policy and engine, both take whole ones.
LEMMA PlanIs ==
    ASSUME config \in Configuration, Accepted(config), NEW n \in {"train", "inference", "reward"},
           n = "inference" => ~config.colocated, n = "reward" => config.reward = 1
    PROVE  /\ Plan(n).nodes \in Nat /\ Plan(n).gpus \in 1..config.gpus
           /\ Plan(n).nodes <= config.nodes
           /\ config.nodes = 1 => Plan(n).nodes = 1
           /\ n = "reward" => Plan(n).nodes = 1 /\ Plan(n).gpus = 1
           /\ NodeWise /\ n # "reward" => Plan(n).gpus = config.gpus
           /\ ~NodeWise => Plan(n).nodes = 1
           /\ ~NodeWise /\ config.nodes >= 2 /\ n # "reward" =>
                  config.nodes = 2 /\ Plan(n).gpus <= config.gpus - 1
           /\ Plan(n).nodes >= 2 => NodeWise
           /\ config.nodes = 1 /\ config.reward = 0 /\ config.colocated => Plan("train").gpus = config.gpus
<1>1. /\ config.nodes \in Nat \ {0} /\ config.gpus \in Nat \ {0}
      /\ config.inference \in 1..MaxWorld /\ config.reward \in {0, 1} /\ config.colocated \in BOOLEAN
  BY ConfigTypes
<1>2. /\ PolicyNodes(config) > 0 /\ TrainCluster(config).gpus > 0 /\ TrainCluster(config).nodes >= 0
      /\ config.colocated => config.inference = 1
  BY DEF Accepted
<1>3. \A a, b, s : NewCluster(a, b, s).nodes = a /\ NewCluster(a, b, s).gpus = b
  BY DEF NewCluster
<1>4. /\ PolicyNodes(config) \in Nat \ {0}
      /\ config.nodes = 1 => PolicyNodes(config) = 1
      /\ config.nodes # 1 => PolicyNodes(config) = config.nodes - config.reward
  BY <1>1, <1>2 DEF PolicyNodes
<1> DEFINE P == PolicyNodes(config)
           here == IF config.nodes = 1 THEN config.reward ELSE 0
<1>5. /\ TrainCluster(config).nodes = IF config.colocated THEN P ELSE IF P = 1 THEN 1 ELSE P - config.inference
      /\ TrainCluster(config).gpus = IF config.colocated THEN config.gpus - here
                                     ELSE IF P = 1 THEN config.gpus - config.inference - here
                                     ELSE config.gpus
  BY <1>3 DEF TrainCluster
<1>6. /\ InferenceCluster(config).nodes = IF P = 1 THEN 1 ELSE config.inference
      /\ InferenceCluster(config).gpus = IF P = 1 THEN config.inference ELSE config.gpus
  BY <1>3 DEF InferenceCluster
<1>7. NewCluster(1, config.reward, 1).nodes = 1 /\ NewCluster(1, config.reward, 1).gpus = config.reward
  BY <1>3
<1> HIDE DEF P
<1>8. MaxWorld \in Nat
  BY LaunchConstants
<1>9. CASE n = "train"
  <2>1. Plan(n) = TrainCluster(config)
    BY <1>9 DEF Plan
  <2> QED BY <1>1, <1>2, <1>4, <1>5, <1>8, <1>9, <2>1, SMTT(30) DEF NodeWise, Plan, P
<1>10. CASE n = "inference"
  <2>1. Plan(n) = InferenceCluster(config) /\ ~config.colocated /\ Plan("train") = TrainCluster(config)
    BY <1>10 DEF Plan
  <2> QED BY <1>1, <1>2, <1>4, <1>5, <1>6, <1>8, <1>10, <2>1, SMTT(30) DEF NodeWise, P
<1>11. CASE n = "reward"
  <2>1. Plan(n) = NewCluster(1, config.reward, 1) /\ config.reward = 1
        /\ Plan("train") = TrainCluster(config)
    BY <1>11 DEF Plan
  <2> QED BY <1>1, <1>2, <1>4, <1>5, <1>7, <1>11, <2>1, SMTT(30) DEF NodeWise, P
<1> QED BY <1>9, <1>10, <1>11
-----------------------------------------------------------------------------

(* What Ray chooses. *)

\* The GPUs of one node are numbered.
Devices == 0..(config.gpus - 1)

\* There are so many of them, and so many GPUs at all.
LEMMA BoxIsFinite ==
    ASSUME config \in Configuration, joined \in 1..config.nodes
    PROVE  /\ IsFiniteSet(Devices) /\ Cardinality(Devices) = config.gpus
           /\ IsFiniteSet(1..joined) /\ 1..joined \subseteq 1..config.nodes
           /\ IsFiniteSet(Free) /\ Free \subseteq (1..joined) \X Devices
           /\ Free \subseteq Places
<1>1. config.nodes \in Nat \ {0} /\ config.gpus \in Nat \ {0} /\ joined \in Nat \ {0}
  BY ConfigTypes
<1>2. IsFiniteSet(Devices) /\ Cardinality(Devices) = config.gpus
  <2>1. 0 \in Int /\ config.gpus - 1 \in Int /\ ~(0 > config.gpus - 1)
    BY <1>1
  <2>2. Cardinality(Devices) = (config.gpus - 1) - 0 + 1 /\ IsFiniteSet(Devices)
    BY <2>1, FS_Interval DEF Devices
  <2> QED BY <1>1, <2>2
<1>3. IsFiniteSet(1..joined) /\ 1..joined \subseteq 1..config.nodes
  BY <1>1, FS_Interval
<1>4. IsFiniteSet((1..joined) \X Devices)
  BY <1>2, <1>3, FS_Product
<1>5. Free \subseteq (1..joined) \X Devices
  BY DEF Free, Devices
<1>6. IsFiniteSet(Free)
  BY <1>4, <1>5, FS_Subset
<1>7. (1..joined) \X Devices \subseteq Places
  BY <1>3 DEF Places, Devices
<1> QED BY <1>2, <1>3, <1>5, <1>6, <1>7

\* A placement group has the bundles that were asked for, on GPUs that are free.
LEMMA PlacementIs ==
    ASSUME config \in Configuration, joined \in 1..config.nodes,
           NEW cluster, Bundles(cluster) \in Nat, NEW group \in Placements(cluster)
    PROVE  /\ Distinct(group, Places) /\ Len(group) = Bundles(cluster)
           /\ ToSet(group) \subseteq Free
           /\ ~cluster.spread => Packed(ToSet(group))
<1>1. PICK chosen \in kSubset(Bundles(cluster), Free) :
          /\ IF cluster.spread THEN Spread(chosen) ELSE Packed(chosen)
          /\ group \in SetToSeqs(chosen)
  BY DEF Placements
<1>2. chosen \in SUBSET Free /\ Cardinality(chosen) = Bundles(cluster)
  BY <1>1 DEF kSubset
<1>3. IsFiniteSet(chosen) /\ chosen \subseteq Places
  BY <1>2, BoxIsFinite, FS_Subset
<1> DEFINE n == Cardinality(chosen)
<1>4. n \in Nat /\ group \in [1..n -> chosen] /\ \A i, j \in 1..n : i # j => group[i] # group[j]
  BY <1>1, <1>2 DEF SetToSeqs
<1>5. n = Bundles(cluster)
  BY <1>2
<1> HIDE DEF n
<1>6. group \in Seq(Places) /\ Len(group) = n /\ DOMAIN group = 1..n
  BY <1>3, <1>4
<1>7. Distinct(group, Places)
  BY <1>4, <1>6 DEF Distinct
<1>8. ToSet(group) \subseteq chosen
  BY <1>4, <1>6 DEF ToSet
<1>9. Cardinality(ToSet(group)) = n
  BY <1>6, <1>7, DistinctCounts
<1>10. ToSet(group) = chosen
  BY <1>3, <1>8, <1>9, FS_Subset DEF n
<1> QED BY <1>1, <1>2, <1>5, <1>6, <1>7, <1>10

\* The nodes of a list of GPUs.
NodesOf(gpus) == {NodeOf(gpu) : gpu \in gpus}

\* They are finitely many.
LEMMA NodesAreFinite ==
    ASSUME NEW S, IsFiniteSet(S), S \subseteq Places
    PROVE  IsFiniteSet(NodesOf(S)) /\ NodesOf(S) \subseteq 1..config.nodes
<1> DEFINE f == [gpu \in S |-> NodeOf(gpu)]
           T == 1..config.nodes
<1>1. f \in [S -> T]
  BY DEF NodeOf, Places
<1>2. NodesOf(S) = {f[x] : x \in S}
  BY DEF NodesOf
<1> HIDE DEF f
<1>3. IsFiniteSet({f[x] : x \in S})
  BY <1>1, FiniteImage
<1> QED BY <1>1, <1>2, <1>3

\* A packed group takes no more nodes than would do.
LEMMA PackedFits ==
    ASSUME NEW gpus, Packed(gpus), NEW some \in SUBSET (1..joined),
           Cardinality({gpu \in Free : NodeOf(gpu) \in some}) >= Cardinality(gpus)
    PROVE  Cardinality(NodesOf(gpus)) <= Cardinality(some)
BY DEF Packed, NodesOf

\* It is on one node if that has room for it.
LEMMA RoomOnOneNode ==
    ASSUME config \in Configuration, joined \in 1..config.nodes,
           NEW group, Distinct(group, Places), ToSet(group) \subseteq Free, Packed(ToSet(group)),
           NEW a \in 1..joined, Cardinality(FreeOn(a)) >= Len(group)
    PROVE  OnOneNode(group)
<1> DEFINE S == ToSet(group)
           M == NodesOf(S)
<1>1. IsFiniteSet(S) /\ Cardinality(S) = Len(group) /\ S \subseteq Places
      /\ DOMAIN group = 1..Len(group)
  BY DistinctCounts DEF Distinct
<1>2. {gpu \in Free : NodeOf(gpu) \in {a}} = FreeOn(a)
  BY DEF FreeOn
<1>3. Cardinality({a}) = 1 /\ {a} \in SUBSET (1..joined)
  BY FS_Singleton
<1>4. Cardinality(M) <= 1
  BY <1>1, <1>2, <1>3, PackedFits
<1>5. IsFiniteSet(M)
  BY <1>1, NodesAreFinite
<1> HIDE DEF M
<1>6. ASSUME NEW x \in M, NEW y \in M PROVE x = y
  <2>1. IsFiniteSet({x}) /\ Cardinality({x}) = 1 /\ {x} \in SUBSET M
    BY FS_Singleton
  <2>2. Cardinality(M) \in Nat
    BY <1>5, FS_CardinalityType
  <2>3. Cardinality({x}) <= Cardinality(M) /\ (Cardinality(M) = Cardinality({x}) => M = {x})
    BY <1>5, <2>1, FS_Subset
  <2>4. M = {x}
    BY <1>4, <2>1, <2>2, <2>3
  <2> QED BY <2>4
<1>7. \A i \in 1..Len(group) : NodeOf(group[i]) \in M
  BY <1>1 DEF M, NodesOf, ToSet
<1> QED BY <1>6, <1>7 DEF OnOneNode

\* On nodes that are free as a whole a packed group takes whole ones.
LEMMA RoomOnWholeNodes ==
    ASSUME config \in Configuration, joined \in 1..config.nodes,
           NEW group, Distinct(group, Places), ToSet(group) \subseteq Free, Packed(ToSet(group)),
           NEW k \in Nat, Len(group) = k * config.gpus,
           NEW some \in SUBSET (1..joined), IsFiniteSet(some), Cardinality(some) = k,
           some \X Devices \subseteq Free
    PROVE  WholeNodes(group) /\ (k = 1 => OnOneNode(group))
<1> DEFINE S == ToSet(group)
           M == NodesOf(S)
           G == config.gpus
<1>1. IsFiniteSet(S) /\ Cardinality(S) = Len(group) /\ S \subseteq Places
      /\ DOMAIN group = 1..Len(group)
  BY DistinctCounts DEF Distinct
<1>2. IsFiniteSet(Devices) /\ Cardinality(Devices) = G /\ IsFiniteSet(Free) /\ G \in Nat \ {0}
      /\ Free \subseteq (1..joined) \X Devices
  BY BoxIsFinite, ConfigTypes
<1>3. IsFiniteSet(some \X Devices) /\ Cardinality(some \X Devices) = k * G
  BY <1>2, FS_Product
<1>4. {gpu \in Free : NodeOf(gpu) \in some} = some \X Devices
  <2>1. ASSUME NEW gpu \in Free, NodeOf(gpu) \in some PROVE gpu \in some \X Devices
    BY <1>2, <2>1 DEF NodeOf
  <2>2. ASSUME NEW gpu \in some \X Devices PROVE gpu \in Free /\ NodeOf(gpu) \in some
    BY <2>2 DEF NodeOf
  <2> QED BY <2>1, <2>2
<1>5. Cardinality(M) <= k /\ IsFiniteSet(M) /\ Cardinality(M) \in Nat
  <2>1. Cardinality(M) <= k
    <3> HIDE DEF M
    <3>1. Cardinality({gpu \in Free : NodeOf(gpu) \in some}) = Cardinality(S) /\ Cardinality(S) \in Nat
      BY <1>1, <1>2, <1>3, <1>4, FS_CardinalityType
    <3> QED BY <3>1, PackedFits DEF M
  <2>2. IsFiniteSet(M)
    BY <1>1, NodesAreFinite
  <2> QED BY <2>1, <2>2, FS_CardinalityType
<1>6. S \subseteq M \X Devices
  <2> SUFFICES ASSUME NEW gpu \in S PROVE gpu \in M \X Devices
    OBVIOUS
  <2>1. gpu \in (1..joined) \X Devices
    BY <1>2
  <2>2. NodeOf(gpu) \in M /\ gpu = <<NodeOf(gpu), gpu[2]>> /\ gpu[2] \in Devices
    BY <2>1 DEF NodesOf, NodeOf
  <2> QED BY <2>2
<1> HIDE DEF M
<1>7. IsFiniteSet(M \X Devices) /\ Cardinality(M \X Devices) = Cardinality(M) * G
  BY <1>2, <1>5, FS_Product
<1>8. Cardinality(S) <= Cardinality(M \X Devices)
      /\ (Cardinality(M \X Devices) = Cardinality(S) => M \X Devices = S)
  BY <1>6, <1>7, FS_Subset
<1>9. Cardinality(M) * G <= k * G
  BY <1>2, <1>5, Order
<1>10. M \X Devices = S
  <2> DEFINE a == Cardinality(M) * G
             b == k * G
  <2>1. a \in Nat /\ b \in Nat
    BY <1>2, <1>5
  <2>2. Cardinality(S) = b /\ Cardinality(M \X Devices) = a
    BY <1>1, <1>7
  <2> HIDE DEF a, b
  <2> QED BY <1>8, <1>9, <2>1, <2>2 DEF a, b
<1>11. WholeNodes(group)
  <2> SUFFICES ASSUME NEW i \in 1..Len(group), NEW d \in Devices
               PROVE  \E j \in 1..Len(group) : group[j] = <<NodeOf(group[i]), d>>
    BY DEF WholeNodes, Devices
  <2>1. NodeOf(group[i]) \in M
    BY <1>1 DEF M, NodesOf, ToSet
  <2>2. <<NodeOf(group[i]), d>> \in S
    BY <1>10, <2>1
  <2> QED BY <1>1, <2>2 DEF ToSet
<1>12. ASSUME k = 1 PROVE OnOneNode(group)
  <2>1. ASSUME NEW x \in M, NEW y \in M PROVE x = y
    <3>1. IsFiniteSet({x}) /\ Cardinality({x}) = 1 /\ {x} \in SUBSET M
      BY FS_Singleton
    <3>2. Cardinality({x}) <= Cardinality(M) /\ (Cardinality(M) = Cardinality({x}) => M = {x})
      BY <1>5, <3>1, FS_Subset
    <3>3. M = {x}
      BY <1>5, <1>12, <3>1, <3>2
    <3> QED BY <3>3
  <2>2. \A i \in 1..Len(group) : NodeOf(group[i]) \in M
    BY <1>1 DEF M, NodesOf, ToSet
  <2> QED BY <2>1, <2>2 DEF OnOneNode
<1> QED BY <1>11, <1>12
-----------------------------------------------------------------------------

(* What is left. *)

\* The GPUs that are taken are those of the placement groups.
LEMMA TakenIs ==
    ASSUME \A n \in DOMAIN clusters : Grouped(clusters[n])
    PROVE  /\ \A n \in DOMAIN clusters : \A k \in 1..Len(clusters[n].groups) :
                  \A i \in 1..Len(clusters[n].groups[k]) : clusters[n].groups[k][i] \in Taken
           /\ \A gpu \in Taken : \E n \in DOMAIN clusters : \E k \in 1..Len(clusters[n].groups) :
                  \E i \in 1..Len(clusters[n].groups[k]) : gpu = clusters[n].groups[k][i]
<1>1. ASSUME NEW n \in DOMAIN clusters
      PROVE  /\ DOMAIN clusters[n].groups = 1..Len(clusters[n].groups)
             /\ \A k \in 1..Len(clusters[n].groups) :
                    DOMAIN clusters[n].groups[k] = 1..Len(clusters[n].groups[k])
  <2> DEFINE groups == clusters[n].groups
  <2>1. groups \in Seq(Seq(Places))
    BY DEF Grouped, Tied
  <2> HIDE DEF groups
  <2>2. DOMAIN groups = 1..Len(groups) /\ \A k \in 1..Len(groups) : groups[k] \in Seq(Places)
    BY <2>1
  <2>3. \A k \in 1..Len(groups) : DOMAIN groups[k] = 1..Len(groups[k])
    BY <2>2
  <2> QED BY <2>2, <2>3 DEF groups
<1>2. ASSUME NEW n \in DOMAIN clusters, NEW k \in 1..Len(clusters[n].groups),
             NEW i \in 1..Len(clusters[n].groups[k])
      PROVE  clusters[n].groups[k][i] \in Taken
  <2>1. clusters[n].groups[k] \in ToSet(clusters[n].groups)
    BY <1>1 DEF ToSet
  <2>2. clusters[n].groups[k][i] \in ToSet(clusters[n].groups[k])
    BY <1>1 DEF ToSet
  <2> QED BY <2>1, <2>2 DEF Taken
<1>3. ASSUME NEW gpu \in Taken
      PROVE  \E n \in DOMAIN clusters : \E k \in 1..Len(clusters[n].groups) :
                 \E i \in 1..Len(clusters[n].groups[k]) : gpu = clusters[n].groups[k][i]
  <2>1. PICK n \in DOMAIN clusters : \E group \in ToSet(clusters[n].groups) : gpu \in ToSet(group)
    BY DEF Taken
  <2>2. PICK group \in ToSet(clusters[n].groups) : gpu \in ToSet(group)
    BY <2>1
  <2>3. PICK k \in 1..Len(clusters[n].groups) : group = clusters[n].groups[k]
    BY <1>1, <2>2 DEF ToSet
  <2>4. PICK i \in 1..Len(clusters[n].groups[k]) : gpu = clusters[n].groups[k][i]
    BY <1>1, <2>2, <2>3 DEF ToSet
  <2> QED BY <2>4
<1> QED BY <1>2, <1>3

\* A reward model takes one GPU.
RewardGpus ==
    {gpu \in Taken : \E n \in DOMAIN clusters : n = "reward" /\
        \E k \in 1..Len(clusters[n].groups) : \E i \in 1..Len(clusters[n].groups[k]) :
            gpu = clusters[n].groups[k][i]}

\* There is no other one.
LEMMA RewardIsOne ==
    ASSUME LaunchInv, PlacesInv, NEW x \in RewardGpus, NEW y \in RewardGpus PROVE x = y
<1> DEFINE c == clusters["reward"]
<1>1. "reward" \in DOMAIN clusters
  BY DEF RewardGpus
<1>2. c.nodes = 1 /\ c.gpus = 1 /\ c.unified = FALSE
  <2>1. config.reward = 1 /\ Plan("reward") = NewCluster(1, config.reward, 1)
    BY <1>1 DEF PlacesInv, PlanInv, Plan
  <2>2. c.nodes = Plan("reward").nodes /\ c.gpus = Plan("reward").gpus /\ c.unified = FALSE
    BY <1>1 DEF PlacesInv, PlanInv
  <2> HIDE DEF c
  <2> QED BY <2>1, <2>2 DEF NewCluster
<1>3. Len(c.groups) <= 1 /\ \A k \in 1..Len(c.groups) : Len(c.groups[k]) = 1
  <2>1. Len(c.groups) <= NumGroups(c)
    BY <1>1 DEF LaunchInv, ClustersInv, SoundCluster
  <2>2. \A k \in 1..Len(c.groups) : Len(c.groups[k]) = Bundles(c)
    BY <1>1 DEF PlacesInv, Grouped, Tied
  <2> HIDE DEF c
  <2> QED BY <1>2, <2>1, <2>2 DEF NumGroups, Bundles
<1>4. /\ \E k \in 1..Len(c.groups) : \E i \in 1..Len(c.groups[k]) : x = c.groups[k][i]
      /\ \E k \in 1..Len(c.groups) : \E i \in 1..Len(c.groups[k]) : y = c.groups[k][i]
  BY DEF RewardGpus
<1>5. Len(c.groups) \in Nat
  <2>1. c.groups \in Seq(Seq(Places))
    BY <1>1 DEF PlacesInv, Grouped, Tied
  <2> HIDE DEF c
  <2> QED BY <2>1
<1> HIDE DEF c
<1>6. PICK k \in 1..Len(c.groups) : \E i \in 1..Len(c.groups[k]) : x = c.groups[k][i]
  BY <1>4
<1>7. PICK l \in 1..Len(c.groups) : \E i \in 1..Len(c.groups[l]) : y = c.groups[l][i]
  BY <1>4
<1>8. k = 1 /\ l = 1 /\ Len(c.groups[1]) = 1
  BY <1>3, <1>5
<1>9. x = c.groups[1][1] /\ y = c.groups[1][1]
  BY <1>6, <1>7, <1>8
<1> QED BY <1>9

\* Without the GPU of a reward model the nodes are taken as a whole or not at all, so
\* enough free GPUs are enough free nodes.
LEMMA WholeNodesAreLeft ==
    ASSUME config \in Configuration, joined \in 1..config.nodes,
           NEW R, \A x, y \in R : x = y, R \subseteq Taken,
           \A gpu \in Taken \ R : \A d \in Devices : <<NodeOf(gpu), d>> \in Taken,
           Taken \subseteq Places,
           NEW k \in Nat, Cardinality(Free) >= k * config.gpus
    PROVE  \E some \in SUBSET (1..joined) :
               IsFiniteSet(some) /\ Cardinality(some) = k /\ some \X Devices \subseteq Free
<1> DEFINE G == config.gpus
           V == {a \in 1..joined : \A d \in Devices : <<a, d>> \in Free}
           Rest == {gpu \in Free : NodeOf(gpu) \notin V}
<1>1. /\ IsFiniteSet(Devices) /\ Cardinality(Devices) = G /\ IsFiniteSet(1..joined)
      /\ IsFiniteSet(Free) /\ Free \subseteq (1..joined) \X Devices /\ G \in Nat \ {0}
  BY BoxIsFinite, ConfigTypes
<1>2. IsFiniteSet(V) /\ V \in SUBSET (1..joined) /\ Cardinality(V) \in Nat
  <2>1. V \in SUBSET (1..joined)
    OBVIOUS
  <2> HIDE DEF V
  <2> QED BY <1>1, <2>1, FS_Subset, FS_CardinalityType
<1>3. V \X Devices \subseteq Free
  OBVIOUS
<1>4. IsFiniteSet(V \X Devices) /\ Cardinality(V \X Devices) = Cardinality(V) * G
  BY <1>1, <1>2, FS_Product
<1>5. IsFiniteSet(Rest) /\ Cardinality(Rest) \in Nat
  <2>1. Rest \in SUBSET Free
    OBVIOUS
  <2> HIDE DEF Rest
  <2> QED BY <1>1, <2>1, FS_Subset, FS_CardinalityType
<1>6. Free \subseteq (V \X Devices) \cup Rest
  <2> SUFFICES ASSUME NEW gpu \in Free, NodeOf(gpu) \in V PROVE gpu \in V \X Devices
    OBVIOUS
  <2>1. gpu \in (1..joined) \X Devices
    BY <1>1
  <2>2. gpu = <<NodeOf(gpu), gpu[2]>> /\ gpu[2] \in Devices
    BY <2>1 DEF NodeOf
  <2> HIDE DEF V
  <2> QED BY <2>2
<1>7. Cardinality(Rest) <= G - 1
  <2>1. ASSUME NEW gpu \in Rest PROVE \E r \in R : NodeOf(gpu) = NodeOf(r)
    <3> DEFINE a == NodeOf(gpu)
    <3>1. gpu \in (1..joined) \X Devices /\ gpu \in Free
      BY <1>1
    <3>2. a \in 1..joined /\ gpu[2] \in Devices /\ gpu = <<a, gpu[2]>>
      BY <3>1 DEF NodeOf
    <3>3. PICK d \in Devices : <<a, d>> \notin Free
      BY <3>2
    <3> HIDE DEF a
    <3>4. <<a, d>> \in Taken
      BY <3>2, <3>3 DEF Free, Devices
    <3>5. gpu \notin Taken
      BY <3>1 DEF Free
    <3>6. NodeOf(<<a, d>>) = a
      BY DEF NodeOf
    <3>7. <<a, d>> \in R
      BY <3>2, <3>4, <3>5, <3>6
    <3> QED BY <3>6, <3>7 DEF a
  <2>2. CASE Rest = {}
    <3>1. Cardinality({}) = 0
      BY FS_EmptySet
    <3> HIDE DEF Rest
    <3> QED BY <1>1, <2>2, <3>1
  <2>3. CASE Rest # {}
    <3>1. PICK r \in R : TRUE
      BY <2>1, <2>3
    <3>2. r \in Taken /\ r \in Places
      OBVIOUS
    <3> DEFINE b == NodeOf(r)
               Node == {b} \X Devices
    <3>3. r = <<b, r[2]>> /\ r[2] \in Devices
      BY <3>2 DEF Places, NodeOf, Devices
    <3>4. IsFiniteSet(Node) /\ Cardinality(Node) = G
      <4> DEFINE B == {b}
      <4>1. IsFiniteSet(B) /\ Cardinality(B) = 1
        BY FS_Singleton
      <4> HIDE DEF B
      <4>2. IsFiniteSet(B \X Devices) /\ Cardinality(B \X Devices) = 1 * G
        BY <1>1, <4>1, FS_Product
      <4> QED BY <1>1, <4>2 DEF B
    <3>5. r \in Node
      <4> HIDE DEF b
      <4> QED BY <3>3
    <3>6. IsFiniteSet(Node \ {r}) /\ Cardinality(Node \ {r}) = G - 1
      <4> HIDE DEF Node
      <4> QED BY <3>4, <3>5, FS_RemoveElement
    <3>7. Rest \in SUBSET (Node \ {r})
      <4> SUFFICES ASSUME NEW gpu \in Rest PROVE gpu \in Node \ {r}
        OBVIOUS
      <4>1. NodeOf(gpu) = b
        BY <2>1
      <4>2. gpu \in (1..joined) \X Devices /\ gpu \in Free
        BY <1>1
      <4>3. gpu = <<b, gpu[2]>> /\ gpu[2] \in Devices
        BY <4>1, <4>2 DEF NodeOf
      <4>4. gpu # r
        BY <3>2, <4>2 DEF Free
      <4> HIDE DEF b
      <4> QED BY <4>3, <4>4
    <3> HIDE DEF Node, Rest
    <3> QED BY <3>6, <3>7, FS_Subset
  <2> QED BY <2>2, <2>3
<1> HIDE DEF V, Rest
<1>8. Cardinality(Free) <= Cardinality(V) * G + (G - 1)
  <2> DEFINE A == V \X Devices
             B == Rest
  <2>1. IsFiniteSet(A \cup B) /\ Cardinality(A \cup B) = Cardinality(A) + Cardinality(B) - Cardinality(A \cap B)
    BY <1>4, <1>5, FS_Union
  <2>2. IsFiniteSet(A \cap B)
    BY <1>4, FS_Intersection
  <2>3. Cardinality(A \cap B) \in Nat
    BY <2>2, FS_CardinalityType
  <2>4. Cardinality(Free) <= Cardinality(A \cup B)
    BY <1>6, <2>1, FS_Subset
  <2> DEFINE v == Cardinality(V) * G
  <2>5. v \in Nat /\ Cardinality(A) = v
    BY <1>1, <1>2, <1>4
  <2>6. Cardinality(Free) \in Nat
    BY <1>1, FS_CardinalityType
  <2> HIDE DEF v, A, B
  <2> QED BY <1>1, <1>5, <1>7, <2>1, <2>3, <2>4, <2>5, <2>6 DEF B, v
<1>9. k <= Cardinality(V)
  <2> DEFINE v == Cardinality(V)
  <2>1. v \in Nat /\ k * G <= v * G + (G - 1)
    <3>1. Cardinality(Free) \in Nat /\ k * G \in Nat /\ Cardinality(V) * G \in Nat
      BY <1>1, <1>2, FS_CardinalityType
    <3> QED BY <1>1, <1>2, <1>8, <3>1
  <2> HIDE DEF v
  <2>2. ASSUME k > v PROVE FALSE
    <3>1. v + 1 \in Nat /\ v + 1 <= k
      BY <2>1, <2>2
    <3>2. (v + 1) * G <= k * G
      BY <1>1, <3>1, Order
    <3>3. (v + 1) * G = v * G + G /\ v * G \in Nat /\ k * G \in Nat
      BY <1>1, <2>1
    <3> QED BY <1>1, <2>1, <3>2, <3>3
  <2> QED BY <2>1, <2>2 DEF v
<1> DEFINE key == [a \in V |-> a]
           some == {a \in V : Ranking(V, key)[a] < k}
<1>10. IsFiniteSet(some) /\ Cardinality(some) = k
  <2>1. key \in [V -> Int] /\ \A x, y \in V : key[x] = key[y] => x = y
    BY <1>2
  <2>2. IsFiniteSet(V) /\ k \in Nat /\ k <= Cardinality(V)
    BY <1>2, <1>9
  <2> HIDE DEF key
  <2> QED BY ONLY <2>1, <2>2, FirstOfRank
<1>11. some \in SUBSET (1..joined) /\ some \X Devices \subseteq Free
  BY <1>2, <1>3
<1> HIDE DEF some
<1> QED BY <1>10, <1>11

\* What PlacesInv says of one cluster.
LEMMA ClusterIs ==
    ASSUME LaunchInv, PlacesInv, NEW n \in DOMAIN clusters
    PROVE  /\ n \in {"train", "inference", "reward"}
           /\ n = "inference" => ~config.colocated
           /\ n = "reward" => config.reward = 1
           /\ Planned(n, clusters[n])
           /\ clusters[n].nodes \in Nat /\ clusters[n].gpus \in 1..config.gpus
           /\ clusters[n].unified \in BOOLEAN
           /\ clusters[n].spread = (clusters[n].unified /\ config.colocated)
           /\ clusters[n].unified => NodeWise /\ n # "reward" /\ clusters[n].nodes >= 2
                                    /\ config.engine > config.gpus /\ config.backend = "vllm"
           /\ NodeWise /\ n # "reward" => clusters[n].gpus = config.gpus
           /\ ~NodeWise => clusters[n].nodes = 1
           /\ clusters[n].groups \in Seq(Seq(Places)) /\ Len(clusters[n].groups) \in Nat
           /\ \A k \in 1..Len(clusters[n].groups) :
                  Len(clusters[n].groups[k]) = Bundles(clusters[n])
           /\ Len(clusters[n].groups) <= NumGroups(clusters[n])
           /\ Bundles(clusters[n]) \in Nat \ {0}
<1> DEFINE c == clusters[n]
<1>1. /\ n \in {"train", "inference", "reward"}
      /\ n = "inference" => ~config.colocated
      /\ n = "reward" => config.reward = 1
      /\ Accepted(config) /\ config \in Configuration
  BY DEF PlacesInv, PlanInv, LaunchInv
<1>2. /\ c.nodes = Plan(n).nodes /\ c.gpus = Plan(n).gpus /\ c.unified \in BOOLEAN
      /\ c.spread = (c.unified /\ config.colocated)
      /\ c.unified => n # "reward" /\ c.nodes >= 2 /\ c.gpus = config.gpus
                      /\ config.engine > config.gpus /\ config.backend = "vllm"
  BY DEF PlacesInv, PlanInv
<1>3. /\ Plan(n).nodes \in Nat /\ Plan(n).gpus \in 1..config.gpus
      /\ NodeWise /\ n # "reward" => Plan(n).gpus = config.gpus
      /\ ~NodeWise => Plan(n).nodes = 1
      /\ Plan(n).nodes >= 2 => NodeWise
  BY <1>1, PlanIs
<1>4. Tied(c.groups, Places, Bundles(c))
  BY DEF PlacesInv, Grouped
<1>5. Len(c.groups) <= NumGroups(c)
  BY DEF LaunchInv, ClustersInv, SoundCluster
<1> HIDE DEF c
<1>6. c.groups \in Seq(Seq(Places)) /\ Len(c.groups) \in Nat
      /\ \A k \in 1..Len(c.groups) : Len(c.groups[k]) = Bundles(c)
  BY <1>4 DEF Tied
<1>7. config.gpus \in Nat \ {0}
  BY <1>1, ConfigTypes
<1>8. Bundles(c) \in Nat \ {0}
  <2>1. CASE c.unified
    <3>1. c.nodes \in Nat \ {0} /\ c.gpus \in Nat \ {0}
      BY <1>2, <1>3, <1>7, <2>1
    <3>2. c.nodes * c.gpus \in Nat \ {0}
      <4> DEFINE a == c.nodes
                 b == c.gpus
      <4>1. a \in Nat \ {0} /\ b \in Nat \ {0}
        BY <3>1
      <4> HIDE DEF a, b
      <4>2. a * b \in Nat \ {0}
        BY <4>1
      <4> QED BY <4>2 DEF a, b
    <3> QED BY <2>1, <3>2 DEF Bundles, World
  <2>2. CASE ~c.unified
    BY <1>2, <1>3, <1>7, <2>2 DEF Bundles
  <2> QED BY <2>1, <2>2
<1> QED BY <1>1, <1>2, <1>3, <1>5, <1>6, <1>8 DEF Planned, c

\* A group on one node, or on the only one.
LEMMA OneNodeOnly ==
    ASSUME NEW group, \A i \in 1..Len(group) : group[i] \in Places,
           config.nodes = 1 \/ Len(group) = 1
    PROVE  OnOneNode(group)
<1>1. CASE config.nodes = 1
  <2>1. \A i \in 1..Len(group) : NodeOf(group[i]) = 1
    BY <1>1 DEF Places, NodeOf
  <2> QED BY <2>1 DEF OnOneNode
<1>2. CASE Len(group) = 1
  BY <1>2 DEF OnOneNode
<1> QED BY <1>1, <1>2

\* Policy and engine on one node next to a node for the reward model: each finds room
\* on the node where the other one is not.
LEMMA RoomBesideTheOther ==
    ASSUME LaunchInv, PlacesInv, NEW n \in DOMAIN clusters, clusters[n].state = "requested",
           NEW group \in Placements(clusters[n]), ~NodeWise, config.nodes >= 2, n # "reward"
    PROVE  OnOneNode(group)
<1> DEFINE c == clusters[n]
           G == config.gpus
<1>1. /\ n \in {"train", "inference"} /\ c.unified = FALSE /\ c.spread = FALSE /\ c.nodes = 1
      /\ Bundles(c) \in Nat \ {0} /\ Bundles(c) = c.gpus
  BY ClusterIs DEF Bundles
<1>2. /\ config \in Configuration /\ joined \in 1..config.nodes
      /\ config.nodes \in Nat \ {0} /\ G \in Nat \ {0} /\ Accepted(config)
  BY ConfigTypes DEF LaunchInv, PlacesInv, PlanInv
<1>3. config.nodes = 2 /\ c.gpus <= G - 1
  <2>1. n = "inference" => ~config.colocated
    BY ClusterIs
  <2>2. config.nodes = 2 /\ Plan(n).gpus <= G - 1
    BY <1>1, <1>2, <2>1, PlanIs
  <2>3. c.gpus = Plan(n).gpus
    BY ClusterIs DEF Planned
  <2> QED BY <2>2, <2>3
<1>4. /\ Distinct(group, Places) /\ Len(group) = c.gpus /\ ToSet(group) \subseteq Free
      /\ Packed(ToSet(group))
  BY <1>1, <1>2, PlacementIs
<1>5. c.groups = << >>
  <2>1. Len(c.groups) < NumGroups(c) /\ NumGroups(c) = 1
    BY <1>1 DEF LaunchInv, ClustersInv, SoundCluster, NumGroups
  <2>2. c.groups \in Seq(Seq(Places)) /\ Len(c.groups) \in Nat
    BY ClusterIs
  <2> HIDE DEF c
  <2> QED BY <2>1, <2>2
<1>6. /\ IsFiniteSet(Devices) /\ Cardinality(Devices) = G
      /\ IsFiniteSet(Free) /\ Free \subseteq (1..joined) \X Devices
  BY <1>2, BoxIsFinite
<1>7. \A x, y \in Taken \ RewardGpus : NodeOf(x) = NodeOf(y)
  <2>1. \A m \in DOMAIN clusters : Grouped(clusters[m])
    BY DEF PlacesInv
  <2>2. ASSUME NEW x \in Taken \ RewardGpus
        PROVE  \E m \in DOMAIN clusters : m # "reward" /\ m # n /\ \E i \in 1..Len(clusters[m].groups[1]) :
                   /\ x = clusters[m].groups[1][i] /\ 1 \in 1..Len(clusters[m].groups)
                   /\ OnOneNode(clusters[m].groups[1])
    <3>1. PICK m \in DOMAIN clusters : \E k \in 1..Len(clusters[m].groups) :
              \E i \in 1..Len(clusters[m].groups[k]) : x = clusters[m].groups[k][i]
      BY <2>1, TakenIs
    <3>2. PICK k \in 1..Len(clusters[m].groups) :
              \E i \in 1..Len(clusters[m].groups[k]) : x = clusters[m].groups[k][i]
      BY <3>1
    <3>3. m # "reward"
      BY <3>1 DEF RewardGpus
    <3>4. m # n
      <4>1. Len(<< >>) = 0
        OBVIOUS
      <4> QED BY <1>5, <3>2, <4>1
    <3>5. clusters[m].nodes = 1 /\ clusters[m].unified = FALSE
          /\ Len(clusters[m].groups) <= NumGroups(clusters[m]) /\ Len(clusters[m].groups) \in Nat
      BY ClusterIs
    <3>6. k = 1
      BY <3>5 DEF NumGroups
    <3>7. OnOneNode(clusters[m].groups[k])
      BY <3>5 DEF PlacesInv, NodesInv
    <3> QED BY <3>2, <3>3, <3>4, <3>6, <3>7
  <2> SUFFICES ASSUME NEW x \in Taken \ RewardGpus, NEW y \in Taken \ RewardGpus
               PROVE  NodeOf(x) = NodeOf(y)
    OBVIOUS
  <2>3. PICK m \in DOMAIN clusters : m # "reward" /\ m # n /\ \E i \in 1..Len(clusters[m].groups[1]) :
            x = clusters[m].groups[1][i] /\ OnOneNode(clusters[m].groups[1])
    BY <2>2
  <2>4. PICK l \in DOMAIN clusters : l # "reward" /\ l # n /\ \E i \in 1..Len(clusters[l].groups[1]) :
            y = clusters[l].groups[1][i]
    BY <2>2
  <2>5. m = l
    BY <1>1, <2>3, <2>4, ClusterIs
  <2> QED BY <2>3, <2>4, <2>5 DEF OnOneNode
<1>8. CASE joined = 1
  <2>1. \A i \in 1..Len(group) : group[i] \in Free
    BY <1>4 DEF Distinct, ToSet
  <2>2. \A i \in 1..Len(group) : NodeOf(group[i]) = 1
    BY <1>6, <1>8, <2>1 DEF NodeOf
  <2> QED BY <2>2 DEF OnOneNode
<1>9. CASE joined = 2
  <2>1. PICK a \in 1..joined : \A x \in Taken \ RewardGpus : NodeOf(x) # a
    <3>1. CASE \E x \in Taken \ RewardGpus : NodeOf(x) = 1
      <4>1. \A x \in Taken \ RewardGpus : NodeOf(x) = 1
        BY <1>7, <3>1
      <4>2. 2 \in 1..joined /\ 2 # 1
        BY <1>9
      <4> QED BY <4>1, <4>2
    <3>2. CASE \A x \in Taken \ RewardGpus : NodeOf(x) # 1
      <4>1. 1 \in 1..joined
        BY <1>9
      <4> QED BY <3>2, <4>1
    <3> QED BY <3>1, <3>2
  <2> DEFINE A == {a}
             Node == A \X Devices
             left == Node \ RewardGpus
  <2>2. IsFiniteSet(Node) /\ Cardinality(Node) = G
    <3>1. IsFiniteSet(A) /\ Cardinality(A) = 1
      BY FS_Singleton
    <3> HIDE DEF A
    <3>2. IsFiniteSet(A \X Devices) /\ Cardinality(A \X Devices) = 1 * G
      BY <1>6, <3>1, FS_Product
    <3> QED BY <1>2, <3>2
  <2>3. left \in SUBSET FreeOn(a)
    <3> SUFFICES ASSUME NEW gpu \in Node, gpu \notin RewardGpus PROVE gpu \in FreeOn(a)
      OBVIOUS
    <3>1. NodeOf(gpu) = a /\ gpu \in (1..joined) \X Devices
      BY DEF NodeOf
    <3>2. gpu \notin Taken
      BY <2>1, <3>1
    <3> QED BY <3>1, <3>2 DEF FreeOn, Free, Devices
  <2> HIDE DEF Node
  <2>4. IsFiniteSet(left) /\ Cardinality(left) >= G - 1
    <3>1. CASE RewardGpus = {}
      <4>1. left = Node
        BY <3>1
      <4> HIDE DEF left
      <4> QED BY <1>2, <2>2, <4>1
    <3>2. CASE RewardGpus # {}
      <4>1. PICK r \in RewardGpus : TRUE
        BY <3>2
      <4>2. RewardGpus = {r}
        BY <4>1, RewardIsOne
      <4>3. IsFiniteSet(Node \ {r})
            /\ Cardinality(Node \ {r}) = IF r \in Node THEN Cardinality(Node) - 1 ELSE Cardinality(Node)
        BY <2>2, FS_RemoveElement
      <4>4. left = Node \ {r}
        BY <4>2
      <4> HIDE DEF left
      <4> QED BY <1>2, <2>2, <4>3, <4>4
    <3> QED BY <3>1, <3>2
  <2> HIDE DEF left
  <2>5. IsFiniteSet(FreeOn(a))
    <3>1. FreeOn(a) \in SUBSET Free
      BY DEF FreeOn
    <3> QED BY <1>6, <3>1, FS_Subset
  <2>6. Cardinality(left) <= Cardinality(FreeOn(a)) /\ Cardinality(FreeOn(a)) \in Nat
        /\ Cardinality(left) \in Nat
    BY <2>3, <2>4, <2>5, FS_Subset, FS_CardinalityType
  <2>7. Cardinality(FreeOn(a)) >= Len(group)
    <3>1. c.gpus \in Nat
      BY <1>1
    <3> HIDE DEF c
    <3> QED BY <1>2, <1>3, <1>4, <2>4, <2>6, <3>1
  <2> QED BY <1>2, <1>4, <2>7, RoomOnOneNode
<1>10. joined \in {1, 2}
  BY <1>2, <1>3
<1> QED BY <1>8, <1>9, <1>10

\* Policy and engine on nodes of their own: each finds nodes that are free as a whole.
LEMMA RoomOnNodes ==
    ASSUME LaunchInv, PlacesInv, NEW n \in DOMAIN clusters, clusters[n].state = "requested",
           NEW group \in Placements(clusters[n]), NodeWise, n # "reward", ~clusters[n].spread
    PROVE  WholeNodes(group) /\ (~clusters[n].unified => OnOneNode(group))
<1> DEFINE c == clusters[n]
           G == config.gpus
           k == IF c.unified THEN c.nodes ELSE 1
           R == RewardGpus
<1>1. /\ n \in {"train", "inference", "reward"} /\ c.unified \in BOOLEAN
      /\ c.gpus = G /\ c.nodes \in Nat /\ Bundles(c) \in Nat \ {0}
  BY ClusterIs
<1>2. /\ config \in Configuration /\ joined \in 1..config.nodes
      /\ config.nodes \in Nat \ {0} /\ G \in Nat \ {0}
  BY ConfigTypes DEF LaunchInv
<1>3. k \in Nat /\ Bundles(c) = k * G
  <2>1. CASE c.unified
    BY <1>1, <2>1 DEF Bundles, World
  <2>2. CASE ~c.unified
    <3>1. Bundles(c) = G /\ k = 1
      BY <1>1, <2>2 DEF Bundles
    <3> HIDE DEF k, c
    <3> QED BY <1>2, <3>1
  <2> QED BY <2>1, <2>2
<1>4. /\ Distinct(group, Places) /\ Len(group) = Bundles(c) /\ ToSet(group) \subseteq Free
      /\ Packed(ToSet(group))
  BY <1>1, <1>2, PlacementIs
<1>5. \A m \in DOMAIN clusters : Grouped(clusters[m])
  BY DEF PlacesInv
<1>6. Taken \subseteq Places
  <2> SUFFICES ASSUME NEW gpu \in Taken PROVE gpu \in Places
    OBVIOUS
  <2>1. PICK m \in DOMAIN clusters : \E l \in 1..Len(clusters[m].groups) :
            \E i \in 1..Len(clusters[m].groups[l]) : gpu = clusters[m].groups[l][i]
    BY <1>5, TakenIs
  <2> DEFINE groups == clusters[m].groups
  <2>2. groups \in Seq(Seq(Places))
    BY ClusterIs
  <2>3. PICK l \in 1..Len(groups) : \E i \in 1..Len(groups[l]) : gpu = groups[l][i]
    BY <2>1
  <2> HIDE DEF groups
  <2>4. groups[l] \in Seq(Places)
    BY <2>2
  <2> DEFINE group1 == groups[l]
  <2>5. PICK i \in 1..Len(group1) : gpu = group1[i]
    BY <2>3
  <2> HIDE DEF group1
  <2> QED BY <2>4, <2>5 DEF group1
<1>7. ASSUME NEW gpu \in Taken \ R, NEW d \in Devices PROVE <<NodeOf(gpu), d>> \in Taken
  <2>1. PICK m \in DOMAIN clusters : \E l \in 1..Len(clusters[m].groups) :
            \E i \in 1..Len(clusters[m].groups[l]) : gpu = clusters[m].groups[l][i]
    BY <1>5, TakenIs
  <2>2. PICK l \in 1..Len(clusters[m].groups) :
            \E i \in 1..Len(clusters[m].groups[l]) : gpu = clusters[m].groups[l][i]
    BY <2>1
  <2>3. PICK i \in 1..Len(clusters[m].groups[l]) : gpu = clusters[m].groups[l][i]
    BY <2>2
  <2>4. m # "reward"
    BY <2>1 DEF RewardGpus
  <2>5. clusters[m].spread = FALSE
    <3>1. clusters[m].spread = (clusters[m].unified /\ config.colocated)
      BY ClusterIs
    <3>2. CASE m = n
      BY <1>1, <3>1, <3>2, ClusterIs
    <3>3. CASE m # n
      <4>1. ~config.colocated
        BY <2>4, <3>3, ClusterIs
      <4> QED BY <3>1, <4>1
    <3> QED BY <3>2, <3>3
  <2>6. WholeNodes(clusters[m].groups[l])
    BY <2>4, <2>5 DEF PlacesInv, NodesInv
  <2>7. PICK j \in 1..Len(clusters[m].groups[l]) :
            clusters[m].groups[l][j] = <<NodeOf(clusters[m].groups[l][i]), d>>
    BY <2>6 DEF WholeNodes, Devices
  <2>8. clusters[m].groups[l][j] \in Taken
    BY <1>5, TakenIs
  <2> QED BY <2>3, <2>7, <2>8
<1>8. R \subseteq Taken /\ \A x, y \in R : x = y
  BY RewardIsOne DEF RewardGpus
<1>9. Cardinality(Free) >= k * G
  <2>1. IsFiniteSet(ToSet(group)) /\ Cardinality(ToSet(group)) = Len(group)
    BY <1>4, DistinctCounts
  <2>2. IsFiniteSet(Free)
    BY <1>2, BoxIsFinite
  <2>3. Cardinality(ToSet(group)) <= Cardinality(Free)
    BY <1>4, <2>2, FS_Subset
  <2> QED BY <1>3, <1>4, <2>1, <2>3
<1> HIDE DEF k, R
<1>10. PICK some \in SUBSET (1..joined) :
           IsFiniteSet(some) /\ Cardinality(some) = k /\ some \X Devices \subseteq Free
  <2>1. \A gpu \in Taken \ R : \A d \in Devices : <<NodeOf(gpu), d>> \in Taken
    BY <1>7
  <2> QED BY <1>2, <1>3, <1>6, <1>8, <1>9, <2>1, WholeNodesAreLeft
<1>11. WholeNodes(group) /\ (k = 1 => OnOneNode(group))
  BY <1>2, <1>3, <1>4, <1>10, RoomOnWholeNodes
<1> QED BY <1>1, <1>11 DEF k

\* On how many nodes a group comes to be.
LEMMA PlacedNodes ==
    ASSUME LaunchInv, PlacesInv, NEW n \in DOMAIN clusters, clusters[n].state = "requested",
           NEW group \in Placements(clusters[n])
    PROVE  /\ ~clusters[n].unified => OnOneNode(group)
           /\ NodeWise /\ n # "reward" /\ ~clusters[n].spread => WholeNodes(group)
<1> DEFINE c == clusters[n]
<1>1. /\ c.unified \in BOOLEAN /\ c.spread = (c.unified /\ config.colocated)
      /\ Planned(n, c) /\ Bundles(c) \in Nat \ {0} /\ (n = "reward" => config.reward = 1)
      /\ (n = "inference" => ~config.colocated) /\ n \in {"train", "inference", "reward"}
  BY ClusterIs
<1>2. config \in Configuration /\ joined \in 1..config.nodes /\ Accepted(config) /\ config.nodes \in Nat \ {0}
  BY ConfigTypes DEF LaunchInv, PlacesInv, PlanInv
<1>3. Distinct(group, Places) /\ Len(group) = Bundles(c)
  BY <1>1, <1>2, PlacementIs
<1>4. \A i \in 1..Len(group) : group[i] \in Places
  BY <1>3 DEF Distinct
<1>5. CASE config.nodes = 1
  <2>1. OnOneNode(group) /\ ~NodeWise
    BY <1>4, <1>5, OneNodeOnly DEF NodeWise
  <2> QED BY <2>1
<1>6. CASE n = "reward"
  <2>1. Plan(n).gpus = 1
    BY <1>1, <1>2, <1>6, PlanIs
  <2>2. c.unified => n # "reward"
    BY ClusterIs
  <2>3. Len(group) = 1
    BY <1>1, <1>3, <1>6, <2>1, <2>2 DEF Planned, Bundles
  <2> QED BY <1>4, <1>6, <2>3, OneNodeOnly
<1>7. CASE config.nodes # 1 /\ n # "reward" /\ NodeWise
  BY <1>1, <1>7, RoomOnNodes
<1>8. CASE config.nodes # 1 /\ n # "reward" /\ ~NodeWise
  <2>1. config.nodes >= 2
    BY <1>2, <1>8
  <2>2. OnOneNode(group)
    BY <1>8, <2>1, RoomBesideTheOther
  <2> QED BY <1>8, <2>2
<1> QED BY <1>5, <1>6, <1>7, <1>8
-----------------------------------------------------------------------------

(* Placement groups come and go. *)

\* What two equal GPUs of placement groups are.
LEMMA AsunderAt ==
    ASSUME AsunderInv, NEW a \in DOMAIN clusters, NEW b \in DOMAIN clusters,
           NEW k \in 1..Len(clusters[a].groups), NEW l \in 1..Len(clusters[b].groups),
           NEW i \in 1..Len(clusters[a].groups[k]), NEW j \in 1..Len(clusters[b].groups[l]),
           clusters[a].groups[k][i] = clusters[b].groups[l][j]
    PROVE  a = b
BY DEF AsunderInv

\* A group that stays, and one that is new.
Stays(n, k) ==
    /\ k \in 1..Len(clusters[n].groups) /\ clusters'[n].groups[k] = clusters[n].groups[k]
    /\ clusters'[n].unified = clusters[n].unified /\ clusters'[n].spread = clusters[n].spread
Comes(n, group) ==
    /\ \A i \in 1..Len(group) : group[i] \notin Taken
    /\ ~clusters'[n].unified => OnOneNode(group)
    /\ NodeWise /\ n # "reward" /\ ~clusters'[n].spread => WholeNodes(group)

\* A step that only has to do with one cluster.
LEMMA PlacesStep ==
    ASSUME LaunchInv, PlacesInv, NEW n \in DOMAIN clusters, config' = config,
           DOMAIN clusters' = DOMAIN clusters,
           \A m \in DOMAIN clusters \ {n} : clusters'[m] = clusters[m],
           clusters'[n].nodes = clusters[n].nodes, clusters'[n].gpus = clusters[n].gpus,
           clusters'[n].unified \in BOOLEAN,
           clusters'[n].spread = (clusters'[n].unified /\ config.colocated),
           clusters'[n].unified => /\ n # "reward" /\ clusters[n].nodes >= 2
                                   /\ clusters[n].gpus = config.gpus
                                   /\ config.engine > config.gpus /\ config.backend = "vllm",
           Grouped(clusters'[n]),
           \A k \in 1..Len(clusters'[n].groups) : Stays(n, k) \/ Comes(n, clusters'[n].groups[k])
    PROVE  PlacesInv'
<1>1. PlanInv'
  <2>1. Accepted(config') /\ \A m \in DOMAIN clusters' : Plan(m)' = Plan(m)
    BY DEF PlacesInv, PlanInv, Plan
  <2>2. ASSUME NEW m \in DOMAIN clusters
        PROVE  LET c == clusters'[m]
               IN  /\ c.nodes = Plan(m).nodes /\ c.gpus = Plan(m).gpus
                   /\ c.unified \in BOOLEAN /\ c.spread = (c.unified /\ config.colocated)
                   /\ c.unified => /\ m # "reward" /\ c.nodes >= 2 /\ c.gpus = config.gpus
                                   /\ config.engine > config.gpus /\ config.backend = "vllm"
    <3>1. CASE m = n
      <4>1. clusters[n].nodes = Plan(n).nodes /\ clusters[n].gpus = Plan(n).gpus
        BY DEF PlacesInv, PlanInv
      <4> QED BY <3>1, <4>1
    <3>2. CASE m # n
      BY <3>2 DEF PlacesInv, PlanInv
    <3> QED BY <3>1, <3>2
  <2> QED BY <2>1, <2>2 DEF PlacesInv, PlanInv
<1>2. \A m \in DOMAIN clusters' : Grouped(clusters[m])'
  <2> SUFFICES ASSUME NEW m \in DOMAIN clusters PROVE Grouped(clusters[m])'
    OBVIOUS
  <2>1. Grouped(clusters[m]) /\ Grouped(clusters'[n])
    BY DEF PlacesInv
  <2>2. Grouped(clusters[m])' <=> Grouped(clusters'[m])
    BY DEF Grouped, Places
  <2> QED BY <2>1, <2>2
<1>3. AsunderInv'
  <2>1. ASSUME NEW a \in DOMAIN clusters, NEW k \in 1..Len(clusters'[a].groups),
               NEW i \in 1..Len(clusters'[a].groups[k])
        PROVE  \/ /\ k \in 1..Len(clusters[a].groups) /\ i \in 1..Len(clusters[a].groups[k])
                  /\ clusters'[a].groups[k][i] = clusters[a].groups[k][i]
               \/ a = n /\ clusters'[a].groups[k][i] \notin Taken
    BY <2>1 DEF Stays, Comes
  <2>2. \A m \in DOMAIN clusters : Grouped(clusters[m])
    BY DEF PlacesInv
  <2>3. ASSUME NEW a \in DOMAIN clusters, NEW b \in DOMAIN clusters,
               NEW k \in 1..Len(clusters'[a].groups), NEW l \in 1..Len(clusters'[b].groups),
               NEW i \in 1..Len(clusters'[a].groups[k]), NEW j \in 1..Len(clusters'[b].groups[l]),
               clusters'[a].groups[k][i] = clusters'[b].groups[l][j]
        PROVE  a = b
    <3> DEFINE x == clusters'[a].groups[k][i]
               y == clusters'[b].groups[l][j]
    <3>1. \/ /\ k \in 1..Len(clusters[a].groups) /\ i \in 1..Len(clusters[a].groups[k])
             /\ x = clusters[a].groups[k][i]
          \/ a = n /\ x \notin Taken
      BY <2>1
    <3>2. \/ /\ l \in 1..Len(clusters[b].groups) /\ j \in 1..Len(clusters[b].groups[l])
             /\ y = clusters[b].groups[l][j]
          \/ b = n /\ y \notin Taken
      BY <2>1
    <3>3. x = y
      BY <2>3
    <3> HIDE DEF x, y
    <3>4. ASSUME k \in 1..Len(clusters[a].groups), i \in 1..Len(clusters[a].groups[k]),
                 x = clusters[a].groups[k][i]
          PROVE  x \in Taken
      <4>1. clusters[a].groups[k][i] \in Taken
        BY <2>2, <3>4, TakenIs
      <4> QED BY <3>4, <4>1
    <3>5. ASSUME l \in 1..Len(clusters[b].groups), j \in 1..Len(clusters[b].groups[l]),
                 y = clusters[b].groups[l][j]
          PROVE  y \in Taken
      <4>1. clusters[b].groups[l][j] \in Taken
        BY <2>2, <3>5, TakenIs
      <4> QED BY <3>5, <4>1
    <3>6. CASE a = n /\ b = n
      BY <3>6
    <3>7. CASE a # n \/ b # n
      <4>1. /\ k \in 1..Len(clusters[a].groups) /\ i \in 1..Len(clusters[a].groups[k])
            /\ l \in 1..Len(clusters[b].groups) /\ j \in 1..Len(clusters[b].groups[l])
            /\ clusters[a].groups[k][i] = clusters[b].groups[l][j]
        BY <3>1, <3>2, <3>3, <3>4, <3>5, <3>7
      <4>2. AsunderInv /\ a \in DOMAIN clusters /\ b \in DOMAIN clusters
        BY DEF PlacesInv
      <4> QED BY ONLY <4>1, <4>2, AsunderAt
    <3> QED BY <3>6, <3>7
  <2>4. \A a, b \in DOMAIN clusters' :
            \A k \in 1..Len(clusters'[a].groups), l \in 1..Len(clusters'[b].groups) :
                \A i \in 1..Len(clusters'[a].groups[k]), j \in 1..Len(clusters'[b].groups[l]) :
                    clusters'[a].groups[k][i] = clusters'[b].groups[l][j] => a = b
    <3> TAKE a, b \in DOMAIN clusters'
    <3> TAKE k \in 1..Len(clusters'[a].groups), l \in 1..Len(clusters'[b].groups)
    <3> TAKE i \in 1..Len(clusters'[a].groups[k]), j \in 1..Len(clusters'[b].groups[l])
    <3>1. a \in DOMAIN clusters /\ b \in DOMAIN clusters
      OBVIOUS
    <3> QED BY <2>3, <3>1
  <2> QED BY ONLY <2>4 DEF AsunderInv
<1>4. NodesInv'
  <2>1. ASSUME NEW m \in DOMAIN clusters, NEW k \in 1..Len(clusters'[m].groups)
        PROVE  /\ ~clusters'[m].unified => OnOneNode(clusters'[m].groups[k])
               /\ NodeWise /\ m # "reward" /\ ~clusters'[m].spread =>
                      WholeNodes(clusters'[m].groups[k])
    <3>1. CASE m # n
      BY <3>1 DEF PlacesInv, NodesInv
    <3>2. CASE m = n /\ Stays(n, k)
      BY <3>2 DEF Stays, PlacesInv, NodesInv
    <3>3. CASE m = n /\ Comes(n, clusters'[n].groups[k])
      BY <3>3 DEF Comes
    <3> QED BY <2>1, <3>1, <3>2, <3>3
  <2>2. NodeWise' = NodeWise /\ config' = config
    BY DEF NodeWise
  <2>3. \A m \in DOMAIN clusters' : \A k \in 1..Len(clusters'[m].groups) :
            /\ ~clusters'[m].unified =>
                   \A i, j \in 1..Len(clusters'[m].groups[k]) :
                       NodeOf(clusters'[m].groups[k][i]) = NodeOf(clusters'[m].groups[k][j])
            /\ NodeWise' /\ m # "reward" /\ ~clusters'[m].spread =>
                   \A i \in 1..Len(clusters'[m].groups[k]) : \A d \in 0..(config'.gpus - 1) :
                       \E j \in 1..Len(clusters'[m].groups[k]) :
                           clusters'[m].groups[k][j] = <<NodeOf(clusters'[m].groups[k][i]), d>>
    <3> TAKE m \in DOMAIN clusters'
    <3> TAKE k \in 1..Len(clusters'[m].groups)
    <3>1. m \in DOMAIN clusters
      OBVIOUS
    <3>2. /\ ~clusters'[m].unified => OnOneNode(clusters'[m].groups[k])
          /\ NodeWise /\ m # "reward" /\ ~clusters'[m].spread => WholeNodes(clusters'[m].groups[k])
      BY <2>1, <3>1
    <3> QED BY <2>2, <3>2 DEF OnOneNode, WholeNodes
  <2> QED BY ONLY <2>3 DEF NodesInv, OnOneNode, WholeNodes, NodeOf
<1> QED BY <1>1, <1>2, <1>3, <1>4 DEF PlacesInv

\* The placement groups stay when no cluster changes.
LEMMA PlacesFrame == PlacesInv /\ UNCHANGED <<config, clusters>> => PlacesInv'
<1> SUFFICES ASSUME PlacesInv, UNCHANGED <<config, clusters>> PROVE PlacesInv'
  OBVIOUS
<1>1. PlanInv'
  BY DEF PlacesInv, PlanInv, Plan
<1>0. config' = config /\ clusters' = clusters /\ AsunderInv /\ NodesInv
  BY DEF PlacesInv
<1>2. AsunderInv'
  <2>1. \A n, m \in DOMAIN clusters' :
            \A k \in 1..Len(clusters'[n].groups), l \in 1..Len(clusters'[m].groups) :
                \A i \in 1..Len(clusters'[n].groups[k]), j \in 1..Len(clusters'[m].groups[l]) :
                    clusters'[n].groups[k][i] = clusters'[m].groups[l][j] => n = m
    <3> TAKE n, m \in DOMAIN clusters'
    <3> TAKE k \in 1..Len(clusters'[n].groups), l \in 1..Len(clusters'[m].groups)
    <3> TAKE i \in 1..Len(clusters'[n].groups[k]), j \in 1..Len(clusters'[m].groups[l])
    <3> QED BY <1>0, AsunderAt
  <2> QED BY ONLY <2>1 DEF AsunderInv
<1>3. NodesInv'
  <2>1. NodeWise' = NodeWise /\ config' = config
    BY DEF NodeWise
  <2>2. \A m \in DOMAIN clusters' : \A k \in 1..Len(clusters'[m].groups) :
            /\ ~clusters'[m].unified =>
                   \A i, j \in 1..Len(clusters'[m].groups[k]) :
                       NodeOf(clusters'[m].groups[k][i]) = NodeOf(clusters'[m].groups[k][j])
            /\ NodeWise' /\ m # "reward" /\ ~clusters'[m].spread =>
                   \A i \in 1..Len(clusters'[m].groups[k]) : \A d \in 0..(config'.gpus - 1) :
                       \E j \in 1..Len(clusters'[m].groups[k]) :
                           clusters'[m].groups[k][j] = <<NodeOf(clusters'[m].groups[k][i]), d>>
    <3> TAKE m \in DOMAIN clusters'
    <3> TAKE k \in 1..Len(clusters'[m].groups)
    <3>1. /\ ~clusters[m].unified => OnOneNode(clusters[m].groups[k])
          /\ NodeWise /\ m # "reward" /\ ~clusters[m].spread => WholeNodes(clusters[m].groups[k])
      BY <1>0 DEF NodesInv
    <3> QED BY <1>0, <2>1, <3>1 DEF OnOneNode, WholeNodes
  <2> QED BY ONLY <2>2 DEF NodesInv, OnOneNode, WholeNodes, NodeOf
<1>4. \A n \in DOMAIN clusters' : Grouped(clusters[n])'
  BY DEF PlacesInv, Grouped, Places
<1> QED BY <1>1, <1>2, <1>3, <1>4 DEF PlacesInv

\* A cluster whose groups are asked for has none yet.
LEMMA RequestKeepsPlaces ==
    ASSUME LaunchInv, PlacesInv, NEW t \in DOMAIN todo, RequestGroups(t) PROVE PlacesInv'
<1> DEFINE n == Asked(t)
           unified == Unified(t)
           spread == Unified(t) /\ config.colocated
           c == clusters[n]
<1>1. /\ Running(t) /\ ~WrongSize(t) /\ Of(t).state = "none" /\ Of(t) = c
      /\ UNCHANGED <<config, joined, todo, outcome, workers, launch>>
      /\ clusters' = [clusters EXCEPT ![n].state = "requested", ![n].unified = unified,
                          ![n].spread = spread]
  BY DEF RequestGroups, Of
<1>2. n \in DOMAIN clusters /\ SoundCluster(c) /\ n = ClusterOf(Constructed(t))
  BY <1>1, AskedIsKnown DEF Of, Asked
<1>3. unified \in BOOLEAN /\ spread = (unified /\ config.colocated)
  BY DEF Unified
<1>4. /\ Planned(n, c) /\ Grouped(c) /\ c.nodes \in Nat /\ c.gpus \in 1..config.gpus
      /\ config.gpus \in Nat \ {0} /\ config.engine \in Nat \ {0}
      /\ NodeWise /\ n # "reward" => c.gpus = config.gpus
      /\ ~NodeWise => c.nodes = 1
      /\ c.groups = << >>
  BY <1>1, <1>2, ClusterIs, ConfigTypes DEF PlacesInv, LaunchInv, SoundCluster
<1>5. unified => /\ n # "reward" /\ c.nodes >= 2 /\ c.gpus = config.gpus
                 /\ config.engine > config.gpus /\ config.backend = "vllm"
  <2> SUFFICES ASSUME unified
               PROVE  /\ n # "reward" /\ c.nodes >= 2 /\ c.gpus = config.gpus
                      /\ config.engine > config.gpus /\ config.backend = "vllm"
    OBVIOUS
  <2>1. Constructed(t) = "engine" /\ config.backend = "vllm" /\ config.engine > c.gpus
    BY <1>1 DEF Unified
  <2>2. n # "reward"
    BY <1>2, <2>1 DEF ClusterOf
  <2>3. World(c) % config.engine = 0
    BY <1>1, <2>1 DEF WrongSize
  <2>4. c.nodes >= 1
    BY <1>1, SizedHasNode
  <2>5. c.nodes # 1
    <3>1. ASSUME c.nodes = 1 PROVE FALSE
      <4> DEFINE g == c.gpus
                 e == config.engine
      <4>1. World(c) = g
        BY <1>4, <3>1 DEF World
      <4>2. g \in 1..(e - 1) /\ e \in Nat \ {0}
        BY <1>4, <2>1
      <4>3. g % e = 0
        BY <2>3, <4>1
      <4> HIDE DEF g, e
      <4>4. (e * 0 + g) % e = g
        BY <4>2, Quotient
      <4>5. e * 0 + g = g
        BY <4>2
      <4> QED BY <4>2, <4>3, <4>4, <4>5
    <3> QED BY <3>1
  <2>6. c.nodes >= 2
    BY <1>4, <2>4, <2>5
  <2>7. NodeWise
    BY <1>4, <2>5
  <2> QED BY <1>4, <2>1, <2>2, <2>6, <2>7
<1> DEFINE a == [clusters EXCEPT ![n].state = "requested"]
           b == [a EXCEPT ![n].unified = unified]
<1> HIDE DEF n, unified, spread
<1>6. clusters' = [b EXCEPT ![n].spread = spread]
  BY <1>1
<1>7. /\ DOMAIN a = DOMAIN clusters /\ \A m \in DOMAIN clusters \ {n} : a[m] = clusters[m]
      /\ a[n] = [c EXCEPT !.state = "requested"]
  BY <1>2
<1> HIDE DEF a
<1>8. /\ DOMAIN b = DOMAIN clusters /\ \A m \in DOMAIN clusters \ {n} : b[m] = clusters[m]
      /\ b[n] = [a[n] EXCEPT !.unified = unified]
  BY <1>2, <1>7
<1> HIDE DEF b
<1>9. /\ DOMAIN clusters' = DOMAIN clusters
      /\ \A m \in DOMAIN clusters \ {n} : clusters'[m] = clusters[m]
      /\ clusters'[n] = [b[n] EXCEPT !.spread = spread]
  BY <1>2, <1>6, <1>8
<1>10. /\ clusters'[n].nodes = c.nodes /\ clusters'[n].gpus = c.gpus
       /\ clusters'[n].groups = << >> /\ clusters'[n].sorted = c.sorted
       /\ clusters'[n].state = "requested"
       /\ clusters'[n].unified = unified /\ clusters'[n].spread = spread
  BY <1>2, <1>4, <1>7, <1>8, <1>9 DEF SoundCluster, ClusterFields
<1>11. c.sorted = << >>
  BY <1>4 DEF Grouped
<1> HIDE DEF c
<1>12. Grouped(clusters'[n])
  <2>1. Tied(<< >>, Places, Bundles(clusters'[n]))
    BY DEF Tied, Apart
  <2> QED BY <1>10, <1>11, <2>1 DEF Grouped
<1>13. \A k \in 1..Len(clusters'[n].groups) : FALSE
  <2>1. Len(<< >>) = 0
    OBVIOUS
  <2> QED BY <1>10, <2>1
<1>14. config' = config
  BY <1>1
<1> QED BY <1>2, <1>3, <1>5, <1>9, <1>10, <1>12, <1>13, <1>14, PlacesStep DEF c

\* Nor has one that waits for nodes.
LEMMA RetryKeepsPlaces ==
    ASSUME LaunchInv, PlacesInv, NEW t \in DOMAIN todo, RetryLater(t) PROVE PlacesInv'
<1> DEFINE n == Asked(t)
           c == clusters[n]
           now == [clusters[n] EXCEPT !.attempts = @ + 1]
<1>1. /\ Running(t) /\ config' = config
      /\ clusters' = [clusters EXCEPT ![n].attempts = @ + 1]
  BY DEF RetryLater
<1>2. n \in DOMAIN clusters /\ SoundCluster(c)
  BY <1>1, AskedIsKnown DEF Of
<1> HIDE DEF n
<1>3. /\ DOMAIN clusters' = DOMAIN clusters
      /\ \A m \in DOMAIN clusters \ {n} : clusters'[m] = clusters[m]
      /\ clusters'[n] = now
  BY <1>1, <1>2
<1>4. /\ now.nodes = c.nodes /\ now.gpus = c.gpus /\ now.groups = c.groups
      /\ now.state = c.state /\ now.unified = c.unified /\ now.spread = c.spread
      /\ now.sorted = c.sorted
  BY <1>2 DEF SoundCluster, ClusterFields
<1> HIDE DEF now
<1>5. Grouped(clusters'[n])
  <2>1. Grouped(c)
    BY <1>2 DEF PlacesInv
  <2>2. Bundles(now) = Bundles(c) /\ NumGroups(now) = NumGroups(c)
    BY <1>4 DEF Bundles, NumGroups, World
  <2> HIDE DEF c
  <2> QED BY <1>3, <1>4, <2>1, <2>2 DEF Grouped
<1>6. /\ c.unified \in BOOLEAN /\ c.spread = (c.unified /\ config.colocated)
      /\ c.unified => /\ n # "reward" /\ c.nodes >= 2 /\ c.gpus = config.gpus
                      /\ config.engine > config.gpus /\ config.backend = "vllm"
  BY <1>2 DEF PlacesInv, PlanInv
<1>7. \A k \in 1..Len(clusters'[n].groups) : Stays(n, k)
  BY <1>3, <1>4 DEF Stays
<1> QED BY <1>1, <1>2, <1>3, <1>4, <1>5, <1>6, <1>7, PlacesStep

\* A cluster that is given up has none any more.
LEMMA GiveUpKeepsPlaces ==
    ASSUME LaunchInv, PlacesInv, NEW t \in DOMAIN todo, GiveUp(t) PROVE PlacesInv'
<1> DEFINE n == Asked(t)
           c == clusters[n]
           a == [clusters EXCEPT ![n].state = "removed"]
<1>1. /\ Running(t) /\ c.state = "requested" /\ config' = config
      /\ clusters' = [a EXCEPT ![n].groups = << >>]
  BY DEF GiveUp, Of
<1>2. n \in DOMAIN clusters /\ SoundCluster(c)
  BY <1>1, AskedIsKnown DEF Of
<1> HIDE DEF n
<1>3. /\ DOMAIN a = DOMAIN clusters /\ \A m \in DOMAIN clusters \ {n} : a[m] = clusters[m]
      /\ a[n] = [c EXCEPT !.state = "removed"]
  BY <1>2
<1> HIDE DEF a
<1>4. /\ DOMAIN clusters' = DOMAIN clusters
      /\ \A m \in DOMAIN clusters \ {n} : clusters'[m] = clusters[m]
      /\ clusters'[n] = [a[n] EXCEPT !.groups = << >>]
  BY <1>1, <1>2, <1>3
<1>5. /\ clusters'[n].nodes = c.nodes /\ clusters'[n].gpus = c.gpus
      /\ clusters'[n].groups = << >> /\ clusters'[n].state = "removed"
      /\ clusters'[n].unified = c.unified /\ clusters'[n].spread = c.spread
      /\ clusters'[n].sorted = c.sorted
  BY <1>2, <1>3, <1>4 DEF SoundCluster, ClusterFields
<1>6. c.sorted = << >>
  <2>1. Grouped(c)
    BY <1>2 DEF PlacesInv
  <2>2. Len(c.groups) < NumGroups(c)
    BY <1>1, <1>2 DEF SoundCluster
  <2>3. c.groups \in Seq(Seq(Places)) /\ Len(c.groups) \in Nat
    BY <1>2, ClusterIs
  <2> HIDE DEF c
  <2>4. CASE c.unified
    <3>1. Len(c.groups) = 0
      BY <2>2, <2>3, <2>4 DEF NumGroups
    <3>2. c.groups = << >>
      BY <2>3, <3>1
    <3> QED BY <2>1, <3>2 DEF Grouped
  <2>5. CASE ~c.unified
    BY <2>1, <2>5 DEF Grouped
  <2> QED BY <2>4, <2>5
<1>7. /\ c.unified \in BOOLEAN /\ c.spread = (c.unified /\ config.colocated)
      /\ c.unified => /\ n # "reward" /\ c.nodes >= 2 /\ c.gpus = config.gpus
                      /\ config.engine > config.gpus /\ config.backend = "vllm"
  BY <1>2 DEF PlacesInv, PlanInv
<1> HIDE DEF c
<1>8. Grouped(clusters'[n])
  <2>1. Tied(<< >>, Places, Bundles(clusters'[n]))
    BY DEF Tied, Apart
  <2> QED BY <1>5, <1>6, <2>1 DEF Grouped
<1>9. \A k \in 1..Len(clusters'[n].groups) : FALSE
  <2>1. Len(<< >>) = 0
    OBVIOUS
  <2> QED BY <1>5, <2>1
<1> QED BY <1>1, <1>2, <1>4, <1>5, <1>7, <1>8, <1>9, PlacesStep DEF c

\* A group is placed on GPUs that are free.
LEMMA PlaceKeepsPlaces ==
    ASSUME LaunchInv, PlacesInv, NEW n \in DOMAIN clusters, PlaceGroup(n) PROVE PlacesInv'
<1> DEFINE c == clusters[n]
<1>1. PICK group \in Placements(c) :
          LET placed == Append(c.groups, group)
          IN  clusters' = [clusters EXCEPT ![n].groups = placed,
                  ![n].state = IF Len(placed) = NumGroups(c) THEN "ready" ELSE @,
                  ![n].sorted = IF c.unified THEN Sorted(group) ELSE @]
  BY DEF PlaceGroup
<1>2. c.state = "requested" /\ SoundCluster(c) /\ config' = config
  BY DEF PlaceGroup, LaunchInv, ClustersInv
<1> DEFINE placed == Append(c.groups, group)
           state == IF Len(placed) = NumGroups(c) THEN "ready" ELSE c.state
           sorted == IF c.unified THEN Sorted(group) ELSE c.sorted
           a == [clusters EXCEPT ![n].groups = placed]
           b == [a EXCEPT ![n].state = IF Len(placed) = NumGroups(c) THEN "ready" ELSE @]
<1> HIDE DEF placed
<1>3. clusters' = [b EXCEPT ![n].sorted = IF c.unified THEN Sorted(group) ELSE @]
  BY <1>1 DEF placed
<1>4. /\ DOMAIN a = DOMAIN clusters /\ \A m \in DOMAIN clusters \ {n} : a[m] = clusters[m]
      /\ a[n] = [c EXCEPT !.groups = placed]
  OBVIOUS
<1>5. /\ a[n].state = c.state /\ a[n].sorted = c.sorted /\ a[n].groups = placed
      /\ a[n].spread = c.spread /\ a[n].nodes = c.nodes
      /\ a[n].gpus = c.gpus /\ a[n].unified = c.unified /\ DOMAIN a[n] = ClusterFields
  BY <1>2, <1>4 DEF SoundCluster, ClusterFields
<1> HIDE DEF a
<1>6. /\ DOMAIN b = DOMAIN clusters /\ \A m \in DOMAIN clusters \ {n} : b[m] = clusters[m]
      /\ b[n] = [a[n] EXCEPT !.state = state]
  BY <1>4, <1>5
<1>7. b[n].sorted = c.sorted
  BY <1>5, <1>6 DEF ClusterFields
<1> HIDE DEF b
<1>8. /\ DOMAIN clusters' = DOMAIN clusters
      /\ \A m \in DOMAIN clusters \ {n} : clusters'[m] = clusters[m]
      /\ clusters'[n] = [b[n] EXCEPT !.sorted = sorted]
  BY <1>3, <1>6, <1>7
<1> HIDE DEF state, sorted
<1>9. /\ clusters'[n].nodes = c.nodes /\ clusters'[n].gpus = c.gpus /\ clusters'[n].groups = placed
      /\ clusters'[n].state = state /\ clusters'[n].sorted = sorted
      /\ clusters'[n].unified = c.unified /\ clusters'[n].spread = c.spread
  BY <1>5, <1>6, <1>8 DEF ClusterFields
<1>10. /\ Grouped(c) /\ Bundles(c) \in Nat /\ Len(c.groups) \in Nat /\ Len(c.groups) < NumGroups(c)
       /\ c.groups \in Seq(Seq(Places))
  BY <1>2, ClusterIs DEF PlacesInv, SoundCluster
<1>11. /\ Distinct(group, Places) /\ Len(group) = Bundles(c) /\ ToSet(group) \subseteq Free
  <2>1. config \in Configuration /\ joined \in 1..config.nodes
    BY DEF LaunchInv
  <2> QED BY <1>1, <1>10, <2>1, PlacementIs
<1>12. \A i \in 1..Len(group) : group[i] \notin Taken
  BY <1>11 DEF ToSet, Distinct, Free
<1>13. /\ Tied(placed, Places, Bundles(c)) /\ Len(placed) = Len(c.groups) + 1
       /\ \A k \in 1..Len(c.groups) : placed[k] = c.groups[k]
       /\ placed[Len(c.groups) + 1] = group
  <2>1. Tied(c.groups, Places, Bundles(c))
    BY <1>10 DEF Grouped
  <2>2. \A k \in 1..Len(c.groups) : \A i \in 1..Len(c.groups[k]) : c.groups[k][i] \in Taken
    <3>1. \A m \in DOMAIN clusters : Grouped(clusters[m])
      BY DEF PlacesInv
    <3> QED BY <3>1, TakenIs
  <2>3. \A k \in 1..Len(c.groups) : \A i \in 1..Len(c.groups[k]) : \A j \in 1..Len(group) :
            c.groups[k][i] # group[j]
    BY <1>12, <2>2
  <2> HIDE DEF c
  <2> QED BY <1>11, <2>1, <2>3, AppendTied DEF placed
<1>14. /\ c.unified \in BOOLEAN /\ c.spread = (c.unified /\ config.colocated)
       /\ c.unified => /\ n # "reward" /\ c.nodes >= 2 /\ c.gpus = config.gpus
                       /\ config.engine > config.gpus /\ config.backend = "vllm"
  BY DEF PlacesInv, PlanInv
<1>15. /\ ~c.unified => OnOneNode(group)
       /\ NodeWise /\ n # "reward" /\ ~c.spread => WholeNodes(group)
  BY <1>1, <1>2, PlacedNodes
<1> HIDE DEF c
<1>16. Grouped(clusters'[n])
  <2>1. Bundles(clusters'[n]) = Bundles(c) /\ NumGroups(clusters'[n]) = NumGroups(c)
    BY <1>9 DEF Bundles, NumGroups, World
  <2>2. state = "ready" => Len(placed) = NumGroups(c)
    BY <1>2 DEF state
  <2>3. placed # << >>
    BY <1>10, <1>13
  <2>4. c.unified => placed[1] = group /\ sorted = Sorted(group)
    <3>1. ASSUME c.unified PROVE placed[1] = group /\ sorted = Sorted(group)
      <4>1. Len(c.groups) = 0
        BY <1>10, <3>1 DEF NumGroups
      <4> QED BY <1>13, <3>1, <4>1 DEF sorted
    <3> QED BY <3>1
  <2>5. ~c.unified => sorted = << >>
    BY <1>10 DEF Grouped, sorted
  <2> QED BY <1>9, <1>13, <2>1, <2>2, <2>3, <2>4, <2>5 DEF Grouped
<1>17. ASSUME NEW k \in 1..Len(clusters'[n].groups)
       PROVE  Stays(n, k) \/ Comes(n, clusters'[n].groups[k])
  <2>1. k \in 1..Len(c.groups) \/ k = Len(c.groups) + 1
    BY <1>9, <1>10, <1>13
  <2>2. CASE k \in 1..Len(c.groups)
    BY <1>9, <1>13, <2>2 DEF Stays, c
  <2>3. CASE k = Len(c.groups) + 1
    BY <1>9, <1>12, <1>13, <1>15, <2>3 DEF Comes
  <2> QED BY <2>1, <2>2, <2>3
<1> QED BY <1>2, <1>8, <1>9, <1>14, <1>16, <1>17, PlacesStep DEF c
-----------------------------------------------------------------------------

(* Workers are constructed. *)

\* The configuration stays, and with it where workers go.
LEMMA WorkersFrame ==
    ASSUME config' = config
    PROVE  /\ \A x, c : WorkersOf(x, c)' = WorkersOf(x, c)
           /\ \A x, c : Unallocated(x, c)' = Unallocated(x, c)
           /\ \A x : ClusterOf(x)' = ClusterOf(x)
<1>1. \A g : NodeByNode(g)' = NodeByNode(g)
  BY DEF NodeByNode, Those, NodeOf
<1>2. \A c : Servers(c)' = Servers(c)
  BY DEF Servers
<1>3. \A c : Uneven(c)' = Uneven(c)
  BY DEF Uneven
<1>4. \A c : TiedGroups(c)' = TiedGroups(c)
  BY <1>1 DEF TiedGroups, Singly
<1>5. \A x, c : WorkersOf(x, c)' = WorkersOf(x, c)
  BY <1>2, <1>4 DEF WorkersOf, Singly
<1>6. \A x, c : Unallocated(x, c)' = Unallocated(x, c)
  BY <1>3, <1>5 DEF Unallocated, World
<1>7. \A x : ClusterOf(x)' = ClusterOf(x)
  BY DEF ClusterOf
<1> QED BY <1>5, <1>6, <1>7

\* A worker group that is there.
Sits(x, c, ws) ==
    /\ x \in Name /\ c.state = "ready" /\ ws = WorkersOf(x, c) /\ ~Unallocated(x, c)
    /\ x = "engine" /\ config.backend = "vllm" => World(c) % config.engine = 0

\* WorkersInv, group by group.
LEMMA WorkersSit ==
    WorkersInv <=> \A x \in DOMAIN workers : /\ ClusterOf(x) \in DOMAIN clusters
                                             /\ Sits(x, clusters[ClusterOf(x)], workers[x])
  BY DEF WorkersInv, Sits

\* Such a group after a step that keeps the configuration.
LEMMA SitsStill ==
    ASSUME config' = config, NEW x \in DOMAIN workers', ClusterOf(x) \in DOMAIN clusters',
           Sits(x, clusters'[ClusterOf(x)], workers'[x])
    PROVE  /\ x \in Name /\ ClusterOf(x)' \in DOMAIN clusters'
           /\ clusters'[ClusterOf(x)'].state = "ready"
           /\ workers'[x] = WorkersOf(x, clusters[ClusterOf(x)])'
           /\ ~Unallocated(x, clusters[ClusterOf(x)])'
           /\ x = "engine" /\ config'.backend = "vllm" =>
                  World(clusters[ClusterOf(x)])' % config'.engine = 0
BY WorkersFrame DEF Sits, World

\* Clusters that are ready stay as they are.
LEMMA WorkersStep ==
    ASSUME WorkersInv, config' = config, workers' = workers, DOMAIN clusters' = DOMAIN clusters,
           \A m \in DOMAIN clusters : clusters[m].state = "ready" => clusters'[m] = clusters[m]
    PROVE  WorkersInv'
<1> SUFFICES ASSUME NEW x \in DOMAIN workers'
             PROVE  /\ x \in Name /\ ClusterOf(x)' \in DOMAIN clusters'
                    /\ clusters'[ClusterOf(x)'].state = "ready"
                    /\ workers'[x] = WorkersOf(x, clusters[ClusterOf(x)])'
                    /\ ~Unallocated(x, clusters[ClusterOf(x)])'
                    /\ x = "engine" /\ config'.backend = "vllm" =>
                           World(clusters[ClusterOf(x)])' % config'.engine = 0
  BY DEF WorkersInv
<1>1. ClusterOf(x) \in DOMAIN clusters /\ Sits(x, clusters[ClusterOf(x)], workers[x])
  BY WorkersSit
<1>2. clusters[ClusterOf(x)].state = "ready"
  BY <1>1 DEF Sits
<1>3. clusters'[ClusterOf(x)] = clusters[ClusterOf(x)] /\ workers'[x] = workers[x]
  BY <1>1, <1>2
<1>4. ClusterOf(x) \in DOMAIN clusters' /\ Sits(x, clusters'[ClusterOf(x)], workers'[x])
  BY <1>1, <1>3
<1> QED BY <1>4, SitsStill

\* A group that is constructed sits on its cluster, and the others stay.
LEMMA ConstructKeepsWorkers ==
    ASSUME LaunchInv, WorkersInv, NEW t \in DOMAIN todo, Construct(t) PROVE WorkersInv'
<1> DEFINE n == Asked(t)
           new == Constructed(t)
<1>1. /\ Running(t) /\ ~WrongSize(t) /\ Of(t) = clusters[n] /\ clusters[n].state = "ready"
      /\ UNCHANGED <<config, joined, clusters, launch>>
  BY DEF Construct, Of
<1>2. n \in DOMAIN clusters /\ n = ClusterOf(new) /\ new \in Name
  BY <1>1, AskedIsKnown DEF Asked
<1>3. CASE Unallocated(new, Of(t))
  <2>1. UNCHANGED <<config, clusters, workers>>
    BY <1>1, <1>3 DEF Construct
  <2> QED BY <2>1, WorkersStep
<1>4. CASE ~Unallocated(new, Of(t))
  <2>1. workers' = [x \in DOMAIN workers \cup {new} |->
                    IF x = new THEN WorkersOf(x, Of(t)) ELSE workers[x]]
    BY <1>4 DEF Construct
  <2>2. Sits(new, clusters[n], WorkersOf(new, clusters[n]))
    <3>1. new = "engine" /\ config.backend = "vllm" => World(clusters[n]) % config.engine = 0
      BY <1>1 DEF WrongSize
    <3> QED BY <1>1, <1>2, <1>4, <3>1 DEF Sits
  <2> HIDE DEF n, new
  <2>3. ASSUME NEW x \in DOMAIN workers'
        PROVE  ClusterOf(x) \in DOMAIN clusters' /\ Sits(x, clusters'[ClusterOf(x)], workers'[x])
    <3>1. CASE x = new
      BY <1>1, <1>2, <2>1, <2>2, <3>1
    <3>2. CASE x # new
      <4>1. x \in DOMAIN workers /\ workers'[x] = workers[x]
        BY <2>1, <3>2
      <4> QED BY <1>1, <4>1, WorkersSit
    <3> QED BY <3>1, <3>2
  <2>4. config' = config
    BY <1>1
  <2> SUFFICES ASSUME NEW x \in DOMAIN workers'
               PROVE  /\ x \in Name /\ ClusterOf(x)' \in DOMAIN clusters'
                      /\ clusters'[ClusterOf(x)'].state = "ready"
                      /\ workers'[x] = WorkersOf(x, clusters[ClusterOf(x)])'
                      /\ ~Unallocated(x, clusters[ClusterOf(x)])'
                      /\ x = "engine" /\ config'.backend = "vllm" =>
                             World(clusters[ClusterOf(x)])' % config'.engine = 0
    BY DEF WorkersInv
  <2> QED BY <2>3, <2>4, SitsStill
<1> QED BY <1>3, <1>4

\* What is still to be constructed is not lost.
LEMMA ConstructKeepsOrder ==
    ASSUME LaunchInv, ConstructedInv, NEW t \in DOMAIN todo, Construct(t) PROVE ConstructedInv'
<1> DEFINE new == Constructed(t)
<1>1. /\ Running(t) /\ UNCHANGED <<config, joined, clusters, launch>>
      /\ \/ UNCHANGED <<todo, workers>>
         \/ /\ DOMAIN workers' = DOMAIN workers \cup {new}
            /\ todo' = [todo EXCEPT ![t] = Tail(@)]
  BY DEF Construct
<1>2. todo[t] \in Seq(Name) /\ Len(todo[t]) \in Nat \ {0} /\ new = todo[t][1]
  BY <1>1, AskedIsKnown
<1>3. CASE UNCHANGED <<todo, workers>>
  BY <1>1, <1>3 DEF ConstructedInv, Awaited
<1>4. CASE DOMAIN workers' = DOMAIN workers \cup {new} /\ todo' = [todo EXCEPT ![t] = Tail(@)]
  <2> HIDE DEF new
  <2>1. /\ DOMAIN todo' = DOMAIN todo
        /\ \A u \in DOMAIN todo \ {t} : todo'[u] = todo[u]
        /\ todo'[t] = Tail(todo[t])
    BY <1>4
  <2>2. /\ Len(todo'[t]) = Len(todo[t]) - 1
        /\ \A i \in 2..Len(todo[t]) : i - 1 \in 1..Len(todo'[t]) /\ todo'[t][i - 1] = todo[t][i]
    BY <1>2, <2>1
  <2>3. Awaited' = Awaited
    BY <2>1 DEF Awaited
  <2>4. ASSUME NEW x \in {"policy", "engine"}
        PROVE  x \in DOMAIN workers' \/ \E u \in Awaited : \E i \in 1..Len(todo'[u]) : todo'[u][i] = x
    <3>1. CASE x \in DOMAIN workers
      BY <1>4, <3>1
    <3>2. CASE \E u \in Awaited : \E i \in 1..Len(todo[u]) : todo[u][i] = x
      <4>1. PICK u \in Awaited : \E i \in 1..Len(todo[u]) : todo[u][i] = x
        BY <3>2
      <4>2. PICK i \in 1..Len(todo[u]) : todo[u][i] = x
        BY <4>1
      <4>3. CASE u # t
        BY <2>1, <4>2, <4>3 DEF Awaited
      <4>4. CASE u = t /\ i = 1
        BY <1>2, <1>4, <4>2, <4>4
      <4>5. CASE u = t /\ i # 1
        <5>1. i \in 2..Len(todo[t])
          BY <1>2, <4>5
        <5> QED BY <2>2, <4>2, <4>5, <5>1
      <4> QED BY <4>3, <4>4, <4>5
    <3> QED BY <3>1, <3>2 DEF ConstructedInv
  <2>5. ASSUME launch \in {"connecting", "ready"}, NEW u \in Awaited PROVE todo'[u] = << >>
    <3>1. todo[u] = << >>
      BY <2>5 DEF ConstructedInv
    <3>2. u # t
      BY <1>1, <3>1 DEF Running
    <3> QED BY <2>1, <3>1, <3>2 DEF Awaited
  <2> QED BY <1>1, <2>3, <2>4, <2>5 DEF ConstructedInv
<1> QED BY <1>1, <1>3, <1>4

\* Until setup() goes on nothing changes in what is to be constructed.
LEMMA OrderStep ==
    ASSUME ConstructedInv, UNCHANGED <<config, todo, workers>>,
           \/ launch' = launch
           \/ launch = "connecting" /\ launch' = "ready"
           \/ launch' = "failed"
           \/ /\ \A t \in Awaited : todo[t] = << >>
              /\ launch' = IF config.colocated THEN "ready" ELSE "connecting"
    PROVE  ConstructedInv'
<1>1. Awaited' = Awaited
  BY DEF Awaited
<1>2. \A x \in {"policy", "engine"} :
          x \in DOMAIN workers' \/ \E t \in Awaited' : \E i \in 1..Len(todo'[t]) : todo'[t][i] = x
  BY <1>1 DEF ConstructedInv
<1>3. launch' \in {"connecting", "ready"} => \A t \in Awaited' : todo'[t] = << >>
  BY <1>1 DEF ConstructedInv
<1>4. launch' = "connecting" => ~config'.colocated
  BY DEF ConstructedInv
<1> QED BY <1>2, <1>3, <1>4 DEF ConstructedInv

\* A step of setup() keeps to the layout.
LEMMA LayoutStep == LayoutInv /\ [LaunchNext]_launchVars => LayoutInv'
<1> SUFFICES ASSUME LayoutInv, [LaunchNext]_launchVars PROVE LayoutInv'
  OBVIOUS
<1>0. /\ LaunchInv /\ PlacesInv /\ WorkersInv /\ ConstructedInv /\ LaunchInv'
  BY LaunchStep DEF LayoutInv
<1>1. CASE Join \/ UNCHANGED launchVars
  <2>1. UNCHANGED <<config, clusters, todo, workers, launch>>
    BY <1>1 DEF Join, launchVars
  <2> QED BY <1>0, <2>1, PlacesFrame, WorkersStep, OrderStep DEF LayoutInv
<1>2. ASSUME NEW t \in DOMAIN todo, RefuseSize(t) PROVE LayoutInv'
  <2>1. UNCHANGED <<config, clusters, todo, workers, launch>>
    BY <1>2 DEF RefuseSize
  <2> QED BY <1>0, <2>1, PlacesFrame, WorkersStep, OrderStep DEF LayoutInv
<1>3. ASSUME NEW t \in DOMAIN todo, RequestGroups(t) PROVE LayoutInv'
  <2>1. PlacesInv'
    BY <1>0, <1>3, RequestKeepsPlaces
  <2>2. /\ UNCHANGED <<config, todo, workers, launch>> /\ DOMAIN clusters' = DOMAIN clusters
        /\ \A m \in DOMAIN clusters : clusters[m].state = "ready" => clusters'[m] = clusters[m]
    BY <1>3 DEF RequestGroups, Of
  <2> QED BY <1>0, <2>1, <2>2, WorkersStep, OrderStep DEF LayoutInv
<1>4. ASSUME NEW t \in DOMAIN todo, RetryLater(t) PROVE LayoutInv'
  <2>1. PlacesInv'
    BY <1>0, <1>4, RetryKeepsPlaces
  <2>2. /\ UNCHANGED <<config, todo, workers, launch>> /\ DOMAIN clusters' = DOMAIN clusters
        /\ \A m \in DOMAIN clusters : clusters[m].state = "ready" => clusters'[m] = clusters[m]
    BY <1>4 DEF RetryLater, Of
  <2> QED BY <1>0, <2>1, <2>2, WorkersStep, OrderStep DEF LayoutInv
<1>5. ASSUME NEW t \in DOMAIN todo, Construct(t) PROVE LayoutInv'
  <2>1. UNCHANGED <<config, clusters>>
    BY <1>5 DEF Construct
  <2> QED BY <1>0, <1>5, <2>1, PlacesFrame, ConstructKeepsWorkers, ConstructKeepsOrder DEF LayoutInv
<1>6. CASE Constructs
  <2>1. UNCHANGED <<config, clusters, todo, workers>>
    BY <1>6 DEF Constructs
  <2>2. \/ launch' = "failed"
        \/ /\ \A t \in Awaited : todo[t] = << >>
           /\ launch' = IF config.colocated THEN "ready" ELSE "connecting"
    BY <1>6 DEF Constructs, Running
  <2> QED BY <1>0, <2>1, <2>2, PlacesFrame, WorkersStep, OrderStep DEF LayoutInv
<1>7. CASE Connect
  <2>1. UNCHANGED <<config, clusters, todo, workers>> /\ launch = "connecting" /\ launch' = "ready"
    BY <1>7 DEF Connect
  <2> QED BY <1>0, <2>1, PlacesFrame, WorkersStep, OrderStep DEF LayoutInv
<1>8. ASSUME NEW n \in DOMAIN clusters, PlaceGroup(n) PROVE LayoutInv'
  <2>1. PlacesInv'
    BY <1>0, <1>8, PlaceKeepsPlaces
  <2>2. UNCHANGED <<config, todo, workers, launch>> /\ clusters[n].state = "requested"
    BY <1>8 DEF PlaceGroup
  <2>3. PICK group :
          LET cluster == clusters[n]
              placed == Append(cluster.groups, group)
          IN  clusters' = [clusters EXCEPT ![n].groups = placed,
                  ![n].state = IF Len(placed) = NumGroups(cluster) THEN "ready" ELSE @,
                  ![n].sorted = IF cluster.unified THEN Sorted(group) ELSE @]
    BY <1>8 DEF PlaceGroup
  <2>4. /\ DOMAIN clusters' = DOMAIN clusters
        /\ \A m \in DOMAIN clusters : clusters[m].state = "ready" => clusters'[m] = clusters[m]
    BY <2>2, <2>3
  <2> QED BY <1>0, <2>1, <2>2, <2>4, WorkersStep, OrderStep DEF LayoutInv
<1>9. ASSUME NEW t \in DOMAIN todo, GiveUp(t) PROVE LayoutInv'
  <2>1. PlacesInv'
    BY <1>0, <1>9, GiveUpKeepsPlaces
  <2>2. /\ UNCHANGED <<config, todo, workers, launch>> /\ DOMAIN clusters' = DOMAIN clusters
        /\ \A m \in DOMAIN clusters : clusters[m].state = "ready" => clusters'[m] = clusters[m]
    BY <1>9 DEF GiveUp, Of
  <2> QED BY <1>0, <2>1, <2>2, WorkersStep, OrderStep DEF LayoutInv
<1> QED
  BY <1>1, <1>2, <1>3, <1>4, <1>5, <1>6, <1>7, <1>8, <1>9 DEF LaunchNext, Setup, Ray

\* What the threads of setup() begin with.
LEMMA ThreadsAre ==
    ASSUME config \in Configuration, todo = Threads(config)
    PROVE  /\ DOMAIN todo \subseteq {"setup", "engine", "reward"} /\ "setup" \in DOMAIN todo
           /\ "reward" \in DOMAIN todo => config.reward = 1 /\ todo["reward"] = <<"reward">>
           /\ "engine" \in DOMAIN todo => todo["engine"] = <<"engine">>
           /\ todo["setup"] \in {<<"teacher", "engine", "policy">>, <<"engine", "policy">>, <<"policy">>}
           /\ "engine" \in DOMAIN todo \/ todo["setup"] # <<"policy">>
<1> DEFINE apart == config.algorithm # "distillation" /\ ~config.colocated
           inSetup == IF config.algorithm = "distillation" THEN <<"teacher", "engine", "policy">>
                      ELSE IF config.colocated THEN <<"engine", "policy">> ELSE <<"policy">>
           D == {"setup"} \cup {x \in {"engine"} : apart} \cup {x \in {"reward"} : config.reward > 0}
<1>1. todo = [t \in D |-> IF t = "setup" THEN inSetup ELSE <<t>>]
  BY DEF Threads
<1>2. inSetup \in {<<"teacher", "engine", "policy">>, <<"engine", "policy">>, <<"policy">>}
  OBVIOUS
<1>3. apart \/ inSetup # <<"policy">>
  OBVIOUS
<1>4. /\ D \subseteq {"setup", "engine", "reward"} /\ "setup" \in D
      /\ "engine" \in D <=> apart
      /\ "reward" \in D => config.reward > 0
  OBVIOUS
<1>5. config.reward \in {0, 1}
  BY ConfigTypes
<1> HIDE DEF D, apart, inSetup
<1>6. DOMAIN todo = D /\ \A t \in D : todo[t] = IF t = "setup" THEN inSetup ELSE <<t>>
  BY <1>1
<1> QED BY <1>2, <1>3, <1>4, <1>5, <1>6

\* The layout begins without placement groups and workers.
LEMMA LayoutBegins == LaunchInit => LayoutInv
<1> SUFFICES ASSUME LaunchInit PROVE LayoutInv
  OBVIOUS
<1>0. LaunchInv
  BY LaunchBegins
<1>1. /\ config \in Configuration /\ Accepted(config) /\ todo = Threads(config)
      /\ workers = << >> /\ launch = "constructing"
      /\ clusters = [name \in {ClusterOf(x) : x \in UNION {ToSet(todo[t]) : t \in DOMAIN todo}} |->
             CASE name = "train" -> TrainCluster(config)
               [] name = "inference" -> InferenceCluster(config)
               [] name = "reward" -> NewCluster(1, config.reward, 1)]
  BY DEF LaunchInit
<1>2. \A n \in DOMAIN clusters : clusters[n] = Plan(n)
  BY <1>1 DEF Plan
<1>3. \A n \in DOMAIN clusters :
          /\ n \in {"train", "inference", "reward"}
          /\ n = "inference" => ~config.colocated
          /\ n = "reward" => config.reward = 1
  <2> SUFFICES ASSUME NEW n \in DOMAIN clusters
               PROVE  /\ n \in {"train", "inference", "reward"}
                      /\ n = "inference" => ~config.colocated
                      /\ n = "reward" => config.reward = 1
    OBVIOUS
  <2>0. PICK t \in DOMAIN todo : \E x \in ToSet(todo[t]) : n = ClusterOf(x)
    BY <1>1
  <2>1. PICK x \in ToSet(todo[t]) : n = ClusterOf(x)
    BY <2>0
  <2>2. n = "reward" <=> x = "reward"
    BY <2>1 DEF ClusterOf
  <2>3. n \in {"train", "inference", "reward"} /\ (n = "inference" => ~config.colocated)
    BY <2>1 DEF ClusterOf
  <2>4. ASSUME x = "reward" PROVE config.reward = 1
    <3>1. CASE t = "reward"
      BY <1>1, <3>1, ThreadsAre
    <3>2. CASE t = "engine"
      <4>1. x \in ToSet(<<"engine">>)
        BY <1>1, <2>1, <3>2, ThreadsAre
      <4> QED BY <2>4, <4>1 DEF ToSet
    <3>3. CASE t = "setup"
      <4>1. \E s \in {<<"teacher", "engine", "policy">>, <<"engine", "policy">>, <<"policy">>} :
                x \in ToSet(s)
        BY <1>1, <2>1, <3>3, ThreadsAre
      <4>2. x # "reward"
        BY ONLY <4>1 DEF ToSet
      <4> QED BY <2>4, <4>2
    <3> QED BY <1>1, <3>1, <3>2, <3>3, ThreadsAre
  <2> QED BY <2>2, <2>3, <2>4
<1>4. \A n \in DOMAIN clusters :
          /\ ~clusters[n].unified /\ ~clusters[n].spread /\ clusters[n].state = "none"
          /\ clusters[n].groups = << >> /\ clusters[n].sorted = << >>
  BY <1>2, <1>3 DEF Plan, TrainCluster, InferenceCluster, NewCluster
<1>5. \A n \in DOMAIN clusters : clusters[n].unified \in BOOLEAN /\ clusters[n].spread \in BOOLEAN
  <2> SUFFICES ASSUME NEW n \in DOMAIN clusters
               PROVE  clusters[n].unified \in BOOLEAN /\ clusters[n].spread \in BOOLEAN
    OBVIOUS
  <2>1. \A p, q, r : NewCluster(p, q, r).unified = FALSE /\ NewCluster(p, q, r).spread = FALSE
    BY DEF NewCluster
  <2>2. \E p, q, r : clusters[n] = NewCluster(p, q, r)
    <3>1. CASE n = "train"
      BY <1>2, <3>1 DEF Plan, TrainCluster
    <3>2. CASE n = "inference"
      BY <1>2, <3>2 DEF Plan, InferenceCluster
    <3>3. CASE n = "reward"
      BY <1>2, <3>3 DEF Plan
    <3> QED BY <1>3, <3>1, <3>2, <3>3
  <2> QED BY <2>1, <2>2
<1>6. PlanInv
  <2>1. DOMAIN clusters \subseteq {"train", "inference", "reward"}
        /\ ("inference" \in DOMAIN clusters => ~config.colocated)
        /\ ("reward" \in DOMAIN clusters => config.reward = 1)
    <3>1. DOMAIN clusters \subseteq {"train", "inference", "reward"}
      BY <1>3
    <3>2. "inference" \in DOMAIN clusters => ~config.colocated
      BY <1>3
    <3>3. "reward" \in DOMAIN clusters => config.reward = 1
      BY <1>3
    <3> QED BY ONLY <3>1, <3>2, <3>3
  <2>2. ASSUME NEW n \in DOMAIN clusters
        PROVE  LET c == clusters[n]
               IN  /\ c.nodes = Plan(n).nodes /\ c.gpus = Plan(n).gpus
                   /\ c.unified \in BOOLEAN /\ c.spread = (c.unified /\ config.colocated)
                   /\ c.unified => /\ n # "reward" /\ c.nodes >= 2 /\ c.gpus = config.gpus
                                   /\ config.engine > config.gpus /\ config.backend = "vllm"
    <3>1. clusters[n].nodes = Plan(n).nodes /\ clusters[n].gpus = Plan(n).gpus
      BY <1>2
    <3>2. ~clusters[n].unified /\ ~clusters[n].spread /\ clusters[n].unified \in BOOLEAN /\ clusters[n].spread \in BOOLEAN
      BY <1>4, <1>5
    <3>3. clusters[n].spread = (clusters[n].unified /\ config.colocated)
      BY <3>2
    <3> QED BY <3>1, <3>2, <3>3
  <2> QED BY <1>1, <2>1, <2>2 DEF PlanInv
<1>7. \A n \in DOMAIN clusters : Grouped(clusters[n])
  <2> SUFFICES ASSUME NEW n \in DOMAIN clusters PROVE Grouped(clusters[n])
    OBVIOUS
  <2>1. << >> \in Seq(Seq(Places)) /\ Len(<< >>) = 0
    OBVIOUS
  <2>2. Tied(<< >>, Places, Bundles(clusters[n]))
    BY ONLY <2>1 DEF Tied, Apart
  <2> QED BY <1>4, <2>2 DEF Grouped
<1>8. AsunderInv
  <2>1. \A n \in DOMAIN clusters : 1..Len(clusters[n].groups) = {}
    BY <1>4
  <2> QED BY <2>1 DEF AsunderInv
<1>9. NodesInv
  <2>1. \A n \in DOMAIN clusters : 1..Len(clusters[n].groups) = {}
    BY <1>4
  <2> QED BY <2>1 DEF NodesInv
<1>10. WorkersInv
  BY <1>1 DEF WorkersInv
<1>11. ConstructedInv
  <2>1. "setup" \in Awaited /\ ("engine" \in DOMAIN todo => "engine" \in Awaited)
    BY <1>1, ThreadsAre DEF Awaited
  <2>2. ASSUME NEW s \in {<<"teacher", "engine", "policy">>, <<"engine", "policy">>, <<"policy">>}
        PROVE  /\ \E i \in 1..Len(s) : s[i] = "policy"
               /\ s = <<"policy">> \/ \E i \in 1..Len(s) : s[i] = "engine"
    <3>1. CASE s = <<"teacher", "engine", "policy">>
      <4>1. Len(s) = 3 /\ s[2] = "engine" /\ s[3] = "policy"
        BY <3>1
      <4> QED BY <4>1
    <3>2. CASE s = <<"engine", "policy">>
      <4>1. Len(s) = 2 /\ s[1] = "engine" /\ s[2] = "policy"
        BY <3>2
      <4> QED BY <4>1
    <3>3. CASE s = <<"policy">>
      <4>1. Len(s) = 1 /\ s[1] = "policy"
        BY <3>3
      <4> QED BY <3>3, <4>1
    <3> QED BY <3>1, <3>2, <3>3
  <2>3. /\ \E i \in 1..Len(todo["setup"]) : todo["setup"][i] = "policy"
        /\ todo["setup"] = <<"policy">> \/ \E i \in 1..Len(todo["setup"]) : todo["setup"][i] = "engine"
    BY <1>1, <2>2, ThreadsAre
  <2>4. \E t \in Awaited : \E i \in 1..Len(todo[t]) : todo[t][i] = "policy"
    BY <2>1, <2>3
  <2>5. \E t \in Awaited : \E i \in 1..Len(todo[t]) : todo[t][i] = "engine"
    <3>1. CASE "engine" \in DOMAIN todo
      <4>1. todo["engine"] = <<"engine">>
        BY <1>1, <3>1, ThreadsAre
      <4>2. Len(todo["engine"]) = 1 /\ todo["engine"][1] = "engine"
        BY <4>1
      <4> QED BY <2>1, <3>1, <4>2
    <3>2. CASE "engine" \notin DOMAIN todo
      BY <1>1, <2>1, <2>3, <3>2, ThreadsAre
    <3> QED BY <3>1, <3>2
  <2> QED BY <1>1, <2>4, <2>5 DEF ConstructedInv
<1> QED BY <1>0, <1>6, <1>7, <1>8, <1>9, <1>10, <1>11 DEF LayoutInv, PlacesInv

\* The layout is kept until the refit is prepared.
LEMMA LayoutInvariant == RefitSpec => [](stage = "launch" => LayoutInv)
<1>1. RefitInit => LaunchInit
  BY DEF RefitInit
<1>2. (stage = "launch" => LayoutInv) /\ [RefitNext]_refitVars => (stage = "launch" => LayoutInv)'
  <2> SUFFICES ASSUME stage = "launch" => LayoutInv, [RefitNext]_refitVars, stage' = "launch"
               PROVE  LayoutInv'
    OBVIOUS
  <2>1. stage = "launch" /\ [LaunchNext]_launchVars
    BY DEF RefitNext, refitVars, Launching, Trainers, Prepare, Return, RaiseError,
           OverIPC, OverNCCL, OverHTTP
  <2> QED BY <2>1, LayoutStep
<1> QED BY <1>1, <1>2, LayoutBegins, PTL DEF RefitSpec

\* Workers on some GPUs, a worker on each of them.
Within(ws, e, S) == \A k \in 1..Len(ws) : \A i \in 1..e : ws[k][i] \in S
OnEach(ws, S) == \A gpu \in S : \E k \in 1..Len(ws) : ws[k][1] = gpu

\* A list in slices: each element once, if the size divides the length, and no others.
LEMMA SlicesKeep ==
    ASSUME NEW S, NEW e, e \in Nat \ {0}, NEW list, Distinct(list, S)
    PROVE  /\ Tied(Slices(list, e), S, e) /\ Within(Slices(list, e), e, ToSet(list))
           /\ e = 1 => Len(Slices(list, e)) = Len(list) /\ OnEach(Slices(list, e), ToSet(list))
<1> DEFINE ws == Slices(list, e)
<1>0. Len(list) \in Nat /\ DOMAIN list = 1..Len(list)
  BY DEF Distinct
<1>1. /\ Tied(ws, S, e) /\ Len(ws) = Len(list) \div e
      /\ \A k \in 1..Len(ws) : \A i \in 1..e :
             /\ (k - 1) * e + i \in 1..Len(list)
             /\ ws[k][i] = list[(k - 1) * e + i]
  <2>1. Tied(ws, S, e) /\ SlicesOf(ws, list, e) /\ Len(ws) = Len(list) \div e
    BY SlicesAreTied
  <2> QED BY ONLY <2>1 DEF SlicesOf
<1>2. \A k \in 1..Len(ws) : \A i \in 1..e : ws[k][i] \in ToSet(list)
  BY <1>0, <1>1 DEF ToSet
<1>3. ASSUME e = 1
      PROVE  /\ Len(ws) = Len(list)
             /\ \A gpu \in ToSet(list) : \E k \in 1..Len(ws) : ws[k][1] = gpu
  <2>1. Len(ws) = Len(list)
    <3>1. Len(ws) = Len(list) \div 1 /\ Len(list) \in Nat
      BY <1>0, <1>1, <1>3
    <3> QED BY ONLY <3>1
  <2>2. ASSUME NEW gpu \in ToSet(list) PROVE \E k \in 1..Len(ws) : ws[k][1] = gpu
    <3>1. PICK p \in 1..Len(list) : list[p] = gpu
      BY <1>0 DEF ToSet
    <3>2. ws[p][1] = list[(p - 1) * 1 + 1] /\ (p - 1) * 1 + 1 = p
      BY <1>0, <1>1, <1>3, <2>1
    <3> QED BY <2>1, <3>1, <3>2
  <2> QED BY <2>1, <2>2
<1>4. Tied(ws, S, e) /\ Within(ws, e, ToSet(list)) /\ (e = 1 => Len(ws) = Len(list) /\ OnEach(ws, ToSet(list)))
  <2> HIDE DEF ws
  <2> QED BY ONLY <1>1, <1>2, <1>3 DEF Within, OnEach
<1> QED BY <1>4

-----------------------------------------------------------------------------

(* The GPUs of a cluster. *)

\* The GPUs of the bundles of a cluster, and the lists of them.
Bundled(n) == ToSet(FlattenSeq(clusters[n].groups))
Lists(list, n) == Distinct(list, Places) /\ ToSet(list) = Bundled(n)

\* A ready cluster has as many GPUs as it was planned with, those of its groups.
LEMMA BundledIs ==
    ASSUME LaunchInv, PlacesInv, NEW n \in DOMAIN clusters
    PROVE  /\ Lists(FlattenSeq(clusters[n].groups), n)
           /\ clusters[n].state = "ready" => /\ Len(FlattenSeq(clusters[n].groups)) = World(clusters[n])
                                             /\ Len(clusters[n].groups) = NumGroups(clusters[n])
           /\ \A gpu \in Bundled(n) : \E k \in 1..Len(clusters[n].groups) :
                  \E i \in 1..Len(clusters[n].groups[k]) : gpu = clusters[n].groups[k][i]
           /\ \A k \in 1..Len(clusters[n].groups) : \A i \in 1..Len(clusters[n].groups[k]) :
                  clusters[n].groups[k][i] \in Bundled(n)
           /\ \A k \in 1..Len(clusters[n].groups) :
                  /\ Distinct(clusters[n].groups[k], Places)
                  /\ Len(clusters[n].groups[k]) = Bundles(clusters[n])
<1> DEFINE c == clusters[n]
           flat == FlattenSeq(c.groups)
<1>1. Grouped(c)
  BY DEF PlacesInv
<1>2. Tied(c.groups, Places, Bundles(c)) /\ (c.state = "ready" => Len(c.groups) = NumGroups(c))
  BY <1>1 DEF Grouped
<1>3. /\ c.nodes \in Nat /\ c.gpus \in Nat /\ Bundles(c) \in Nat /\ c.unified \in BOOLEAN
  BY ClusterIs
<1>4. /\ Distinct(flat, Places) /\ AllOf(flat, c.groups, Len(c.groups))
      /\ Len(flat) = Len(c.groups) * Bundles(c)
  BY <1>2, <1>3, TiedFlattens DEF Evenly
<1> HIDE DEF c, flat
<1>5. ASSUME c.state = "ready" PROVE Len(flat) = World(c)
  <2>1. Len(flat) = NumGroups(c) * Bundles(c)
    BY <1>2, <1>4, <1>5
  <2>2. CASE c.unified
    <3>1. NumGroups(c) = 1 /\ Bundles(c) = World(c)
      BY <2>2 DEF NumGroups, Bundles
    <3>2. 1 * Bundles(c) = Bundles(c)
      BY <1>3
    <3> QED BY <2>1, <3>1, <3>2
  <2>3. CASE ~c.unified
    BY <2>1, <2>3 DEF NumGroups, Bundles, World
  <2> QED BY <2>2, <2>3
<1>6. DOMAIN flat = 1..Len(flat)
  BY <1>4 DEF Distinct
<1>7. Lists(flat, n)
  BY <1>4 DEF Lists, Bundled, flat, c
<1>8. \A gpu \in ToSet(flat) : \E k \in 1..Len(c.groups) : \E i \in 1..Len(c.groups[k]) :
          gpu = c.groups[k][i]
  BY <1>4, <1>6 DEF AllOf, ToSet
<1>9. \A k \in 1..Len(c.groups) : \A i \in 1..Len(c.groups[k]) : c.groups[k][i] \in ToSet(flat)
  BY <1>4, <1>6 DEF AllOf, ToSet
<1>10. ASSUME NEW k \in 1..Len(c.groups)
       PROVE  Distinct(c.groups[k], Places) /\ Len(c.groups[k]) = Bundles(c)
  <2>1. c.groups[k] \in Seq(Places) /\ Len(c.groups[k]) = Bundles(c)
    BY <1>2 DEF Tied
  <2>2. ASSUME NEW i \in 1..Len(c.groups[k]), NEW j \in 1..Len(c.groups[k]),
               c.groups[k][i] = c.groups[k][j]
        PROVE  i = j
    BY <1>2, <2>2 DEF Tied, Apart
  <2> QED BY <2>1, <2>2 DEF Distinct
<1>11. Bundled(n) = ToSet(flat)
  BY DEF Bundled, flat, c
<1> QED BY <1>2, <1>5, <1>7, <1>8, <1>9, <1>10, <1>11 DEF c, flat

\* Such a list has all of them.
LEMMA ListsAll ==
    ASSUME LaunchInv, PlacesInv, NEW n \in DOMAIN clusters, clusters[n].state = "ready",
           NEW list, Lists(list, n)
    PROVE  Len(list) = World(clusters[n])
<1>1. Lists(FlattenSeq(clusters[n].groups), n)
      /\ Len(FlattenSeq(clusters[n].groups)) = World(clusters[n])
  BY BundledIs
<1>2. Cardinality(ToSet(list)) = Len(list)
  BY DistinctCounts DEF Lists
<1>3. Cardinality(ToSet(FlattenSeq(clusters[n].groups))) = Len(FlattenSeq(clusters[n].groups))
  BY <1>1, DistinctCounts DEF Lists
<1> QED BY <1>1, <1>2, <1>3 DEF Lists

\* A single group, sorted or taken node by node, is such a list.
LEMMA SingleGroup ==
    ASSUME LaunchInv, PlacesInv, NEW n \in DOMAIN clusters, Len(clusters[n].groups) = 1
    PROVE  /\ Lists(clusters[n].groups[1], n) /\ Lists(Sorted(clusters[n].groups[1]), n)
           /\ Lists(NodeByNode(clusters[n].groups[1]), n)
           /\ Len(Sorted(clusters[n].groups[1])) \in Nat \ {0}
<1> DEFINE group == clusters[n].groups[1]
<1>1. /\ Distinct(group, Places) /\ Len(group) = Bundles(clusters[n])
      /\ \A i \in 1..Len(group) : group[i] \in Bundled(n)
      /\ \A gpu \in Bundled(n) : \E i \in 1..Len(group) : gpu = group[i]
  <2>1. 1 \in 1..Len(clusters[n].groups) /\ \A k \in 1..Len(clusters[n].groups) : k = 1
    OBVIOUS
  <2>2. Distinct(group, Places) /\ Len(group) = Bundles(clusters[n])
    BY <2>1, BundledIs
  <2>3. \A i \in 1..Len(group) : group[i] \in Bundled(n)
    BY <2>1, BundledIs
  <2>4. ASSUME NEW gpu \in Bundled(n) PROVE \E i \in 1..Len(group) : gpu = group[i]
    <3>1. PICK k \in 1..Len(clusters[n].groups) :
              \E i \in 1..Len(clusters[n].groups[k]) : gpu = clusters[n].groups[k][i]
      BY BundledIs
    <3>2. k = 1
      BY <2>1
    <3> QED BY <3>1, <3>2
  <2> QED BY <2>2, <2>3, <2>4
<1>2. Bundles(clusters[n]) \in Nat \ {0}
  BY ClusterIs
<1>3. config.nodes \in Nat /\ config.gpus \in Nat \ {0}
  BY ConfigTypes DEF LaunchInv
<1> HIDE DEF group
<1>4. ToSet(group) = Bundled(n)
  <2>1. DOMAIN group = 1..Len(group)
    BY <1>1 DEF Distinct
  <2> QED BY <1>1, <2>1 DEF ToSet
<1>5. Distinct(group, Nat \X (0..(config.gpus - 1)))
  <2>1. Places \subseteq Nat \X (0..(config.gpus - 1))
    BY <1>3 DEF Places
  <2>2. group \in Seq(Nat \X (0..(config.gpus - 1)))
    BY <1>1, <2>1 DEF Distinct
  <2> QED BY <1>1, <2>2 DEF Distinct
<1>6. /\ Distinct(Sorted(group), Nat \X (0..(config.gpus - 1)))
      /\ ToSet(Sorted(group)) = ToSet(group) /\ Len(Sorted(group)) = Len(group)
  BY <1>3, <1>5, SortedKeeps
<1>7. Distinct(Sorted(group), Places)
  <2>1. ToSet(group) \subseteq Places
    BY <1>1, DistinctCounts
  <2>2. \A k \in 1..Len(Sorted(group)) : Sorted(group)[k] \in Places
    <3>1. DOMAIN Sorted(group) = 1..Len(Sorted(group))
      BY <1>6 DEF Distinct
    <3> QED BY <1>6, <2>1, <3>1 DEF ToSet
  <2>3. Sorted(group) \in Seq(Places)
    <3>1. Sorted(group) \in Seq(Nat \X (0..(config.gpus - 1)))
      BY <1>6 DEF Distinct
    <3> HIDE DEF Sorted
    <3> QED BY <2>2, <3>1
  <2> QED BY <1>6, <2>3 DEF Distinct
<1>8. Distinct(NodeByNode(group), Places) /\ ToSet(NodeByNode(group)) = ToSet(group)
  BY <1>1, <1>3, NodeByNodeKeeps DEF Places
<1> QED BY <1>1, <1>2, <1>4, <1>6, <1>7, <1>8 DEF Lists, group

\* Workers on the GPUs of a cluster, each on one of its own.
WorkersOn(ws, n, e) ==
    Tied(ws, Places, e) /\ Within(ws, e, Bundled(n))

\* A worker on every GPU of a cluster.
OnAll(ws, n) == Len(ws) = World(clusters[n]) /\ OnEach(ws, Bundled(n))

\* Workers on the slices of the list of its GPUs.
LEMMA SlicesOn ==
    ASSUME LaunchInv, PlacesInv, NEW n \in DOMAIN clusters, clusters[n].state = "ready",
           NEW list, Lists(list, n), NEW e, e \in Nat \ {0}, NEW ws, ws = Slices(list, e)
    PROVE  WorkersOn(ws, n, e) /\ (e = 1 => OnAll(ws, n))
<1>0. ws = Slices(list, e)
  OBVIOUS
<1>1. Distinct(list, Places) /\ ToSet(list) = Bundled(n) /\ Len(list) = World(clusters[n])
  BY ListsAll DEF Lists
<1>2. /\ Tied(Slices(list, e), Places, e)
      /\ Within(Slices(list, e), e, ToSet(list))
      /\ e = 1 => Len(Slices(list, e)) = Len(list) /\ OnEach(Slices(list, e), ToSet(list))
  <2>1. Distinct(list, Places) /\ e \in Nat \ {0}
    BY <1>1
  <2> QED BY ONLY <2>1, SlicesKeep
<1> QED BY ONLY <1>0, <1>1, <1>2 DEF WorkersOn, OnAll

\* One worker per bundle.
LEMMA SinglyOn ==
    ASSUME LaunchInv, PlacesInv, NEW n \in DOMAIN clusters, clusters[n].state = "ready",
           NEW ws, ws = Singly(clusters[n])
    PROVE  WorkersOn(ws, n, 1) /\ OnAll(ws, n)
<1>1. Lists(FlattenSeq(clusters[n].groups), n)
  BY BundledIs
<1>2. ws = Slices(FlattenSeq(clusters[n].groups), 1) /\ 1 \in Nat \ {0}
  BY DEF Singly
<1> QED BY <1>1, <1>2, SlicesOn

\* So has every group of workers but the engine.
LEMMA PolicyOn ==
    ASSUME LaunchInv, PlacesInv, NEW n \in DOMAIN clusters, clusters[n].state = "ready",
           NEW x, x # "engine", NEW ws, ws = WorkersOf(x, clusters[n])
    PROVE  WorkersOn(ws, n, 1) /\ OnAll(ws, n)
<1>1. CASE clusters[n].unified
  <2>1. Len(clusters[n].groups) = 1
    BY <1>1, BundledIs DEF NumGroups
  <2>2. clusters[n].groups # << >>
    BY <2>1
  <2>3. clusters[n].sorted = Sorted(clusters[n].groups[1])
    BY <1>1, <2>2 DEF PlacesInv, Grouped
  <2>4. Lists(clusters[n].sorted, n) /\ Len(clusters[n].sorted) \in Nat \ {0}
    BY <2>1, <2>3, SingleGroup
  <2>5. clusters[n].sorted # << >>
    BY <2>4
  <2>6. ws = Slices(clusters[n].sorted, 1) /\ 1 \in Nat \ {0}
    BY <2>5 DEF WorkersOf
  <2> QED BY <2>4, <2>6, SlicesOn
<1>2. CASE ~clusters[n].unified
  <2>1. clusters[n].sorted = << >>
    BY <1>2 DEF PlacesInv, Grouped
  <2>2. ws = Singly(clusters[n])
    BY <2>1 DEF WorkersOf
  <2> QED BY <2>2, SinglyOn
<1> QED BY <1>1, <1>2

-----------------------------------------------------------------------------

(* Engines. *)

\* The slices of each group, one after the other.
LEMMA GroupwiseOn ==
    ASSUME LaunchInv, PlacesInv, NEW n \in DOMAIN clusters, NEW e, e \in Nat \ {0},
           NEW ws, ws = FlattenSeq([g \in DOMAIN clusters[n].groups |-> Slices(clusters[n].groups[g], e)])
    PROVE  /\ WorkersOn(ws, n, e)
           /\ \A k \in 1..Len(ws) : \E g \in 1..Len(clusters[n].groups) :
                  \A i \in 1..e : ws[k][i] \in ToSet(clusters[n].groups[g])
<1> DEFINE groups == clusters[n].groups
           m == Len(groups)
           pieces == [g \in DOMAIN groups |-> Slices(groups[g], e)]
<1>1. /\ \A g \in 1..m : Distinct(groups[g], Places)
      /\ \A g \in 1..m : \A i \in 1..Len(groups[g]) : groups[g][i] \in Bundled(n)
  BY BundledIs
<1>2. m \in Nat /\ DOMAIN groups = 1..m
  BY ClusterIs
<1>a. Apart(groups, m)
  BY DEF PlacesInv, Grouped, Tied
<1>s. \A g \in 1..m : pieces[g] = Slices(groups[g], e)
  BY <1>2
<1>d. DOMAIN pieces = 1..m
  BY <1>2
<1> HIDE DEF pieces
<1>3. ASSUME NEW g \in 1..m
      PROVE  /\ Tied(pieces[g], Places, e) /\ SlicesOf(pieces[g], groups[g], e)
             /\ pieces[g] \in Seq(Seq(Places))
  <2>1. Distinct(groups[g], Places) /\ pieces[g] = Slices(groups[g], e)
    BY <1>1, <1>s
  <2>2. Tied(pieces[g], Places, e) /\ SlicesOf(pieces[g], groups[g], e)
    BY <2>1, SlicesAreTied
  <2> QED BY <2>2 DEF Tied
<1>4. \A g, h \in 1..m : \A k \in 1..Len(pieces[g]), l \in 1..Len(pieces[h]) :
          \A i, j \in 1..e : pieces[g][k][i] = pieces[h][l][j] => g = h
  <2> SUFFICES ASSUME NEW g \in 1..m, NEW h \in 1..m, NEW k \in 1..Len(pieces[g]),
                      NEW l \in 1..Len(pieces[h]), NEW i \in 1..e, NEW j \in 1..e,
                      pieces[g][k][i] = pieces[h][l][j]
               PROVE  g = h
    OBVIOUS
  <2>1. PICK p \in 1..Len(groups[g]) : pieces[g][k][i] = groups[g][p]
    BY <1>3 DEF SlicesOf
  <2>2. PICK q \in 1..Len(groups[h]) : pieces[h][l][j] = groups[h][q]
    BY <1>3 DEF SlicesOf
  <2>3. groups[g][p] = groups[h][q]
    BY <2>1, <2>2
  <2> HIDE DEF groups, m
  <2> QED BY <1>a, <2>3, ApartAt
<1>5. ws = FlattenSeq(pieces)
  BY DEF pieces
<1>6. pieces \in [1..m -> Seq(Seq(Places))]
  <2>1. pieces = [g \in 1..m |-> pieces[g]]
    BY <1>d DEF pieces
  <2> QED BY <1>3, <2>1
<1>7. Tied(FlattenSeq(pieces), Places, e) /\ AllOf(FlattenSeq(pieces), pieces, m)
  <2> HIDE DEF groups, m
  <2> QED BY <1>2, <1>3, <1>4, <1>6, TiedPieces
<1>8. ASSUME NEW k \in 1..Len(ws)
      PROVE  \E g \in 1..m : \A i \in 1..e :
                 ws[k][i] \in ToSet(groups[g]) /\ ws[k][i] \in Bundled(n)
  <2>1. PICK g \in 1..m : \E l \in 1..Len(pieces[g]) : ws[k] = pieces[g][l]
    <3> HIDE DEF groups, m
    <3>1. k \in 1..Len(ws)
      OBVIOUS
    <3> QED BY ONLY <1>5, <1>7, <3>1 DEF AllOf
  <2>2. PICK l \in 1..Len(pieces[g]) : ws[k] = pieces[g][l]
    BY <2>1
  <2>3. DOMAIN groups[g] = 1..Len(groups[g])
    BY <1>1 DEF Distinct
  <2>4. ASSUME NEW i \in 1..e PROVE ws[k][i] \in ToSet(groups[g]) /\ ws[k][i] \in Bundled(n)
    <3>1. PICK p \in 1..Len(groups[g]) : pieces[g][l][i] = groups[g][p]
      BY <1>3 DEF SlicesOf
    <3> QED BY <1>1, <2>2, <2>3, <3>1 DEF ToSet
  <2> QED BY <2>4
<1> QED BY <1>5, <1>7, <1>8 DEF WorkersOn, Within

\* The engines of vLLM; on one node each if they fit on one.
LEMMA EnginesOn ==
    ASSUME LaunchInv, PlacesInv, NEW n \in DOMAIN clusters, clusters[n].state = "ready",
           NEW ws, ws = TiedGroups(clusters[n])
    PROVE  /\ WorkersOn(ws, n, config.engine)
           /\ config.engine <= config.gpus => \A k \in 1..Len(ws) : OnOneNode(ws[k])
<1> DEFINE e == config.engine
           c == clusters[n]
<1>1. e \in Nat \ {0} /\ config.gpus \in Nat
  BY ConfigTypes DEF LaunchInv
<1>2. /\ c.unified => config.engine > config.gpus
      /\ Len(c.groups) \in Nat /\ DOMAIN c.groups = 1..Len(c.groups)
  BY ClusterIs
<1>3. ASSUME WorkersOn(ws, n, e) PROVE \A k \in 1..Len(ws) : ws[k] \in Seq(Places) /\ Len(ws[k]) = e
  BY <1>3 DEF WorkersOn, Tied
<1>4. ASSUME config.engine <= config.gpus, NEW g \in 1..Len(c.groups) PROVE OnOneNode(c.groups[g])
  <2>1. ~c.unified
    BY <1>1, <1>2, <1>4
  <2> QED BY <2>1 DEF PlacesInv, NodesInv
<1>5. ASSUME NEW gpus, NEW g \in 1..Len(c.groups), OnOneNode(c.groups[g]), Len(gpus) = e,
             \A i \in 1..e : gpus[i] \in ToSet(c.groups[g])
      PROVE  OnOneNode(gpus)
  <2>1. DOMAIN c.groups[g] = 1..Len(c.groups[g])
    BY BundledIs DEF Distinct
  <2>2. ASSUME NEW i \in 1..e, NEW j \in 1..e PROVE NodeOf(gpus[i]) = NodeOf(gpus[j])
    <3>1. PICK p \in 1..Len(c.groups[g]) : gpus[i] = c.groups[g][p]
      BY <1>5, <2>1 DEF ToSet
    <3>2. PICK q \in 1..Len(c.groups[g]) : gpus[j] = c.groups[g][q]
      BY <1>5, <2>1 DEF ToSet
    <3> QED BY <1>5, <3>1, <3>2 DEF OnOneNode
  <2> QED BY <1>5, <2>2 DEF OnOneNode
<1>6. CASE e = 1
  <2>1. ws = Singly(c)
    BY <1>6 DEF TiedGroups
  <2>2. WorkersOn(ws, n, e)
    BY <1>6, <2>1, SinglyOn
  <2>3. \A k \in 1..Len(ws) : OnOneNode(ws[k])
    BY <1>3, <1>6, <2>2 DEF OnOneNode
  <2> QED BY <2>2, <2>3
<1>7. CASE e # 1 /\ Len(c.groups) = 1
  <2>1. ws = Slices(NodeByNode(c.groups[1]), e)
    BY <1>7 DEF TiedGroups
  <2>2. Lists(NodeByNode(c.groups[1]), n) /\ Lists(c.groups[1], n)
    BY <1>7, SingleGroup
  <2>3. WorkersOn(ws, n, e)
    BY <1>1, <2>1, <2>2, SlicesOn
  <2>4. ASSUME config.engine <= config.gpus, NEW k \in 1..Len(ws) PROVE OnOneNode(ws[k])
    <3>1. 1 \in 1..Len(c.groups)
      BY <1>7
    <3>2. \A i \in 1..e : ws[k][i] \in ToSet(c.groups[1])
      BY <2>2, <2>3 DEF WorkersOn, Within, Lists
    <3>3. OnOneNode(c.groups[1]) /\ Len(ws[k]) = e
      BY <1>3, <1>4, <2>3, <2>4, <3>1
    <3> HIDE DEF c, e
    <3> QED BY <1>5, <3>1, <3>2, <3>3
  <2> QED BY <2>3, <2>4
<1>8. CASE e # 1 /\ Len(c.groups) # 1
  <2>1. ws = FlattenSeq([g \in DOMAIN c.groups |-> Slices(c.groups[g], e)])
    BY <1>8 DEF TiedGroups
  <2>2. /\ WorkersOn(ws, n, e)
        /\ \A k \in 1..Len(ws) : \E g \in 1..Len(c.groups) : \A i \in 1..e : ws[k][i] \in ToSet(c.groups[g])
    BY <1>1, <2>1, GroupwiseOn
  <2>3. ASSUME config.engine <= config.gpus, NEW k \in 1..Len(ws) PROVE OnOneNode(ws[k])
    <3>1. PICK g \in 1..Len(c.groups) : \A i \in 1..e : ws[k][i] \in ToSet(c.groups[g])
      BY <2>2
    <3>2. OnOneNode(c.groups[g]) /\ Len(ws[k]) = e
      BY <1>3, <1>4, <2>2, <2>3
    <3> HIDE DEF c, e
    <3> QED BY <1>5, <3>1, <3>2
  <2> QED BY <2>2, <2>3
<1> QED BY <1>6, <1>7, <1>8

\* All GPUs of the only node.
LEMMA OneNodeIsWhole ==
    ASSUME config \in Configuration, config.nodes = 1,
           NEW group, Distinct(group, Places), Len(group) = config.gpus
    PROVE  WholeNodes(group)
<1>1. config.gpus \in Nat \ {0}
  BY ConfigTypes
<1>2. IsFiniteSet(1..1) /\ Cardinality(1..1) = 1 /\ IsFiniteSet(0..(config.gpus - 1))
      /\ Cardinality(0..(config.gpus - 1)) = config.gpus
  <2>1. 1 \in Int /\ 0 \in Int /\ config.gpus - 1 \in Int /\ 1 >= 1
    BY <1>1
  <2>2. IsFiniteSet(1..1) /\ Cardinality(1..1) = IF 1 > 1 THEN 0 ELSE 1 - 1 + 1
    BY <2>1, FS_Interval
  <2>3. /\ IsFiniteSet(0..(config.gpus - 1))
        /\ Cardinality(0..(config.gpus - 1)) = IF 0 > config.gpus - 1 THEN 0 ELSE config.gpus - 1 - 0 + 1
    BY <1>1, <2>1, FS_Interval
  <2> QED BY <1>1, <2>2, <2>3
<1>3. IsFiniteSet(Places) /\ Cardinality(Places) = config.gpus
  <2>1. IsFiniteSet(Places) /\ Cardinality(Places) = Cardinality(1..1) * Cardinality(0..(config.gpus - 1))
    BY <1>2, FS_Product DEF Places
  <2> QED BY <1>1, <1>2, <2>1
<1>4. ToSet(group) = Places
  <2>1. ToSet(group) \subseteq Places /\ Cardinality(ToSet(group)) = config.gpus
    BY DistinctCounts
  <2> QED BY <1>3, <2>1, FS_Subset
<1>5. ASSUME NEW i \in 1..Len(group), NEW d \in 0..(config.gpus - 1)
      PROVE  \E j \in 1..Len(group) : group[j] = <<NodeOf(group[i]), d>>
  <2>1. DOMAIN group = 1..Len(group) /\ group[i] \in Places
    BY DEF Distinct
  <2>2. <<NodeOf(group[i]), d>> \in Places
    BY <2>1 DEF Places, NodeOf
  <2> QED BY <1>4, <2>1, <2>2 DEF ToSet
<1> QED BY <1>5 DEF WholeNodes

\* The groups of a cluster are on different nodes if each is on one.
LEMMA OtherNodes ==
    ASSUME LaunchInv, PlacesInv, NEW n \in DOMAIN clusters, ~clusters[n].unified, n # "reward",
           NEW g \in 1..Len(clusters[n].groups), NEW h \in 1..Len(clusters[n].groups),
           NEW i \in 1..Len(clusters[n].groups[g]), NEW j \in 1..Len(clusters[n].groups[h]),
           NodeOf(clusters[n].groups[g][i]) = NodeOf(clusters[n].groups[h][j])
    PROVE  g = h
<1> DEFINE groups == clusters[n].groups
<1>1. CASE NodeWise
  <2>1. ~clusters[n].spread
    BY ClusterIs
  <2>2. WholeNodes(groups[g]) /\ WholeNodes(groups[h])
    BY <1>1, <2>1 DEF PlacesInv, NodesInv
  <2>3. 0 \in 0..(config.gpus - 1)
    BY ConfigTypes DEF LaunchInv
  <2>4. PICK p \in 1..Len(groups[g]) : groups[g][p] = <<NodeOf(groups[g][i]), 0>>
    BY <2>2, <2>3 DEF WholeNodes
  <2>5. PICK q \in 1..Len(groups[h]) : groups[h][q] = <<NodeOf(groups[h][j]), 0>>
    BY <2>2, <2>3 DEF WholeNodes
  <2>6. groups[g][p] = groups[h][q]
    BY <2>4, <2>5
  <2>7. Apart(groups, Len(groups))
    BY DEF PlacesInv, Grouped, Tied
  <2> HIDE DEF groups
  <2>8. g \in 1..Len(groups) /\ h \in 1..Len(groups)
    BY DEF groups
  <2> QED BY ONLY <2>6, <2>7, <2>8, ApartAt, p \in 1..Len(groups[g]), q \in 1..Len(groups[h])
<1>2. CASE ~NodeWise
  <2>1. clusters[n].nodes = 1 /\ Len(groups) <= NumGroups(clusters[n]) /\ Len(groups) \in Nat
    BY <1>2, ClusterIs
  <2>2. NumGroups(clusters[n]) = 1
    BY <2>1 DEF NumGroups
  <2> QED BY <2>1, <2>2
<1> QED BY <1>1, <1>2

\* The servers of a group.
ServersOf(group, e) ==
    [k \in 1..(Len(group) \div e) |->
        [i \in 1..e |-> <<NodeOf(group[(k - 1) * e + 1]), (k - 1) * e + i - 1>>]]

\* A server of a group is on the node of the group.
FromNodeOf(ws, group, e) ==
    \A k \in 1..Len(ws) : \A i \in 1..e :
        \E j \in 1..Len(group) : \E d \in 0..(Len(group) - 1) : ws[k][i] = <<NodeOf(group[j]), d>>

\* The servers of a group are pieces of one size.
LEMMA ServersAreTied ==
    ASSUME config \in Configuration, NEW e, e \in Nat \ {0},
           NEW group, Distinct(group, Places), Len(group) <= config.gpus
    PROVE  /\ Tied(ServersOf(group, e), Places, e)
           /\ FromNodeOf(ServersOf(group, e), group, e)
<1> DEFINE n == Len(group) \div e
           ws == ServersOf(group, e)
           at(k, i) == (k - 1) * e + i
<1>0. config.gpus \in Nat
  BY ConfigTypes
<1>1. group \in Seq(Places) /\ Len(group) \in Nat
  BY DEF Distinct
<1>2. n \in Nat /\ n * e <= Len(group)
  <2> DEFINE q == Len(group) \div e
             r == Len(group) % e
  <2>1. q \in Nat /\ r \in 0..(e - 1) /\ Len(group) = e * q + r
    BY <1>1, Division
  <2> HIDE DEF q, r
  <2>2. Len(group) = q * e + r
    BY <2>1
  <2> QED BY <2>1, <2>2 DEF q
<1>3. ASSUME NEW k \in 1..n, NEW i \in 1..e
      PROVE  at(k, i) \in 1..Len(group)
  <2>1. k * e <= n * e
    BY <1>2, Order
  <2>2. (k - 1) * e \in Nat /\ k * e = (k - 1) * e + e
    BY <1>2
  <2> QED BY <1>1, <1>2, <2>1, <2>2
<1>4. ws = [k \in 1..n |-> [i \in 1..e |-> <<NodeOf(group[at(k, 1)]), at(k, i) - 1>>]]
  BY DEF ServersOf
<1>5. ASSUME NEW k \in 1..n
      PROVE  /\ DOMAIN ws[k] = 1..e /\ at(k, 1) \in 1..Len(group)
             /\ \A i \in 1..e : /\ ws[k][i] = <<NodeOf(group[at(k, 1)]), at(k, i) - 1>>
                                /\ at(k, i) - 1 \in 0..(Len(group) - 1)
                                /\ ws[k][i] \in Places
             /\ ws[k] \in Seq(Places) /\ Len(ws[k]) = e
  <2>1. 1 \in 1..e
    OBVIOUS
  <2>2. at(k, 1) \in 1..Len(group) /\ \A i \in 1..e : at(k, i) \in 1..Len(group)
    BY <1>3, <2>1
  <2>3. DOMAIN ws[k] = 1..e /\ \A i \in 1..e : ws[k][i] = <<NodeOf(group[at(k, 1)]), at(k, i) - 1>>
    BY <1>4
  <2>w. ws[k] = [i \in 1..e |-> ws[k][i]]
    BY <1>4
  <2> HIDE DEF at, ws, n
  <2>4. \A i \in 1..e : at(k, i) - 1 \in 0..(Len(group) - 1)
    BY <1>1, <2>2
  <2>5. group[at(k, 1)] \in Places
    BY <1>1, <2>2
  <2>6. NodeOf(group[at(k, 1)]) \in 1..config.nodes
    BY <2>5 DEF Places, NodeOf
  <2>7. ASSUME NEW i \in 1..e PROVE ws[k][i] \in Places
    <3>1. at(k, i) - 1 \in 0..(config.gpus - 1)
      BY <1>0, <1>1, <2>4
    <3>2. ws[k][i] = <<NodeOf(group[at(k, 1)]), at(k, i) - 1>>
      BY <2>3
    <3>3. \A p \in 1..config.nodes, q \in 0..(config.gpus - 1) : <<p, q>> \in Places
      BY DEF Places
    <3> QED BY ONLY <2>6, <3>1, <3>2, <3>3
  <2>8. ws[k] \in Seq(Places) /\ Len(ws[k]) = e
    <3> DEFINE w == ws[k]
    <3>1. w = [i \in 1..e |-> w[i]] /\ \A i \in 1..e : w[i] \in Places
      BY <2>w, <2>7
    <3> HIDE DEF w
    <3>2. w \in [1..e -> Places]
      BY <3>1
    <3>3. w \in Seq(Places) /\ Len(w) = e
      BY <3>2
    <3> QED BY <3>3 DEF w
  <2> QED BY <2>2, <2>3, <2>4, <2>7, <2>8
<1>6. ws \in Seq(Seq(Places)) /\ Len(ws) = n
  <2>1. DOMAIN ws = 1..n /\ \A k \in 1..n : ws[k] \in Seq(Places)
    BY <1>4, <1>5
  <2>2. ws \in [1..n -> Seq(Places)]
    BY <1>4, <2>1
  <2> HIDE DEF ws, n
  <2> QED BY <1>2, <2>2
<1>8. \A k \in 1..n : Len(ws[k]) = e
  BY <1>5
<1> HIDE DEF ws
<1>7. Apart(ws, n)
  <2> SUFFICES ASSUME NEW k \in 1..n, NEW l \in 1..n, NEW i \in 1..e, NEW j \in 1..e,
                      ws[k][i] = ws[l][j]
               PROVE  k = l /\ i = j
    <3> HIDE DEF n
    <3> QED BY <1>8 DEF Apart
  <2>1. at(k, i) - 1 = at(l, j) - 1
    <3> HIDE DEF at, n
    <3> QED BY <1>5
  <2>2. k - 1 \in Nat /\ l - 1 \in Nat /\ i - 1 \in 0..(e - 1) /\ j - 1 \in 0..(e - 1)
    BY <1>2
  <2>3. e * (k - 1) + (i - 1) = e * (l - 1) + (j - 1)
    BY <2>1, <2>2
  <2> DEFINE a == k - 1
             b == l - 1
             c == i - 1
             d == j - 1
  <2> HIDE DEF a, b, c, d
  <2>4. (e * a + c) \div e = a /\ (e * a + c) % e = c /\ (e * b + d) \div e = b /\ (e * b + d) % e = d
    BY <2>2, Quotient DEF a, b, c, d
  <2>5. a = b /\ c = d
    BY <2>3, <2>4 DEF a, b, c, d
  <2> QED BY <2>5 DEF a, b, c, d
<1> HIDE DEF n, at
<1>9. FromNodeOf(ws, group, e)
  BY <1>5, <1>6 DEF FromNodeOf
<1> QED BY <1>6, <1>7, <1>8, <1>9 DEF Tied, ws

\* SGLang servers have GPUs of their own, each of one node; those of the policy, unless
\* the reward model has one on the same node.
LEMMA SglangOn ==
    ASSUME LaunchInv, PlacesInv, "train" \in DOMAIN clusters, config.backend = "sglang",
           NEW ws, ws = Servers(clusters["train"])
    PROVE  /\ Tied(ws, Places, config.engine)
           /\ \A k \in 1..Len(ws) : OnOneNode(ws[k])
           /\ ~Misnumbered => WorkersOn(ws, "train", config.engine)
<1> DEFINE e == config.engine
           c == clusters["train"]
           groups == c.groups
           m == Len(groups)
           pieces == [g \in DOMAIN groups |-> ServersOf(groups[g], e)]
<1>0. /\ config \in Configuration /\ e \in Nat \ {0} /\ config.gpus \in Nat \ {0}
      /\ config.nodes \in Nat \ {0} /\ config.reward \in {0, 1} /\ config.colocated
  BY ConfigTypes DEF LaunchInv, PlacesInv, PlanInv, Accepted
<1>1. /\ ~c.unified /\ ~c.spread /\ m \in Nat /\ DOMAIN groups = 1..m
      /\ c.gpus \in 1..config.gpus /\ Bundles(c) = c.gpus
      /\ Planned("train", c) /\ (NodeWise => c.gpus = config.gpus)
  BY ClusterIs DEF Bundles
<1>2. \A g \in 1..m : Distinct(groups[g], Places) /\ Len(groups[g]) = c.gpus
  BY <1>1, BundledIs
<1>3. \A g \in 1..m : OnOneNode(groups[g])
  BY <1>1 DEF PlacesInv, NodesInv
<1>4. ASSUME NEW g \in 1..m, NEW h \in 1..m, NEW i \in 1..Len(groups[g]), NEW j \in 1..Len(groups[h]),
             NodeOf(groups[g][i]) = NodeOf(groups[h][j])
      PROVE  g = h
  BY <1>1, <1>4, OtherNodes
<1>w. ASSUME ~Misnumbered, NEW g \in 1..m PROVE WholeNodes(groups[g])
  <2>1. CASE NodeWise
    <3>1. NodeWise /\ "train" # "reward" /\ ~clusters["train"].spread
      BY <1>1, <2>1
    <3> QED BY <3>1 DEF PlacesInv, NodesInv
  <2>2. CASE ~NodeWise
    <3>1. config.nodes = 1
      BY <1>0, <2>2 DEF NodeWise
    <3>2. config.reward = 0
      BY <1>0, <1>w, <3>1 DEF Misnumbered
    <3>3. Plan("train").gpus = config.gpus
      BY <1>0, <3>1, <3>2, PlanIs DEF PlacesInv, PlanInv
    <3>4. Len(groups[g]) = config.gpus
      BY <1>1, <1>2, <3>3 DEF Planned
    <3> QED BY <1>0, <1>2, <3>1, <3>4, OneNodeIsWhole
  <2> QED BY <2>1, <2>2
<1>b. \A g \in 1..m : \A i \in 1..Len(groups[g]) : groups[g][i] \in Bundled("train")
  BY BundledIs
<1>5. ws = FlattenSeq(pieces)
  BY DEF Servers, ServersOf
<1>s. \A g \in 1..m : pieces[g] = ServersOf(groups[g], e)
  BY <1>1
<1>d. pieces = [g \in 1..m |-> pieces[g]]
  BY <1>1
<1> HIDE DEF pieces, groups, m, e, c
<1>6. ASSUME NEW g \in 1..m
      PROVE  /\ Tied(pieces[g], Places, e) /\ FromNodeOf(pieces[g], groups[g], e)
             /\ pieces[g] \in Seq(Seq(Places)) /\ \A k \in 1..Len(pieces[g]) : Len(pieces[g][k]) = e
  <2>1. Len(groups[g]) <= config.gpus
    BY <1>0, <1>1, <1>2
  <2>2. Tied(pieces[g], Places, e) /\ FromNodeOf(pieces[g], groups[g], e)
    BY <1>0, <1>2, <1>s, <2>1, ServersAreTied
  <2> QED BY <2>2 DEF Tied
<1>7. pieces \in [1..m -> Seq(Seq(Places))]
  BY <1>6, <1>d
<1>8. \A g, h \in 1..m : \A k \in 1..Len(pieces[g]), l \in 1..Len(pieces[h]) :
          \A i, j \in 1..e : pieces[g][k][i] = pieces[h][l][j] => g = h
  <2> SUFFICES ASSUME NEW g \in 1..m, NEW h \in 1..m, NEW k \in 1..Len(pieces[g]),
                      NEW l \in 1..Len(pieces[h]), NEW i \in 1..e, NEW j \in 1..e,
                      pieces[g][k][i] = pieces[h][l][j]
               PROVE  g = h
    OBVIOUS
  <2>1. PICK p \in 1..Len(groups[g]) : \E d \in 0..(Len(groups[g]) - 1) :
            pieces[g][k][i] = <<NodeOf(groups[g][p]), d>>
    BY <1>6 DEF FromNodeOf
  <2>2. PICK q \in 1..Len(groups[h]) : \E d \in 0..(Len(groups[h]) - 1) :
            pieces[h][l][j] = <<NodeOf(groups[h][q]), d>>
    BY <1>6 DEF FromNodeOf
  <2>3. NodeOf(groups[g][p]) = NodeOf(groups[h][q])
    <3>1. pieces[g][k][i][1] = NodeOf(groups[g][p])
      BY <2>1
    <3>2. pieces[h][l][j][1] = NodeOf(groups[h][q])
      BY <2>2
    <3> QED BY <3>1, <3>2
  <2> QED BY <1>4, <2>3
<1>9. Tied(ws, Places, e) /\ AllOf(ws, pieces, m)
  <2>1. Tied(FlattenSeq(pieces), Places, e) /\ AllOf(FlattenSeq(pieces), pieces, m)
    <3>1. m \in Nat /\ e \in Nat \ {0} /\ \A g \in 1..m : Tied(pieces[g], Places, e)
      BY <1>0, <1>1, <1>6
    <3> QED BY ONLY <1>7, <1>8, <3>1, TiedPieces
  <2> QED BY ONLY <1>5, <2>1
<1>10. ASSUME NEW k \in 1..Len(ws)
       PROVE  /\ OnOneNode(ws[k])
              /\ ~Misnumbered => \A i \in 1..e : ws[k][i] \in Bundled("train")
  <2>1. PICK g \in 1..m : \E l \in 1..Len(pieces[g]) : ws[k] = pieces[g][l]
    <3>1. k \in 1..Len(ws)
      OBVIOUS
    <3> QED BY ONLY <1>9, <3>1 DEF AllOf
  <2>2. PICK l \in 1..Len(pieces[g]) : ws[k] = pieces[g][l]
    BY <2>1
  <2>3. Len(ws[k]) = e
    BY <1>6, <2>2
  <2>4. \A i \in 1..e : \E p \in 1..Len(groups[g]) : \E d \in 0..(Len(groups[g]) - 1) :
            ws[k][i] = <<NodeOf(groups[g][p]), d>>
    <3>1. FromNodeOf(pieces[g], groups[g], e)
      BY <1>6
    <3> QED BY <2>2, <3>1 DEF FromNodeOf
  <2>5. OnOneNode(ws[k])
    <3> SUFFICES ASSUME NEW i \in 1..e, NEW j \in 1..e PROVE NodeOf(ws[k][i]) = NodeOf(ws[k][j])
      BY <2>3 DEF OnOneNode
    <3>1. PICK p \in 1..Len(groups[g]) : \E d \in 0..(Len(groups[g]) - 1) :
              ws[k][i] = <<NodeOf(groups[g][p]), d>>
      BY <2>4
    <3>2. PICK q \in 1..Len(groups[g]) : \E d \in 0..(Len(groups[g]) - 1) :
              ws[k][j] = <<NodeOf(groups[g][q]), d>>
      BY <2>4
    <3>3. NodeOf(ws[k][i]) = NodeOf(groups[g][p]) /\ NodeOf(ws[k][j]) = NodeOf(groups[g][q])
      BY <3>1, <3>2 DEF NodeOf
    <3>4. NodeOf(groups[g][p]) = NodeOf(groups[g][q])
      BY <1>3 DEF OnOneNode
    <3> QED BY <3>3, <3>4
  <2>6. ASSUME ~Misnumbered, NEW i \in 1..e PROVE ws[k][i] \in Bundled("train")
    <3>1. PICK p \in 1..Len(groups[g]) : \E d \in 0..(Len(groups[g]) - 1) :
              ws[k][i] = <<NodeOf(groups[g][p]), d>>
      BY <2>4
    <3>2. PICK d \in 0..(Len(groups[g]) - 1) : ws[k][i] = <<NodeOf(groups[g][p]), d>>
      BY <3>1
    <3>3. d \in 0..(config.gpus - 1)
      BY <1>0, <1>1, <1>2
    <3>4. PICK q \in 1..Len(groups[g]) : groups[g][q] = <<NodeOf(groups[g][p]), d>>
      BY <1>w, <2>6, <3>3 DEF WholeNodes
    <3> QED BY <1>b, <3>2, <3>4
  <2> QED BY <2>5, <2>6
<1>11. ~Misnumbered => WorkersOn(ws, "train", e)
  BY <1>9, <1>10 DEF WorkersOn, Within
<1>13. e = config.engine
  BY DEF e
<1>12. \A k \in 1..Len(ws) : OnOneNode(ws[k])
  BY <1>10
<1> QED BY ONLY <1>9, <1>11, <1>12, <1>13

\* How many GPUs a worker has.
GpusEach(x) == IF x = "engine" THEN config.engine ELSE 1

\* What WorkersInv says of one group of workers.
LEMMA GroupIs ==
    ASSUME LaunchInv, PlacesInv, WorkersInv, NEW x \in DOMAIN workers
    PROVE  /\ ClusterOf(x) \in DOMAIN clusters /\ clusters[ClusterOf(x)].state = "ready"
           /\ GpusEach(x) \in Nat \ {0}
           /\ x # "engine" => /\ WorkersOn(workers[x], ClusterOf(x), 1)
                              /\ OnAll(workers[x], ClusterOf(x))
           /\ x = "engine" =>
                  /\ Tied(workers[x], Places, config.engine)
                  /\ ~Misnumbered => WorkersOn(workers[x], ClusterOf(x), config.engine)
                  /\ config.engine <= config.gpus => \A k \in 1..Len(workers[x]) : OnOneNode(workers[x][k])
                  /\ Len(workers[x]) = World(clusters[ClusterOf(x)]) \div config.engine
                  /\ config.backend = "vllm" => World(clusters[ClusterOf(x)]) % config.engine = 0
<1> DEFINE n == ClusterOf(x)
           ws == workers[x]
<1>1. /\ n \in DOMAIN clusters /\ clusters[n].state = "ready"
      /\ ws = WorkersOf(x, clusters[n]) /\ ~Unallocated(x, clusters[n])
      /\ x = "engine" /\ config.backend = "vllm" => World(clusters[n]) % config.engine = 0
  BY DEF WorkersInv
<1>2. config.engine \in Nat \ {0} /\ config.backend \in {"vllm", "sglang"}
  BY ConfigTypes DEF LaunchInv
<1>3. GpusEach(x) \in Nat \ {0}
  BY <1>2 DEF GpusEach
<1>4. CASE x # "engine"
  <2>1. WorkersOn(ws, n, 1) /\ OnAll(ws, n)
    <3> HIDE DEF n, ws
    <3> QED BY <1>1, <1>4, PolicyOn
  <2> QED BY <1>1, <1>3, <1>4, <2>1
<1>5. CASE x = "engine"
  <2>1. Len(ws) = World(clusters[n]) \div config.engine
    BY <1>1, <1>5 DEF Unallocated
  <2>2. CASE config.backend = "vllm"
    <3>1. ws = TiedGroups(clusters[n])
      BY <1>1, <1>5, <2>2 DEF WorkersOf
    <3>2. /\ WorkersOn(ws, n, config.engine)
          /\ config.engine <= config.gpus => \A k \in 1..Len(ws) : OnOneNode(ws[k])
      <4> HIDE DEF n, ws
      <4> QED BY <1>1, <3>1, EnginesOn
    <3>3. Tied(ws, Places, config.engine)
      BY <3>2 DEF WorkersOn
    <3> QED BY <1>1, <1>3, <1>5, <2>1, <3>2, <3>3
  <2>3. CASE config.backend = "sglang"
    <3>1. config.colocated
      BY <2>3 DEF PlacesInv, PlanInv, Accepted
    <3>2. n = "train"
      BY <1>5, <3>1 DEF ClusterOf
    <3>3. ws = Servers(clusters[n])
      BY <1>1, <1>5, <2>3 DEF WorkersOf
    <3>4. /\ Tied(ws, Places, config.engine) /\ \A k \in 1..Len(ws) : OnOneNode(ws[k])
          /\ ~Misnumbered => WorkersOn(ws, "train", config.engine)
      <4> HIDE DEF n, ws
      <4> QED BY <1>1, <2>3, <3>2, <3>3, SglangOn
    <3> QED BY <1>1, <1>3, <1>5, <2>1, <2>3, <3>2, <3>4
  <2> QED BY <1>2, <2>2, <2>3
<1> QED BY <1>4, <1>5

\* The GPUs of a group of workers.
LEMMA GpusAre ==
    ASSUME LaunchInv, PlacesInv, WorkersInv, ~Misnumbered, NEW x \in DOMAIN workers
    PROVE  /\ Distinct(GpusOf(x), Places)
           /\ ToSet(GpusOf(x)) \subseteq Bundled(ClusterOf(x))
           /\ Len(GpusOf(x)) = Len(workers[x]) * GpusEach(x)
           /\ x # "engine" => /\ Bundled(ClusterOf(x)) \subseteq ToSet(GpusOf(x))
                              /\ Len(workers[x]) = World(clusters[ClusterOf(x)])
<1> DEFINE n == ClusterOf(x)
           ws == workers[x]
           e == GpusEach(x)
           flat == FlattenSeq(ws)
<1>1. /\ e \in Nat \ {0} /\ Tied(ws, Places, e) /\ Within(ws, e, Bundled(n))
      /\ x # "engine" => e = 1 /\ OnAll(ws, n)
  <2>1. CASE x = "engine"
    BY <2>1, GroupIs DEF GpusEach, WorkersOn
  <2>2. CASE x # "engine"
    BY <2>2, GroupIs DEF GpusEach, WorkersOn
  <2> QED BY <2>1, <2>2
<1> HIDE DEF n, ws, e
<1>2. /\ Distinct(flat, Places) /\ AllOf(flat, ws, Len(ws)) /\ Len(flat) = Len(ws) * e
  BY <1>1, TiedFlattens DEF Evenly
<1>3. \A k \in 1..Len(ws) : Len(ws[k]) = e
  BY <1>1 DEF Tied
<1> HIDE DEF flat
<1>4. DOMAIN flat = 1..Len(flat)
  BY <1>2 DEF Distinct
<1>5. ToSet(flat) \subseteq Bundled(n)
  <2> SUFFICES ASSUME NEW p \in 1..Len(flat) PROVE flat[p] \in Bundled(n)
    BY <1>4 DEF ToSet
  <2>1. PICK k \in 1..Len(ws) : \E i \in 1..Len(ws[k]) : flat[p] = ws[k][i]
    BY <1>2 DEF AllOf
  <2> QED BY <1>1, <1>3, <2>1 DEF Within
<1>6. ASSUME x # "engine" PROVE Bundled(n) \subseteq ToSet(flat)
  <2> SUFFICES ASSUME NEW gpu \in Bundled(n) PROVE gpu \in ToSet(flat)
    OBVIOUS
  <2>1. PICK k \in 1..Len(ws) : ws[k][1] = gpu
    BY <1>1, <1>6 DEF OnAll, OnEach
  <2>2. 1 \in 1..Len(ws[k])
    <3>1. Len(ws[k]) = 1
      BY <1>1, <1>3, <1>6
    <3> QED BY ONLY <3>1
  <2>3. PICK p \in 1..Len(flat) : flat[p] = ws[k][1]
    BY <1>2, <2>2 DEF AllOf
  <2> QED BY <1>4, <2>1, <2>3 DEF ToSet
<1>7. x # "engine" => Len(ws) = World(clusters[n])
  BY <1>1 DEF OnAll
<1> QED BY <1>2, <1>5, <1>6, <1>7 DEF GpusOf, flat, ws, n, e

\* Clusters have no GPU in common.
LEMMA BundledAsunder ==
    ASSUME LaunchInv, PlacesInv, NEW n \in DOMAIN clusters, NEW m \in DOMAIN clusters,
           NEW gpu \in Bundled(n), gpu \in Bundled(m)
    PROVE  n = m
<1>1. PICK k \in 1..Len(clusters[n].groups) : \E i \in 1..Len(clusters[n].groups[k]) :
          gpu = clusters[n].groups[k][i]
  BY BundledIs
<1>2. PICK l \in 1..Len(clusters[m].groups) : \E j \in 1..Len(clusters[m].groups[l]) :
          gpu = clusters[m].groups[l][j]
  BY BundledIs
<1>3. PICK i \in 1..Len(clusters[n].groups[k]) : gpu = clusters[n].groups[k][i]
  BY <1>1
<1>4. PICK j \in 1..Len(clusters[m].groups[l]) : gpu = clusters[m].groups[l][j]
  BY <1>2
<1>5. clusters[n].groups[k][i] = clusters[m].groups[l][j]
  BY <1>3, <1>4
<1> QED BY <1>5, AsunderAt DEF PlacesInv

\* The GPUs of the workers, as SoundLayout has them.
LEMMA WorkersAreSound ==
    ASSUME LayoutInv, ~Misnumbered
    PROVE  /\ \A x \in DOMAIN workers :
                  /\ IsInjective(GpusOf(x))
                  /\ \A y \in DOMAIN workers : ClusterOf(x) # ClusterOf(y) =>
                         ToSet(GpusOf(x)) \cap ToSet(GpusOf(y)) = {}
           /\ config.colocated /\ {"policy", "engine"} \subseteq DOMAIN workers =>
                  /\ ToSet(GpusOf("engine")) \subseteq ToSet(GpusOf("policy"))
                  /\ config.backend = "vllm" => Len(GpusOf("engine")) = Len(GpusOf("policy"))
           /\ "engine" \in DOMAIN workers /\ config.engine <= config.gpus =>
                  \A gpus \in ToSet(workers["engine"]) :
                      Cardinality({NodeOf(gpu) : gpu \in ToSet(gpus)}) = 1
<1>0. LaunchInv /\ PlacesInv /\ WorkersInv
  BY DEF LayoutInv
<1>1. ASSUME NEW x \in DOMAIN workers
      PROVE  /\ IsInjective(GpusOf(x))
             /\ \A y \in DOMAIN workers : ClusterOf(x) # ClusterOf(y) =>
                    ToSet(GpusOf(x)) \cap ToSet(GpusOf(y)) = {}
  <2>1. Distinct(GpusOf(x), Places)
    BY <1>0, GpusAre
  <2>2. IsInjective(GpusOf(x))
    BY <2>1 DEF Distinct, IsInjective
  <2>3. ASSUME NEW y \in DOMAIN workers, ClusterOf(x) # ClusterOf(y)
        PROVE  ToSet(GpusOf(x)) \cap ToSet(GpusOf(y)) = {}
    <3> SUFFICES ASSUME NEW gpu \in ToSet(GpusOf(x)), gpu \in ToSet(GpusOf(y)) PROVE FALSE
      OBVIOUS
    <3>1. gpu \in Bundled(ClusterOf(x)) /\ gpu \in Bundled(ClusterOf(y))
      BY <1>0, GpusAre
    <3>2. ClusterOf(x) \in DOMAIN clusters /\ ClusterOf(y) \in DOMAIN clusters
      BY <1>0, GroupIs
    <3> QED BY <1>0, <2>3, <3>1, <3>2, BundledAsunder
  <2> QED BY <2>2, <2>3
<1>2. ASSUME config.colocated, "policy" \in DOMAIN workers, "engine" \in DOMAIN workers
      PROVE  /\ ToSet(GpusOf("engine")) \subseteq ToSet(GpusOf("policy"))
             /\ config.backend = "vllm" => Len(GpusOf("engine")) = Len(GpusOf("policy"))
  <2>1. ClusterOf("policy") = "train" /\ ClusterOf("engine") = "train"
    BY <1>2 DEF ClusterOf
  <2>2. /\ ToSet(GpusOf("engine")) \subseteq Bundled("train")
        /\ Bundled("train") \subseteq ToSet(GpusOf("policy"))
        /\ Len(workers["policy"]) = World(clusters["train"])
        /\ Len(GpusOf("policy")) = Len(workers["policy"]) * 1
        /\ Len(GpusOf("engine")) = Len(workers["engine"]) * config.engine
        /\ Distinct(GpusOf("policy"), Places)
    BY <1>0, <1>2, <2>1, GpusAre DEF GpusEach
  <2>3. ASSUME config.backend = "vllm" PROVE Len(GpusOf("engine")) = Len(GpusOf("policy"))
    <3>1. /\ Len(workers["engine"]) = World(clusters["train"]) \div config.engine
          /\ World(clusters["train"]) % config.engine = 0
      BY <1>0, <1>2, <2>1, <2>3, GroupIs
    <3>2. config.engine \in Nat \ {0}
      BY <1>0, ConfigTypes DEF LaunchInv
    <3>3. World(clusters["train"]) \in Nat
      <4>1. "train" \in DOMAIN clusters
        BY <1>0, <1>2, <2>1, GroupIs
      <4>2. clusters["train"].nodes \in Nat /\ clusters["train"].gpus \in Nat
        BY <1>0, <4>1, ClusterIs
      <4> QED BY <4>2 DEF World
    <3> DEFINE w == World(clusters["train"])
               q == w \div config.engine
    <3>4. q \in Nat /\ w = config.engine * q + 0
      BY <3>1, <3>2, <3>3, Division
    <3> HIDE DEF q, w
    <3>5. w = q * config.engine
      BY <3>2, <3>4
    <3>6. Len(GpusOf("engine")) = q * config.engine /\ Len(GpusOf("policy")) = w * 1
      BY <2>2, <3>1 DEF q, w
    <3>7. w * 1 = w
      BY <3>3 DEF w
    <3> QED BY <3>5, <3>6, <3>7
  <2> QED BY <2>2, <2>3
<1>3. ASSUME "engine" \in DOMAIN workers, config.engine <= config.gpus,
             NEW gpus \in ToSet(workers["engine"])
      PROVE  Cardinality({NodeOf(gpu) : gpu \in ToSet(gpus)}) = 1
  <2>1. Tied(workers["engine"], Places, config.engine) /\ config.engine \in Nat \ {0}
    BY <1>0, <1>3, GroupIs DEF GpusEach
  <2>2. PICK k \in 1..Len(workers["engine"]) : gpus = workers["engine"][k]
    BY <2>1 DEF ToSet, Tied
  <2>3. gpus \in Seq(Places) /\ Len(gpus) = config.engine
    BY <2>1, <2>2 DEF Tied
  <2>4. OnOneNode(gpus)
    BY <1>0, <1>3, <2>2, GroupIs
  <2>5. DOMAIN gpus = 1..Len(gpus) /\ 1 \in 1..Len(gpus)
    BY <2>1, <2>3
  <2>6. {NodeOf(gpu) : gpu \in ToSet(gpus)} = {NodeOf(gpus[1])}
    BY <2>4, <2>5 DEF OnOneNode, ToSet
  <2> QED BY <2>6, FS_Singleton
<1> QED BY <1>1, <1>2, <1>3

\* The workers of so many engines of one size, and those that are called.
LEMMA EngineLayoutIs ==
    ASSUME NEW E, E \in Nat, NEW e, e \in Nat \ {0},
           NEW layout, layout = <<Axis("data_parallel", E), Axis("tensor_parallel", e)>>
    PROVE  /\ Workers(layout) = 0..(E * e - 1)
           /\ Called(layout, {"data_parallel"}, {}) = {w \in 0..(E * e - 1) : w % e = 0}
<1>1. /\ DOMAIN layout = 1..2 /\ Len(layout) = 2
      /\ layout[1].size = E /\ layout[2].size = e
      /\ layout[1].name = "data_parallel" /\ layout[2].name = "tensor_parallel"
      /\ layout \in Seq({layout[1], layout[2]})
  BY DEF Axis
<1>c. \A a \in 1..2 : a = 1 \/ a = 2
  OBVIOUS
<1>l. layout = layout
  OBVIOUS
<1>2. Span(layout, 1) = E * e
  <2> DEFINE seq == SubSeq(layout, 1, Len(layout))
  <2>1. DOMAIN seq = 1..2 /\ seq[1].size = E /\ seq[2].size = e
    <3>1. 1 \in 1..(Len(layout) + 1) /\ Len(layout) \in (1 - 1)..Len(layout)
      BY <1>1
    <3>2. /\ DOMAIN seq = 1..(Len(layout) - 1 + 1)
          /\ \A i \in 1..(Len(layout) - 1 + 1) : seq[i] = layout[1 + i - 1]
      BY ONLY <1>1, <3>1, SubSeqProperties
    <3>3. 1 \in 1..2 /\ 2 \in 1..2 /\ 1 + 1 - 1 = 1 /\ 1 + 2 - 1 = 2 /\ 2 - 1 + 1 = 2
      OBVIOUS
    <3> HIDE DEF seq
    <3> QED BY ONLY <1>1, <3>2, <3>3
  <2>2. Span(layout, 1) = SizeProduct(seq)
    BY DEF Span, SizeProduct
  <2> HIDE DEF seq
  <2>3. SizeProduct(seq) = seq[1].size * seq[2].size
    BY <2>1, TwoSizes
  <2> QED BY <2>1, <2>2, <2>3
<1>3. Span(layout, 3) = 1
  <2> DEFINE seq == SubSeq(layout, 3, Len(layout))
  <2>1. DOMAIN seq = 1..0
    <3>1. 3 \in 1..(Len(layout) + 1) /\ Len(layout) \in (3 - 1)..Len(layout)
      BY <1>1
    <3>2. DOMAIN seq = 1..(Len(layout) - 3 + 1)
      BY ONLY <1>1, <3>1, SubSeqProperties
    <3> HIDE DEF seq
    <3> QED BY ONLY <1>1, <3>2
  <2>2. Span(layout, 3) = SizeProduct(seq)
    BY DEF Span, SizeProduct
  <2> HIDE DEF seq
  <2> QED BY <2>1, <2>2, NoSize
<1> HIDE DEF Span
<1>4. SelectInSeq(layout, LAMBDA axis : axis.name = "tensor_parallel") = 2
  <2> DEFINE I == {i \in 1..Len(layout) : layout[i].name = "tensor_parallel"}
  <2>1. I = {2}
    BY ONLY <1>1, <1>c
  <2>2. I # {} /\ Min(I) = 2
    BY <2>1 DEF Min
  <2> QED BY <2>2, Zenon DEF SelectInSeq
<1>5. \A w : Coordinate(layout, w, "tensor_parallel") = (w \div Span(layout, 2 + 1)) % layout[2].size
  BY <1>4, Zenon DEF Coordinate
<1>6. \A w \in Nat : Coordinate(layout, w, "tensor_parallel") = w % e
  <2>1. Span(layout, 2 + 1) = 1
    BY <1>3
  <2>2. \A w \in Nat : w \div 1 = w
    OBVIOUS
  <2> QED BY ONLY <1>1, <1>5, <2>1, <2>2
<1>7. Names(layout) \ ({"data_parallel"} \cup {}) = {"tensor_parallel"}
  <2>1. Names(layout) = {"data_parallel", "tensor_parallel"}
    BY ONLY <1>1, <1>c DEF Names
  <2> QED BY ONLY <2>1
<1>8. Workers(layout) = 0..(E * e - 1)
  BY <1>2 DEF Workers
<1>9. Called(layout, {"data_parallel"}, {}) =
          {w \in Workers(layout) : \A name \in {"tensor_parallel"} : Coordinate(layout, w, name) = 0}
  BY ONLY <1>7 DEF Called
<1> HIDE DEF Coordinate, Called, Workers
<1> QED BY ONLY <1>6, <1>8, <1>9

\* So many of them are called.
LEMMA LeadersAre ==
    ASSUME NEW E, E \in Nat, NEW e, e \in Nat \ {0}
    PROVE  Cardinality({w \in 0..(E * e - 1) : w % e = 0}) = E
<1> DEFINE f == [k \in 1..E |-> e * (k - 1)]
           L == {w \in 0..(E * e - 1) : w % e = 0}
           image == {f[k] : k \in 1..E}
<1>1. IsFiniteSet(1..E) /\ Cardinality(1..E) = E
  <2>1. IsFiniteSet(1..E) /\ Cardinality(1..E) = IF 1 > E THEN 0 ELSE E - 1 + 1
    BY FS_Interval
  <2> QED BY <2>1
<1>2. f \in [1..E -> Nat]
  OBVIOUS
<1>3. \A k, l \in 1..E : f[k] = f[l] => k = l
  <2> SUFFICES ASSUME NEW k \in 1..E, NEW l \in 1..E, f[k] = f[l] PROVE k = l
    OBVIOUS
  <2>1. e * (k - 1) = e * (l - 1)
    OBVIOUS
  <2> DEFINE a == k - 1
             b == l - 1
  <2>2. a \in Nat /\ b \in Nat /\ e * a + 0 = e * b + 0 /\ 0 \in 0..(e - 1)
    BY <2>1
  <2> HIDE DEF a, b
  <2>3. (e * a + 0) \div e = a /\ (e * b + 0) \div e = b
    BY <2>2, Quotient
  <2>4. a = b
    BY <2>2, <2>3
  <2> QED BY <2>4 DEF a, b
<1>4. Cardinality(image) = E
  <2> DEFINE S == 1..E
  <2>1. IsFiniteSet(S) /\ Cardinality(S) = E /\ f \in [S -> Nat] /\ image = {f[k] : k \in S}
    BY ONLY <1>1, <1>2
  <2>2. \A k, l \in S : f[k] = f[l] => k = l
    BY <1>3
  <2> HIDE DEF f, S, image
  <2> QED BY ONLY <2>1, <2>2, FiniteImage
<1>v. \A k \in 1..E : f[k] = e * (k - 1)
  OBVIOUS
<1>5. image = L
  <2>1. ASSUME NEW k \in 1..E PROVE f[k] \in L
    <3> DEFINE a == k - 1
    <3>1. a \in Nat /\ 0 \in 0..(e - 1) /\ f[k] = e * a + 0 /\ a + 1 <= E /\ a + 1 \in Nat
      OBVIOUS
    <3> HIDE DEF a, f
    <3>2. (e * a + 0) % e = 0
      BY <3>1, Quotient
    <3>3. (a + 1) * e <= E * e
      BY <3>1, Order
    <3>4. (a + 1) * e = e * a + e /\ e * a \in Nat /\ E * e \in Nat
      BY <3>1
    <3>5. f[k] \in 0..(E * e - 1)
      BY <3>1, <3>3, <3>4
    <3> QED BY <3>1, <3>2, <3>5
  <2>2. ASSUME NEW w \in L PROVE \E k \in 1..E : f[k] = w
    <3> DEFINE q == w \div e
    <3>1. w \in Nat /\ w < E * e /\ w % e = 0 /\ E * e \in Nat
      OBVIOUS
    <3>2. q \in Nat /\ w = e * q + 0
      BY <3>1, Division
    <3>3. w < e * E
      BY <3>1
    <3>4. q < E
      BY <3>1, <3>3, QuotientBelow
    <3> HIDE DEF q
    <3> DEFINE k == q + 1
    <3>5. k \in 1..E /\ k - 1 = q
      BY <3>2, <3>4
    <3>6. e * q \in Nat /\ e * q + 0 = e * q
      BY <3>2
    <3> HIDE DEF f, k
    <3>7. f[k] = e * (k - 1)
      BY ONLY <3>5, <1>v
    <3>8. f[k] = w
      BY ONLY <3>2, <3>5, <3>6, <3>7
    <3> QED BY ONLY <3>5, <3>8
  <2> QED BY <2>1, <2>2
<1> QED BY <1>4, <1>5

\* The ranks of the policy, and those of the engines after them.
LEMMA RanksAre ==
    ASSUME NEW W, W \in Nat, NEW E, E \in Nat, NEW e, e \in Nat \ {0}, config.engine = e,
           World(clusters["train"]) = W, World(clusters["inference"]) = E * e,
           workers["policy"] \in Seq(Seq(Places)), Len(workers["policy"]) = W,
           workers["engine"] \in Seq(Seq(Places)), Len(workers["engine"]) = E,
           \A k \in 1..E : Len(workers["engine"][k]) = e
    PROVE  IsInjective(Ranks) /\ ToSet(Ranks) = 0..(WorldSize - 1)
<1> DEFINE pieces == [k \in 1..Cardinality(Leaders) |->
                         [i \in DOMAIN workers["engine"][k] |-> EngineRankOf(k, i)]]
           own == [w \in DOMAIN workers["policy"] |-> w - 1]
<1>1. Workers(EngineLayout) = 0..(E * e - 1) /\ Leaders = {w \in 0..(E * e - 1) : w % e = 0}
  <2>1. EngineLayout = <<Axis("data_parallel", E), Axis("tensor_parallel", e)>>
    BY DEF EngineLayout
  <2>2. E \in Nat /\ e \in Nat \ {0}
    OBVIOUS
  <2>3. /\ Workers(EngineLayout) = 0..(E * e - 1)
        /\ Called(EngineLayout, {"data_parallel"}, {}) = {w \in 0..(E * e - 1) : w % e = 0}
    BY ONLY <2>1, <2>2, EngineLayoutIs
  <2> QED BY <2>3, Zenon DEF Leaders
<1>2. Cardinality(Leaders) = E
  <2>1. Cardinality({w \in 0..(E * e - 1) : w % e = 0}) = E
    BY ONLY E \in Nat, e \in Nat \ {0}, LeadersAre
  <2> QED BY ONLY <1>1, <2>1, Zenon
<1>3. Cardinality(Workers(EngineLayout)) = E * e
  <2> DEFINE n == E * e
  <2>1. n \in Nat
    OBVIOUS
  <2> HIDE DEF n
  <2>2. Cardinality(0..(n - 1)) = n
    BY <2>1, FS_Interval
  <2> QED BY <1>1, <2>2 DEF n
<1>4. ASSUME NEW k \in 1..E, NEW i \in 1..e PROVE EngineRankOf(k, i) = W + (k - 1) * e + i - 1
  <2>1. E \in Nat \ {0} /\ 0 \in 0..(E - 1)
    OBVIOUS
  <2>2. (E * e + 0) \div E = e
    BY <2>1, Quotient
  <2>3. E * e + 0 = E * e
    OBVIOUS
  <2>4. RankPrefix(k) = (k - 1) * e
    BY <1>3, <2>2, <2>3 DEF RankPrefix
  <2> QED BY <2>4 DEF EngineRankOf
<1>5. Numbers(pieces, W, E, e)
  <2>1. ASSUME NEW k \in 1..E
        PROVE  /\ pieces[k] \in Seq(Nat) /\ Len(pieces[k]) = e
               /\ \A i \in 1..e : pieces[k][i] = W + (k - 1) * e + i - 1
    <3>1. DOMAIN workers["engine"][k] = 1..e
      OBVIOUS
    <3>2. pieces[k] = [i \in 1..e |-> EngineRankOf(k, i)]
      BY <1>2, <3>1
    <3> DEFINE m == (k - 1) * e
    <3>3. m \in Nat
      OBVIOUS
    <3> HIDE DEF m
    <3>4. \A i \in 1..e : EngineRankOf(k, i) = W + m + i - 1 /\ W + m + i - 1 \in Nat
      BY <1>4, <3>3 DEF m
    <3> HIDE DEF pieces
    <3>5. /\ pieces[k] \in Seq(Nat) /\ Len(pieces[k]) = e
          /\ \A i \in 1..e : pieces[k][i] = W + m + i - 1
      BY ONLY <3>2, <3>4, e \in Nat \ {0}
    <3> QED BY <3>5 DEF m
  <2>2. pieces = [k \in 1..E |-> pieces[k]]
    BY <1>2
  <2> HIDE DEF pieces
  <2> QED BY <2>1, <2>2 DEF Numbers
<1>6. Counts(FlattenSeq(pieces), W, E * e)
  <2> HIDE DEF pieces
  <2> QED BY <1>5, NumbersCount
<1>7. own \in Seq(Nat) /\ Len(own) = W /\ \A p \in 1..W : own[p] = p - 1
  <2>1. DOMAIN workers["policy"] = 1..W
    OBVIOUS
  <2>2. own = [w \in 1..W |-> w - 1]
    BY <2>1
  <2> HIDE DEF own
  <2> QED BY ONLY <2>2, W \in Nat
<1>8. Ranks = own \o FlattenSeq(pieces)
  BY DEF Ranks
<1>9. WorldSize = W + E * e
  BY DEF WorldSize
<1> DEFINE n == E * e
           rest == FlattenSeq(pieces)
<1>10. n \in Nat
  OBVIOUS
<1>11. Ranks = own \o rest /\ Counts(rest, W, n) /\ WorldSize = W + n
  BY <1>6, <1>8, <1>9
<1> HIDE DEF n, rest, own, pieces
<1>12. Ranks \in Seq(Nat) /\ Len(Ranks) = W + n /\ \A p \in 1..(W + n) : Ranks[p] = p - 1
  <2>1. /\ rest \in Seq(Nat) /\ Len(rest) = n /\ \A p \in 1..n : rest[p] = W + p - 1
    BY <1>11 DEF Counts
  <2>2. /\ Ranks \in Seq(Nat) /\ Len(Ranks) = W + n
        /\ \A p \in 1..W : Ranks[p] = own[p]
        /\ \A j \in 1..n : Ranks[W + j] = rest[j]
    BY <1>7, <1>11, <2>1, Joined
  <2>3. ASSUME NEW p \in 1..(W + n) PROVE Ranks[p] = p - 1
    <3>1. CASE p <= W
      BY <1>7, <1>10, <2>2, <3>1
    <3>2. CASE p > W
      <4>1. p - W \in 1..n /\ W + (p - W) = p
        BY <1>10, <3>2
      <4>2. Ranks[W + (p - W)] = W + (p - W) - 1
        BY <2>1, <2>2, <4>1
      <4> QED BY <4>1, <4>2
    <3> QED BY <3>1, <3>2, <1>10
  <2> QED BY <2>2, <2>3
<1>13. IsInjective(Ranks)
  BY <1>10, <1>12 DEF IsInjective
<1>14. ToSet(Ranks) = 0..(W + n - 1)
  <2>1. DOMAIN Ranks = 1..(W + n)
    BY <1>12, <1>10
  <2>2. \A r \in 0..(W + n - 1) : r + 1 \in 1..(W + n) /\ r = r + 1 - 1
    BY <1>10
  <2>3. ToSet(Ranks) = {Ranks[p] : p \in 1..(W + n)}
    BY <2>1, Zenon DEF ToSet
  <2>4. ASSUME NEW p \in 1..(W + n) PROVE Ranks[p] \in 0..(W + n - 1)
    BY <1>10, <1>12
  <2>5. ASSUME NEW r \in 0..(W + n - 1) PROVE \E p \in 1..(W + n) : Ranks[p] = r
    <3>1. r + 1 \in 1..(W + n) /\ Ranks[r + 1] = r
      BY <1>12, <2>2
    <3> QED BY <3>1
  <2> QED BY ONLY <2>3, <2>4, <2>5
<1>15. WorldSize = W + n
  BY ONLY <1>11
<1>16. 0..(WorldSize - 1) = 0..(W + n - 1)
  BY <1>10, <1>15
<1>17. ToSet(Ranks) = 0..(WorldSize - 1)
  BY ONLY <1>14, <1>16
<1> QED BY ONLY <1>13, <1>17

\* The layout is sound.
LEMMA LayoutIsSoundAt ==
    ASSUME LayoutInv, ~Misnumbered
    PROVE  SoundLayout
<1>1. ASSUME launch = "connecting" PROVE IsInjective(Ranks) /\ ToSet(Ranks) = 0..(WorldSize - 1)
  <2>1. ~config.colocated /\ \A t \in Awaited : todo[t] = << >>
    BY <1>1 DEF LayoutInv, ConstructedInv
  <2>2. "policy" \in DOMAIN workers /\ "engine" \in DOMAIN workers
    BY <2>1 DEF LayoutInv, ConstructedInv
  <2>3. LaunchInv /\ PlacesInv /\ WorkersInv /\ PlanInv /\ config \in Configuration
    BY DEF LayoutInv, PlacesInv, LaunchInv
  <2>4. /\ config.engine \in Nat \ {0} /\ config.backend \in {"vllm", "sglang"}
    BY <2>3, ConfigTypes
  <2>5. config.backend = "vllm"
    BY <2>1, <2>3, <2>4 DEF PlanInv, Accepted
  <2>6. ClusterOf("policy") = "train" /\ ClusterOf("engine") = "inference"
    BY <2>1 DEF ClusterOf
  <2>7. /\ "train" \in DOMAIN clusters /\ WorkersOn(workers["policy"], "train", 1)
        /\ OnAll(workers["policy"], "train")
    BY <2>2, <2>3, <2>6, GroupIs
  <2>8. /\ "inference" \in DOMAIN clusters /\ Tied(workers["engine"], Places, config.engine)
        /\ Len(workers["engine"]) = World(clusters["inference"]) \div config.engine
        /\ World(clusters["inference"]) % config.engine = 0
    BY <2>2, <2>3, <2>5, <2>6, GroupIs
  <2>9. /\ clusters["train"].nodes \in Nat /\ clusters["train"].gpus \in Nat
        /\ clusters["inference"].nodes \in Nat /\ clusters["inference"].gpus \in Nat
    BY <2>3, <2>4, <2>7, <2>8, ClusterIs, ConfigTypes
  <2> DEFINE W == World(clusters["train"])
             I == World(clusters["inference"])
             e == config.engine
             E == I \div e
  <2>10. W \in Nat /\ I \in Nat
    BY <2>9 DEF World
  <2> HIDE DEF W, I
  <2>11. E \in Nat /\ I = E * e
    <3>1. I % e = 0
      BY <2>8 DEF I
    <3>2. e \in Nat \ {0}
      BY <2>4
    <3> DEFINE q == I \div e
               r == I % e
    <3>3. q \in Nat /\ I = e * q + r
      BY <2>10, <3>2, Division
    <3>4. r = 0
      BY <3>1
    <3>5. q = E
      OBVIOUS
    <3> HIDE DEF q, r, E, e
    <3>6. e * q + 0 = q * e
      BY <3>2, <3>3
    <3> QED BY ONLY <3>3, <3>4, <3>5, <3>6
  <2>12. /\ workers["policy"] \in Seq(Seq(Places)) /\ Len(workers["policy"]) = W
    BY <2>7 DEF WorkersOn, OnAll, Tied, W
  <2>13. /\ workers["engine"] \in Seq(Seq(Places)) /\ Len(workers["engine"]) = E
         /\ \A k \in 1..E : Len(workers["engine"][k]) = e
    BY <2>8 DEF Tied, I
  <2>14. World(clusters["train"]) = W /\ World(clusters["inference"]) = E * e
         /\ config.engine = e /\ e \in Nat \ {0}
    BY <2>4, <2>11 DEF W, I
  <2> HIDE DEF E, e
  <2> QED BY ONLY <2>10, <2>11, <2>12, <2>13, <2>14, RanksAre
<1> QED BY <1>1, WorkersAreSound DEF SoundLayout

(* The servers of a refit over HTTP. *)

\* n workers of the policy, each on a GPU of its own, and servers of e GPUs each that are
\* no more GPUs than those of the policy.
Fit(gpus, gpusOfServers, n, e) ==
    /\ DOMAIN gpus = 0..(n - 1) /\ \A q, r \in 0..(n - 1) : gpus[q] = gpus[r] => q = r
    /\ Tied(gpusOfServers, Gpu, e) /\ Len(gpusOfServers) * e <= n
HttpFits == \E n \in Nat : \E e \in Nat \ {0} : Fit(device, servers, n, e)

\* Places are GPUs.
LEMMA TiedOnGpus ==
    ASSUME config \in Configuration, NEW ws, NEW e, Tied(ws, Places, e) PROVE Tied(ws, Gpu, e)
<1>1. Places \subseteq Gpu
  BY ConfigTypes DEF Places, Gpu
<1>2. ws \in Seq(Seq(Gpu))
  BY <1>1 DEF Tied
<1> QED BY <1>2 DEF Tied

\* setup() hands over a policy and servers that fit.
LEMMA PreparedFits ==
    ASSUME LayoutInv, launch = "ready", Path = "http", PrepareHTTP PROVE HttpFits'
<1>1. LaunchInv /\ PlacesInv /\ WorkersInv /\ config \in Configuration
  BY DEF LayoutInv, LaunchInv
<1>2. config.colocated /\ config.backend # "vllm"
  BY DEF Path
<1>3. \A t \in Awaited : todo[t] = << >>
  BY DEF LayoutInv, ConstructedInv
<1>4. "policy" \in DOMAIN workers /\ "engine" \in DOMAIN workers
  BY <1>3 DEF LayoutInv, ConstructedInv
<1>5. ClusterOf("policy") = "train" /\ ClusterOf("engine") = "train"
  BY <1>2 DEF ClusterOf
<1>6. "train" \in DOMAIN clusters /\ WorkersOn(workers["policy"], "train", 1)
      /\ OnAll(workers["policy"], "train")
  BY <1>1, <1>4, <1>5, GroupIs
<1>7. /\ Tied(workers["engine"], Places, config.engine)
      /\ Len(workers["engine"]) = World(clusters["train"]) \div config.engine
  BY <1>1, <1>4, <1>5, GroupIs
<1>8. config.engine \in Nat \ {0}
  BY <1>1, ConfigTypes
<1> DEFINE n == Len(workers["policy"])
           e == config.engine
           gpus == [w \in 0..(n - 1) |-> workers["policy"][w + 1][1]]
<1>9. Tied(workers["policy"], Places, 1)
  BY <1>6 DEF WorkersOn
<1>10. n \in Nat /\ \A k, l \in 1..n : workers["policy"][k][1] = workers["policy"][l][1] => k = l
  BY <1>9, SinglesAreApart
<1>11. DOMAIN gpus = 0..(n - 1) /\ \A q, r \in 0..(n - 1) : gpus[q] = gpus[r] => q = r
  <2> SUFFICES ASSUME NEW q \in 0..(n - 1), NEW r \in 0..(n - 1), gpus[q] = gpus[r] PROVE q = r
    OBVIOUS
  <2>1. q + 1 \in 1..n /\ r + 1 \in 1..n
    BY <1>10
  <2>2. q + 1 = r + 1
    BY <1>10, <2>1
  <2> QED BY <1>10, <2>2
<1>12. Len(workers["engine"]) * e <= n
  <2>1. Len(workers["engine"]) = n \div e
    BY <1>6, <1>7 DEF OnAll
  <2>2. e \in Nat \ {0}
    BY <1>8
  <2> DEFINE a == n \div e
             b == n % e
  <2>3. a \in Nat /\ b \in Nat /\ n = e * a + b
    <3>1. n \in Nat
      BY <1>10
    <3> HIDE DEF n, e
    <3> QED BY ONLY <2>2, <3>1, Division
  <2> HIDE DEF a, b, e, n
  <2>4. a * e <= n
    BY ONLY <2>2, <2>3
  <2> QED BY <2>1, <2>4 DEF a
<1>13. Tied(workers["engine"], Gpu, e)
  BY <1>1, <1>7, TiedOnGpus
<1>14. device' = gpus /\ servers' = workers["engine"]
  BY DEF PrepareHTTP, StartHttp
<1>15. Fit(gpus, workers["engine"], n, e)
  BY <1>11, <1>12, <1>13 DEF Fit
<1>16. n \in Nat /\ e \in Nat \ {0}
  BY <1>8, <1>10
<1> HIDE DEF gpus, n, e
<1>17. Fit(device', servers', n, e)
  BY ONLY <1>14, <1>15
<1>18. \E x \in Nat : \E y \in Nat \ {0} : Fit(device', servers', x, y)
  BY ONLY <1>16, <1>17
<1> QED BY <1>18 DEF HttpFits

\* When every worker of the policy has found a server, the servers have its GPUs and no others.
LEMMA FitServersAreOwn ==
    ASSUME HttpFits, \A r \in PolicyRank : ServerOf(r) # 0
    PROVE  OwnServers
<1>1. PICK n \in Nat : \E e \in Nat \ {0} : Fit(device, servers, n, e)
  BY DEF HttpFits
<1>2. PICK e \in Nat \ {0} : Fit(device, servers, n, e)
  BY <1>1
<1>3. /\ PolicyRank = 0..(n - 1) /\ \A q, r \in 0..(n - 1) : device[q] = device[r] => q = r
      /\ Tied(servers, Gpu, e) /\ Len(servers) * e <= n
  BY <1>2 DEF Fit, PolicyRank
<1> DEFINE D == {device[r] : r \in PolicyRank}
           flat == FlattenSeq(servers)
<1>4. IsFiniteSet(PolicyRank) /\ Cardinality(PolicyRank) = n
  BY <1>3, FS_Interval
<1>5. IsFiniteSet(D) /\ Cardinality(D) = n
  <2> DEFINE R == PolicyRank
             f == [r \in R |-> device[r]]
  <2>1. f \in [R -> D] /\ D = {f[r] : r \in R}
    OBVIOUS
  <2>2. \A q, r \in R : f[q] = f[r] => q = r
    BY <1>3
  <2> HIDE DEF R, f, D
  <2>3. IsFiniteSet(R) /\ Cardinality(R) = n
    BY <1>4 DEF R
  <2> QED BY ONLY <2>1, <2>2, <2>3, FiniteImage
<1>6. /\ servers \in Seq(Seq(Gpu)) /\ Len(servers) \in Nat /\ DOMAIN servers = 1..Len(servers)
      /\ \A s \in 1..Len(servers) : servers[s] \in Seq(Gpu) /\ Len(servers[s]) = e
      /\ Apart(servers, Len(servers))
  BY <1>3 DEF Tied
<1>7. Distinct(flat, Gpu) /\ AllOf(flat, servers, Len(servers)) /\ Len(flat) = Len(servers) * e
  BY <1>3, TiedFlattens DEF Evenly
<1>8. /\ IsFiniteSet(ToSet(flat)) /\ Cardinality(ToSet(flat)) <= n
  BY <1>3, <1>7, DistinctCounts
<1>9. \A gpu \in ToSet(flat) : \E s \in 1..Len(servers) : gpu \in ToSet(servers[s])
  <2> SUFFICES ASSUME NEW gpu \in ToSet(flat)
               PROVE  \E s \in 1..Len(servers) : gpu \in ToSet(servers[s])
    OBVIOUS
  <2>1. PICK p \in 1..Len(flat) : gpu = flat[p]
    BY <1>7 DEF ToSet, Distinct
  <2>2. PICK s \in 1..Len(servers) : \E i \in 1..Len(servers[s]) : flat[p] = servers[s][i]
    BY <1>7 DEF AllOf
  <2>3. gpu \in ToSet(servers[s])
    BY <1>6, <2>1, <2>2 DEF ToSet
  <2> QED BY <2>3
<1>10. \A s \in 1..Len(servers) : ToSet(servers[s]) \subseteq ToSet(flat)
  <2> SUFFICES ASSUME NEW s \in 1..Len(servers), NEW gpu \in ToSet(servers[s])
               PROVE  gpu \in ToSet(flat)
    OBVIOUS
  <2>1. PICK i \in 1..Len(servers[s]) : gpu = servers[s][i]
    BY <1>6 DEF ToSet
  <2>2. PICK p \in 1..Len(flat) : flat[p] = servers[s][i]
    BY <1>7 DEF AllOf
  <2>3. DOMAIN flat = 1..Len(flat)
    BY <1>7 DEF Distinct
  <2> QED BY <2>1, <2>2, <2>3 DEF ToSet
<1>11. \A r \in PolicyRank : \E s \in 1..Len(servers) : device[r] \in ToSet(servers[s])
  <2> SUFFICES ASSUME NEW r \in PolicyRank
               PROVE  \E s \in 1..Len(servers) : device[r] \in ToSet(servers[s])
    OBVIOUS
  <2> DEFINE I == {i \in 1..Len(servers) : device[r] \in ToSet(servers[i])}
  <2>1. ServerOf(r) = IF I # {} THEN CHOOSE x \in I : \A y \in I : x <= y ELSE 0
    BY DEF ServerOf, ServersOn, SelectInSeq, Min
  <2>2. I # {}
    <3> HIDE DEF I
    <3> QED BY <2>1
  <2> QED BY <2>2
<1>12. D \subseteq ToSet(flat)
  BY <1>10, <1>11
<1>13. D = ToSet(flat)
  <2> DEFINE F == ToSet(flat)
  <2>1. IsFiniteSet(F) /\ Cardinality(F) <= n /\ D \in SUBSET F /\ Cardinality(D) = n
    BY <1>5, <1>8, <1>12
  <2> HIDE DEF F, D
  <2>2. Cardinality(F) \in Nat /\ Cardinality(D) <= Cardinality(F)
    BY <2>1, FS_Subset, FS_CardinalityType
  <2>3. Cardinality(F) = Cardinality(D)
    BY <2>1, <2>2
  <2>4. D = F
    BY <2>1, <2>3, FS_Subset
  <2> QED BY <2>4 DEF F
<1>14. ASSUME NEW s \in DOMAIN servers
       PROVE  /\ ToSet(servers[s]) # {} /\ ToSet(servers[s]) \subseteq D
              /\ \A t \in DOMAIN servers : s # t => ToSet(servers[s]) \cap ToSet(servers[t]) = {}
  <2>1. ToSet(servers[s]) # {}
    <3>1. servers[s][1] \in ToSet(servers[s])
      BY <1>6 DEF ToSet
    <3> QED BY <3>1
  <2>2. ToSet(servers[s]) \subseteq D
    BY <1>6, <1>10, <1>13, Zenon
  <2>3. ASSUME NEW t \in DOMAIN servers, NEW gpu \in ToSet(servers[s]), gpu \in ToSet(servers[t])
        PROVE  s = t
    <3>1. s \in 1..Len(servers) /\ t \in 1..Len(servers)
      BY <1>6
    <3>2. PICK i \in 1..Len(servers[s]) : gpu = servers[s][i]
      BY <1>6 DEF ToSet
    <3>3. PICK j \in 1..Len(servers[t]) : gpu = servers[t][j]
      BY <1>6, <2>3 DEF ToSet
    <3>4. servers[s][i] = servers[t][j]
      BY <3>2, <3>3
    <3> QED BY ONLY <1>6, <3>1, <3>4, ApartAt
  <2> QED BY <2>1, <2>2, <2>3
<1>15. PolicyRank \subseteq Int
  BY <1>3
<1> HIDE DEF flat
<1> QED BY <1>4, <1>6, <1>14, <1>15 DEF OwnServers

\* A refit over HTTP has such a policy and such servers.
LEMMA FitsStep ==
    ASSUME stage = "launch" => LayoutInv, Control, path = "http" => HttpFits,
           [RefitNext]_refitVars, path' = "http"
    PROVE  HttpFits'
<1>1. CASE Prepare
  <2>1. stage = "launch" /\ launch = "ready" /\ path' = Path
    BY <1>1 DEF Prepare
  <2>2. Path = "http"
    BY <2>1
  <2>3. PrepareHTTP
    BY <1>1, <2>2 DEF Prepare
  <2> QED BY <2>1, <2>2, <2>3, PreparedFits
<1>2. CASE ~Prepare
  <2>1. path' = path /\ UNCHANGED <<device, servers>>
    BY <1>2 DEF RefitNext, refitVars, Launching, Trainers, Return, RaiseError, httpVars,
       OverIPC, OverNCCL, OverHTTP, HttpNext, HttpStep, GatherUuids, GatherHandlers, Post, PostFails
  <2>2. HttpFits
    BY <2>1
  <2> QED BY <2>1, <2>2 DEF HttpFits
<1> QED BY <1>1, <1>2

\* Policy and servers fit as long as the refit lasts.
LEMMA FitsInvariant == RefitSpec => [](path = "http" => HttpFits)
<1>1. RefitInit => path = "none"
  BY DEF RefitInit
<1>2. (stage = "launch" => LayoutInv) /\ Control /\ (path = "http" => HttpFits)
          /\ [RefitNext]_refitVars => (path = "http" => HttpFits)'
  BY FitsStep
<1>3. TransferInv => Control
  BY DEF TransferInv
<1>4. path = "none" => (path = "http" => HttpFits)
  OBVIOUS
<1> QED BY <1>1, <1>2, <1>3, <1>4, LayoutInvariant, TransferInvariant, PTL DEF RefitSpec

\* A refit over HTTP that is done was done on servers that have GPUs of the policy, and
\* their own.
LEMMA DoneIsOnOwnServers ==
    ASSUME TransferInv, path = "http" => HttpFits, stage = "returned", path = "http"
    PROVE  OwnServers
<1>1. AllAt("done") /\ HttpInv /\ HttpFits
  BY DEF TransferInv, Control
<1>2. \A r \in PolicyRank : ServerOf(r) # 0
  BY <1>1 DEF AllAt, HttpInv
<1> QED BY <1>1, <1>2, FitServersAreOwn

\* For every number of nodes and GPUs, every size of policy and engine, every order of the
\* threads and every choice of Ray: the layout is sound, and a refit over HTTP comes to its
\* end only on servers that have GPUs of the policy, and their own.
THEOREM LayoutIsSound == RefitSpec => []LaidOut
<1>1. /\ stage = "launch" => LayoutInv
      /\ TransferInv
      /\ path = "http" => HttpFits
      => LaidOut
  BY LayoutIsSoundAt, DoneIsOnOwnServers DEF LaidOut
<1> QED BY <1>1, LayoutInvariant, TransferInvariant, FitsInvariant, PTL

\* When the trainer goes on to generate, the engine has been updated over each of the three
\* paths.
THEOREM ReturnedIsUpdated == RefitSpec => []UpdatedWhenReturned
<1>1. TransferInv /\ (path = "http" => HttpFits) => UpdatedWhenReturned
  <2> SUFFICES ASSUME TransferInv, path = "http" => HttpFits, stage = "returned"
               PROVE  UpdatedWhenReturned
    BY DEF UpdatedWhenReturned
  <2>1. path \in {"ipc", "nccl", "http"}
    BY DEF TransferInv, Control
  <2>2. CASE path = "ipc"
    <3>1. UpdateSuccess
      BY <2>2 DEF TransferInv, Control
    <3>2. \A p \in Param : loaded[p] = {p}
      BY <3>1 DEF TransferInv, StreamInv, LoadedInv, UpdateSuccess
    <3> QED BY <2>2, <3>2 DEF UpdatedWhenReturned
  <2>3. CASE path = "nccl"
    <3>1. \A r \in LeadRank : host[r].pc = "done"
      BY <2>3 DEF TransferInv, Control
    <3>2. \A r \in LeadRank : Launched(r)
      BY <3>1, LeadsAreEngines, DoneHasLaunched DEF TransferInv
    <3> QED BY <2>3, <3>2 DEF UpdatedWhenReturned
  <2>4. CASE path = "http"
    <3>1. AllAt("done")
      BY <2>4 DEF TransferInv, Control
    <3>2. OwnServers
      BY <2>4, DoneIsOnOwnServers
    <3>3. \A s \in DOMAIN servers : Updated(s)
      BY <3>1, <3>2, DoneHasPosted DEF TransferInv
    <3> QED BY <2>4, <3>3 DEF UpdatedWhenReturned
  <2> QED BY <2>1, <2>2, <2>3, <2>4
<1> QED BY <1>1, TransferInvariant, FitsInvariant, PTL
=============================================================================
