-------------------------------- MODULE Fifo --------------------------------
(***************************************************************************)
(* What a ring promises: an unbounded queue that hands back what was put   *)
(* into it, once, in order.  ret is the answer to the last call.  A call   *)
(* that reports an allocation failure loses the content, as deleting the   *)
(* queue does.                                                             *)
(***************************************************************************)
EXTENDS Integers, Sequences

CONSTANTS Items, None

VARIABLES queue, ret

vars == <<queue, ret>>

Answer(op, err, val) == [op |-> op, err |-> err, val |-> val]

Init ==
  /\ queue = <<>>
  /\ ret = Answer("none", 0, None)

Push(v) ==
  /\ queue' = Append(queue, v)
  /\ ret' = Answer("push", 0, None)

Pull ==
  /\ queue # <<>>
  /\ queue' = Tail(queue)
  /\ ret' = Answer("pull", 0, Head(queue))

PullNothing ==
  /\ queue = <<>>
  /\ UNCHANGED queue
  /\ ret' = Answer("pull", -1, None)

Resize ==
  /\ UNCHANGED queue
  /\ ret' = Answer("realloc", 0, None)

Empty ==
  /\ UNCHANGED queue
  /\ ret' = Answer("empty", 0, queue = <<>>)

Full ==
  /\ UNCHANGED queue
  /\ \E b \in BOOLEAN : ret' = Answer("full", 0, b)

Fresh ==
  /\ queue' = <<>>
  /\ ret' \in {Answer("create", 0, None), Answer("delete", 0, None)}

Failed ==
  /\ queue' = <<>>
  /\ \E op \in {"create", "push", "realloc"} : ret' = Answer(op, -1, None)

Next ==
  \/ \E v \in Items : Push(v)
  \/ Pull
  \/ PullNothing
  \/ Resize
  \/ Empty
  \/ Full
  \/ Fresh
  \/ Failed

Spec == Init /\ [][Next]_vars
=============================================================================
