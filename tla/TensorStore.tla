------------------------------ MODULE TensorStore ------------------------------
(***************************************************************************)
(* What the host sees of its tensors while the EP computes and copies: each *)
(* call is a list of writes, done one at a time and in order, and it may    *)
(* stop early with an error.  A computation writes the results of its       *)
(* inputs as they were when it began; a copy writes what its source holds   *)
(* when it is its turn.  No device, buffer or reference count is visible.   *)
(***************************************************************************)
EXTENDS Naturals, Sequences

CONSTANTS
  Threads, Tensors, Values,
  Result(_, _),             \* Result(j, ins): output j of the compiled program
  MaxInputs, MaxOutputs     \* bounds on the arguments of a call

VARIABLES
  content,  \* value of each tensor, -1 when there is no such tensor
  job       \* per thread: the writes its call still has to make

vars == <<content, job>>

UpTo(S, n) == UNION {[1 .. k -> S] : k \in 0 .. n}

Exists(t) == content[t] # 0 - 1

\* A write stores val, or the value of a source tensor.
NoSource == "none"
ValueOf(w) == IF w.from = NoSource THEN w.val ELSE content[w.from]

Init == /\ content = [t \in Tensors |-> 0 - 1]
        /\ job = [th \in Threads |-> << >>]

Create(t) == /\ ~Exists(t)
             /\ \E v \in Values : content' = [content EXCEPT ![t] = v]
             /\ UNCHANGED job

\* The host lets go of some tensors.
Drop(S) == /\ content' = [t \in Tensors |-> IF t \in S THEN 0 - 1 ELSE content[t]]
           /\ UNCHANGED job

\* A thread begins a call when it has none.
Idle(th) == job[th] = << >>

Compute(th, ins, outs) ==
  /\ \A k \in DOMAIN ins : Exists(ins[k])
  /\ job' = [job EXCEPT ![th] =
       [j \in DOMAIN outs |->
          [to |-> outs[j], from |-> NoSource,
           val |-> Result(j, [k \in DOMAIN ins |-> content[ins[k]]])]]]
  /\ UNCHANGED content

Copy(th, srcs, dsts) ==
  /\ job' = [job EXCEPT ![th] =
       [k \in DOMAIN dsts |-> [to |-> dsts[k], from |-> srcs[k], val |-> 0]]]
  /\ UNCHANGED content

Write(th) ==
  /\ job[th] # << >>
  /\ Exists(Head(job[th]).to)
  /\ content' = [content EXCEPT ![Head(job[th]).to] = ValueOf(Head(job[th]))]
  /\ job' = [job EXCEPT ![th] = Tail(@)]

Fail(th) == /\ job[th] # << >>
            /\ job' = [job EXCEPT ![th] = << >>]
            /\ UNCHANGED content

Next ==
  \/ \E t \in Tensors : Create(t)
  \/ \E S \in SUBSET Tensors : Drop(S)
  \/ \E th \in Threads :
       \/ /\ Idle(th)
          /\ \/ \E ins \in UpTo(Tensors, MaxInputs), outs \in UpTo(Tensors, MaxOutputs) :
                  Compute(th, ins, outs)
             \/ \E n \in 0 .. MaxInputs :
                  \E srcs, dsts \in [1 .. n -> Tensors] : Copy(th, srcs, dsts)
       \/ Write(th)
       \/ Fail(th)

Spec == Init /\ [][Next]_vars
===============================================================================
