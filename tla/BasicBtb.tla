------------------------------ MODULE BasicBtb ------------------------------
(***************************************************************************)
(* basic_btb: the target of a branch comes from the return stack, from the *)
(* predictor of indirect branches or from a table, by the type with which  *)
(* the table knows the branch.  The table is an lru_table, of which a set  *)
(* is the list of its entries, the last used first (module RecencyList).   *)
(***************************************************************************)
EXTENDS Integers, Sequences, FiniteSets

CONSTANTS
  Code,                  \* branches [ip, type, targets, size], where size is that of a call
  Sets, Ways,            \* of the table
  max_size,              \* of the return stack
  num_call_size_trackers,
  PredictorSize, HistoryLength,
  MaxDepth               \* bound: calls that have not returned

VARIABLES direct, stack, call_size_trackers, predictor, conditional_history,
          callers,       \* the calls that have not returned, the last one last
          learnt,        \* by tracker: the call that it was calibrated for
          prediction     \* [ip, target, always] of the last branch

vars == <<direct, stack, call_size_trackers, predictor, conditional_history, callers, learnt, prediction>>

NoTarget == 0
Calls == {"DIRECT_CALL", "INDIRECT_CALL"}
Indirects == {"INDIRECT", "INDIRECT_CALL"}

Tag(ip) == ip \div 4                     \* slice_upper<2_b>
SetOf(ip) == Tag(ip) % Sets
Tracker(ip) == ip % num_call_size_trackers
NoHistory == [i \in 1 .. HistoryLength |-> 0]

\* The history as a number is added without a carry: HistoryLength is 1 or 2 bits.
XorBit(x, i, b) == LET p == 2 ^ (i - 1) IN
  IF b = 0 THEN x ELSE IF (x \div p) % 2 = 1 THEN x - p ELSE x + p
Hashed[i \in 0 .. HistoryLength, x \in 0 .. 63] ==
  IF i = 0 THEN x ELSE XorBit(Hashed[i - 1, x], i, conditional_history[i])
Slot(ip) == Hashed[HistoryLength, Tag(ip)] % PredictorSize

Init ==
  /\ direct = [s \in 0 .. Sets - 1 |-> << >>]
  /\ stack = << >> /\ callers = << >>
  /\ call_size_trackers = [i \in 0 .. num_call_size_trackers - 1 |-> 4]
  /\ learnt = [i \in 0 .. num_call_size_trackers - 1 |-> NoTarget]
  /\ predictor = [i \in 0 .. PredictorSize - 1 |-> NoTarget]
  /\ conditional_history = NoHistory
  /\ prediction = [ip |-> NoTarget, target |-> NoTarget, always |-> FALSE]

-----------------------------------------------------------------------------
With(q, ip) == SelectSeq(q, LAMBDA e : Tag(e.ip_tag) = Tag(ip))
Without(q, ip) == SelectSeq(q, LAMBDA e : Tag(e.ip_tag) # Tag(ip))
CheckHit(q, ip) == With(q, ip) \o Without(q, ip)
Fill(q, e) == LET r == <<e>> \o Without(q, e.ip_tag) IN IF Len(r) > Ways THEN SubSeq(r, 1, Ways) ELSE r

\* return_stack::prediction.
ReturnPrediction ==
  IF stack = << >> THEN NoTarget
  ELSE LET call == stack[Len(stack)] IN call + call_size_trackers[Tracker(call)]

BtbPrediction(ip) ==
  LET hit == With(direct[SetOf(ip)], ip)
      type == hit[1].type
  IN  CASE hit = << >> -> [ip |-> ip, target |-> NoTarget, always |-> FALSE]
        [] hit # << >> /\ type = "RETURN" -> [ip |-> ip, target |-> ReturnPrediction, always |-> TRUE]
        [] hit # << >> /\ type = "INDIRECT" -> [ip |-> ip, target |-> predictor[Slot(ip)], always |-> TRUE]
        [] OTHER -> [ip |-> ip, target |-> hit[1].target, always |-> type # "CONDITIONAL"]

\* direct_predictor::update.  The entry is a copy: it gets into the table only with a
\* target.
InfoOf(type) ==
  IF type \in Indirects THEN "INDIRECT"
  ELSE IF type \in {"RETURN", "CONDITIONAL"} THEN type ELSE "ALWAYS_TAKEN"
DirectUpdate(q, ip, target, type) ==
  LET looked == CheckHit(q, ip)
      hit == With(q, ip)
      entry == [ip_tag |-> IF hit = << >> THEN ip ELSE hit[1].ip_tag, target |-> target, type |-> InfoOf(type)]
  IN  IF target = NoTarget THEN looked ELSE Fill(looked, entry)

\* return_stack::push.
\* Mutant of Push: the call that does not fit is dropped.
PushDrop(ip) == IF Len(stack) < max_size THEN Append(stack, ip) ELSE stack

Push(ip) ==
  LET s == Append(stack, ip) IN IF Len(s) > max_size THEN Tail(s) ELSE s

\* Mutant of Calibrate: the tracker of the return is set.
CalibrateBack(ip, target) ==
  LET d == IF ip > target THEN ip - target ELSE target - ip
  IN  IF d <= 10 THEN [call_size_trackers EXCEPT ![Tracker(target)] = d] ELSE call_size_trackers

\* calibrate_call_size, for the call that was popped: how far the return went from it.
Calibrate(ip, target) ==
  LET d == IF ip > target THEN ip - target ELSE target - ip
  IN  IF d <= 10 THEN [call_size_trackers EXCEPT ![Tracker(ip)] = d] ELSE call_size_trackers

UpdateBtb(ip, target, taken, type) ==
  /\ predictor' = IF type \in Indirects THEN [predictor EXCEPT ![Slot(ip)] = target] ELSE predictor
  /\ conditional_history' =
       IF type = "CONDITIONAL"
       THEN [i \in 1 .. HistoryLength |-> IF i = 1 THEN (IF taken THEN 1 ELSE 0) ELSE conditional_history[i - 1]]
       ELSE conditional_history
  /\ direct' = [direct EXCEPT ![SetOf(ip)] = DirectUpdate(CheckHit(@, ip), ip, target, type)]
  /\ IF type \in Calls THEN stack' = Push(ip) /\ UNCHANGED call_size_trackers
     ELSE IF type = "RETURN" /\ stack # << >>
     THEN /\ stack' = SubSeq(stack, 1, Len(stack) - 1)
          /\ call_size_trackers' = Calibrate(stack[Len(stack)], target)
     ELSE UNCHANGED <<stack, call_size_trackers>>

-----------------------------------------------------------------------------
\* A branch of the program: do_predict_branch asks and then tells.
Jump(b) ==
  /\ b.type \notin Calls \cup {"RETURN"}
  /\ prediction' = BtbPrediction(b.ip)
  /\ \/ \E t \in b.targets : UpdateBtb(b.ip, t, TRUE, b.type)
     \/ b.type = "CONDITIONAL" /\ UpdateBtb(b.ip, NoTarget, FALSE, b.type)
  /\ UNCHANGED <<callers, learnt>>

Call(b) ==
  /\ b.type \in Calls /\ Len(callers) < MaxDepth
  /\ prediction' = BtbPrediction(b.ip)
  /\ \E t \in b.targets : UpdateBtb(b.ip, t, TRUE, b.type)
  /\ callers' = Append(callers, b)
  /\ UNCHANGED learnt

\* A return to behind the call, and what the stack learns from it.
Return(b) ==
  /\ b.type = "RETURN" /\ callers # << >>
  /\ prediction' = BtbPrediction(b.ip)
  /\ LET c == callers[Len(callers)]
     IN  /\ UpdateBtb(b.ip, c.ip + c.size, TRUE, b.type)
         /\ learnt' = IF stack # << >> /\ c.size <= 10 THEN [learnt EXCEPT ![Tracker(c.ip)] = c.ip] ELSE learnt
  /\ callers' = SubSeq(callers, 1, Len(callers) - 1)

\* An instruction that is not a branch only asks.
Other(b) ==
  /\ b.type = "NONE"
  /\ prediction' = BtbPrediction(b.ip)
  /\ direct' = [direct EXCEPT ![SetOf(b.ip)] = CheckHit(@, b.ip)]
  /\ UNCHANGED <<stack, call_size_trackers, predictor, conditional_history, callers, learnt>>

Next == \E b \in Code : Jump(b) \/ Call(b) \/ Return(b) \/ Other(b)

Spec == Init /\ [][Next]_vars

-----------------------------------------------------------------------------
\* The return stack has the last calls that have not returned, also after there were
\* more of them than it can hold.
HoldsCallers ==
  LET n == Len(stack)
  IN  /\ n <= Len(callers)
      /\ \A i \in 1 .. n : stack[i] = callers[Len(callers) - n + i].ip

\* A return to a call whose size was the last one learnt by its tracker is predicted
\* right, if the table knows that it is a return.
ReturnsRight ==
  [][\A b \in Code :
       /\ callers # << >> /\ stack # << >> /\ callers' = SubSeq(callers, 1, Len(callers) - 1)
       /\ prediction'.ip = b.ip /\ b.type = "RETURN"
       /\ With(direct[SetOf(b.ip)], b.ip) # << >> /\ With(direct[SetOf(b.ip)], b.ip)[1].type = "RETURN"
       => LET c == callers[Len(callers)]
          IN  learnt[Tracker(c.ip)] = c.ip => prediction'.target = c.ip + c.size]_vars
=============================================================================
