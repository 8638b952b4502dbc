-------------------------- MODULE BranchPredictors --------------------------
(***************************************************************************)
(* The branch predictors bimodal, gshare, perceptron and hashed_perceptron,*)
(* one of which a core has.  The core asks for a prediction for each       *)
(* instruction ("at this point we do not know if the instruction is a      *)
(* branch") and tells the result of a branch at once (do_predict_branch).  *)
(* The program is a loop.  Counters saturate (fwcounter, sfwcounter).      *)
(***************************************************************************)
EXTENDS Integers, Sequences, FiniteSetsExt

CONSTANTS
  Programs,            \* for each predictor: loops of [ip, branch, taken]
  MaxTurns,            \* bound: the turns of the loop that are counted
  BITS, PRIME,         \* bimodal
  GLOBAL_HISTORY_LENGTH, COUNTER_BITS, Hash(_, _),     \* gshare
  PERCEPTRON_HISTORY, PERCEPTRON_BITS, NUM_PERCEPTRONS, NUM_UPDATE_ENTRIES,
  PERCEPTRON_THETA,    \* lround(1.93 * PERCEPTRON_HISTORY + 14)
  WORD_LEN, DIGITS, history_lengths, WEIGHT_BITS, THRESHOLD, THETA, SPEED,
  PcBits(_)            \* the lower bits of an address, as Value has them

VARIABLES
  predictor,           \* which one the core has
  program, at, turn,   \* the loop, the next instruction, and how many turns are over
  prediction,          \* the last one
  tables,              \* the state of the predictor
  recent               \* the results of all branches, the latest first, up to the longest history

vars == <<predictor, program, at, turn, prediction, tables, recent>>

Clamp(v, least, most) == IF v < least THEN least ELSE IF v > most THEN most ELSE v
Maximum(width) == 2 ^ width - 1
Plus(width, c, n) == Clamp(c + n, 0, Maximum(width))
SignedPlus(width, c, n) == Clamp(c + n, 0 - 2 ^ (width - 1), Maximum(width - 1))
Abs(x) == IF x < 0 THEN 0 - x ELSE x
Step(taken) == IF taken THEN 1 ELSE -1
Zeros(n) == [i \in 1 .. n |-> FALSE]
Shifted(history, bit) == [i \in DOMAIN history |-> IF i = 1 THEN bit ELSE history[i - 1]]

Instr == program[at]

-----------------------------------------------------------------------------
(* bimodal: a counter of BITS bits for each hash *)

BimodalHash(ip) == ip % PRIME

BimodalInit == [h \in 0 .. PRIME - 1 |-> 0]

BimodalPredict(ip) == tables[BimodalHash(ip)] > Maximum(BITS) \div 2

BimodalResult(ip, taken) == [tables EXCEPT ![BimodalHash(ip)] = Plus(BITS, @, Step(taken))]

-----------------------------------------------------------------------------
(* gshare: a counter for each hash of a branch with the last results *)

GshareInit ==
  [branch_history_vector |-> Zeros(GLOBAL_HISTORY_LENGTH),
   gs_history_table |-> [h \in {Hash(program[i].ip, v) : i \in 1 .. Len(program),
                                v \in [1 .. GLOBAL_HISTORY_LENGTH -> BOOLEAN]} |-> 0]]

GsharePredict(ip) ==
  tables.gs_history_table[Hash(ip, tables.branch_history_vector)] >= Maximum(COUNTER_BITS) \div 2

\* Mutant of GshareResult: the history is shifted before the counter is found.
GshareResultShifted(ip, taken) ==
  LET now == Shifted(tables.branch_history_vector, taken)
  IN  [branch_history_vector |-> now,
       gs_history_table |-> [tables.gs_history_table EXCEPT ![Hash(ip, now)] = Plus(COUNTER_BITS, @, Step(taken))]]

GshareResult(ip, taken) ==
  [branch_history_vector |-> Shifted(tables.branch_history_vector, taken),
   gs_history_table |-> [tables.gs_history_table EXCEPT ![Hash(ip, tables.branch_history_vector)] =
                           Plus(COUNTER_BITS, @, Step(taken))]]

-----------------------------------------------------------------------------
(* perceptron: it predicts with a history that it extends by its own       *)
(* predictions, keeps what it predicted with until the result is known, and*)
(* goes back to the history of the results after a wrong prediction.       *)

Index(ip) == ip % NUM_PERCEPTRONS

PerceptronInit ==
  [perceptrons |-> [x \in 0 .. NUM_PERCEPTRONS - 1 |->
                      [bias |-> 0, weights |-> [i \in 1 .. PERCEPTRON_HISTORY |-> 0]]],
   state_buf |-> << >>,
   spec_global_history |-> Zeros(PERCEPTRON_HISTORY), global_history |-> Zeros(PERCEPTRON_HISTORY)]

Output(p, history) ==
  p.bias + MapThenSumSet(LAMBDA i : IF history[i] THEN p.weights[i] ELSE 0 - p.weights[i], DOMAIN history)

\* internal_perceptron::update.
Trained(p, result, history) ==
  [bias |-> SignedPlus(PERCEPTRON_BITS, p.bias, Step(result)),
   weights |-> [i \in DOMAIN p.weights |-> SignedPlus(PERCEPTRON_BITS, p.weights[i], Step(history[i] = result))]]

\* predict_branch: the prediction is the latest bit of the speculative history.
PerceptronPredict(ip) ==
  LET output == Output(tables.perceptrons[Index(ip)], tables.spec_global_history)
      buf == Append(tables.state_buf, [ip |-> ip, output |-> output, history |-> tables.spec_global_history])
  IN  [tables EXCEPT !.state_buf = IF Len(buf) > NUM_UPDATE_ENTRIES THEN Tail(buf) ELSE buf,
                     !.spec_global_history = Shifted(@, output >= 0)]

\* last_branch_result, after a prediction that left t.
PerceptronResult(t, ip, taken) ==
  LET found == {i \in 1 .. Len(t.state_buf) : t.state_buf[i].ip = ip}
      first == Min(found)
      state == t.state_buf[first]
      wrong == (state.output >= 0) # taken
      now == Shifted(t.global_history, taken)
  IN  IF found = {} THEN t
      ELSE [perceptrons |->
              IF Abs(state.output) <= PERCEPTRON_THETA \/ wrong
              THEN [t.perceptrons EXCEPT ![Index(ip)] = Trained(@, taken, state.history)]
              ELSE t.perceptrons,
            state_buf |-> SubSeq(t.state_buf, 1, first - 1) \o SubSeq(t.state_buf, first + 1, Len(t.state_buf)),
            spec_global_history |-> IF wrong THEN now ELSE t.spec_global_history,
            global_history |-> now]

-----------------------------------------------------------------------------
(* folded_shift_register: the last results, packed into words of WORD_LEN  *)
(* bits and these into values, as many as fit into DIGITS bits.  A value is*)
(* the sequence of its bits, the least significant first.                  *)

NUM_WORDS_PER_VALUE == DIGITS \div WORD_LEN
VALUE_LEN == WORD_LEN * NUM_WORDS_PER_VALUE

Odd(S) == Cardinality(S) % 2 = 1

\* The constructor for a history of length bits.
NewHistory(length) ==
  [v \in 1 .. (length \div VALUE_LEN) + (IF length % VALUE_LEN # 0 THEN 1 ELSE 0) |-> Zeros(VALUE_LEN)]

\* Each value shifted by one; the one before gives the bit that comes in.
ShiftedWords(words, ins) ==
  [v \in DOMAIN words |-> Shifted(words[v], IF v = 1 THEN ins ELSE words[v - 1][VALUE_LEN])]

\* Mutant of PushBack: the last value is not cut.
PushBackAll(words, length, ins) == ShiftedWords(words, ins)

\* last_value_mask is applied to the last value unless it is zero.
PushBack(words, length, ins) ==
  LET n == length % VALUE_LEN
  IN  [v \in DOMAIN words |->
         IF v < Len(words) \/ n = 0 THEN ShiftedWords(words, ins)[v]
         ELSE [i \in 1 .. VALUE_LEN |-> ShiftedWords(words, ins)[v][i] /\ i <= n]]

\* value(): the exclusive or of the values, and of this with itself shifted by
\* words, cut to a word.
Value(words) ==
  LET joined(i) == i <= VALUE_LEN /\ Odd({v \in DOMAIN words : words[v][i]})
      shifts == IF NUM_WORDS_PER_VALUE > 1 THEN NUM_WORDS_PER_VALUE + 1 ELSE 0
  IN  [i \in 1 .. WORD_LEN |-> Odd({k \in 0 .. shifts : joined(i + k * WORD_LEN)})]

-----------------------------------------------------------------------------
(* hashed_perceptron: tables of weights, each with its length of history,  *)
(* and a threshold for training that adjusts itself.                       *)

Tables == 1 .. Len(history_lengths)
MAXHIST == history_lengths[Len(history_lengths)]

HashedInit ==
  [weights |-> [t \in Tables |-> [i \in [1 .. WORD_LEN -> BOOLEAN] |-> 0]],
   ghist_words |-> [t \in Tables |-> NewHistory(history_lengths[t])],
   theta |-> THETA, tc |-> 0]

\* predict_branch: what last_result holds.
HashedPredict(ip) ==
  LET indices == [t \in Tables |-> [i \in 1 .. WORD_LEN |-> Value(tables.ghist_words[t])[i] # PcBits(ip)[i]]]
  IN  [indices |-> indices, yout |-> MapThenSumSet(LAMBDA t : tables.weights[t][indices[t]], Tables)]

\* adjust_threshold.
Adjusted(t, correct) ==
  LET tc == IF correct THEN t.tc - 1 ELSE t.tc + 1
  IN  IF tc >= SPEED THEN [t EXCEPT !.theta = @ + 1, !.tc = 0]
      ELSE IF tc <= 0 - SPEED THEN [t EXCEPT !.theta = @ - 1, !.tc = 0]
      ELSE [t EXCEPT !.tc = tc]

HashedResult(result, taken) ==
  LET correct == taken = (result.yout >= THRESHOLD)
      pushed == [tables EXCEPT !.ghist_words = [t \in Tables |-> PushBack(@[t], history_lengths[t], taken)]]
  IN  IF correct /\ Abs(result.yout) >= tables.theta THEN pushed
      ELSE Adjusted([pushed EXCEPT !.weights =
                       [t \in Tables |-> [@[t] EXCEPT ![result.indices[t]] = SignedPlus(WEIGHT_BITS, @, Step(taken))]]],
                    correct)

-----------------------------------------------------------------------------
Init ==
  /\ predictor \in DOMAIN Programs /\ program \in Programs[predictor]
  /\ at = 1 /\ turn = 0 /\ prediction = TRUE /\ recent = Zeros(MAXHIST)
  /\ tables = CASE predictor = "bimodal" -> BimodalInit
                [] predictor = "gshare" -> GshareInit
                [] predictor = "perceptron" -> PerceptronInit
                [] predictor = "hashed_perceptron" -> HashedInit

Bimodal ==
  /\ predictor = "bimodal"
  /\ prediction' = BimodalPredict(Instr.ip)
  /\ tables' = IF Instr.branch THEN BimodalResult(Instr.ip, Instr.taken) ELSE tables

Gshare ==
  /\ predictor = "gshare"
  /\ prediction' = GsharePredict(Instr.ip)
  /\ tables' = IF Instr.branch THEN GshareResult(Instr.ip, Instr.taken) ELSE tables

Perceptron ==
  /\ predictor = "perceptron"
  /\ \E t \in {PerceptronPredict(Instr.ip)} :
       /\ prediction' = t.spec_global_history[1]
       /\ tables' = IF Instr.branch THEN PerceptronResult(t, Instr.ip, Instr.taken) ELSE t

HashedPerceptron ==
  /\ predictor = "hashed_perceptron"
  /\ \E result \in {HashedPredict(Instr.ip)} :
       /\ prediction' = (result.yout >= THRESHOLD)
       /\ tables' = IF Instr.branch THEN HashedResult(result, Instr.taken) ELSE tables

Next ==
  /\ Bimodal \/ Gshare \/ Perceptron \/ HashedPerceptron
  /\ at' = (at % Len(program)) + 1
  /\ turn' = IF at = Len(program) /\ turn < MaxTurns THEN turn + 1 ELSE turn
  /\ recent' = IF Instr.branch THEN Shifted(recent, Instr.taken) ELSE recent
  /\ UNCHANGED <<predictor, program>>

Spec == Init /\ [][Next]_vars

-----------------------------------------------------------------------------
\* The instruction that the last prediction was for.
Previous == program[IF at = 1 THEN Len(program) ELSE at - 1]

\* Whether ip is taken more often than not.
Results(ip) == {i \in 1 .. Len(program) : program[i].branch /\ program[i].ip = ip}
Majority(ip) == 2 * Cardinality({i \in Results(ip) : program[i].taken}) > Cardinality(Results(ip))

\* A predictor learns the loop: after MaxTurns turns each branch is predicted right for
\* ever; by bimodal, which has no history, as its more frequent result, which the other
\* does not make it forget.
Learns ==
  turn = MaxTurns /\ Previous.branch =>
    prediction = IF predictor = "bimodal" THEN Majority(Previous.ip) ELSE Previous.taken

\* The folded histories, which are shifted value by value, are the words of the last
\* results folded onto each other: an old result leaves each of them after as many
\* branches as the history is long.
FoldsHistory ==
  predictor = "hashed_perceptron" =>
    \A t \in Tables :
      Value(tables.ghist_words[t]) =
        [i \in 1 .. WORD_LEN |-> Odd({p \in 1 .. history_lengths[t] : recent[p] /\ (p - i) % WORD_LEN = 0})]
=============================================================================
