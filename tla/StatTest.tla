------------------------------ MODULE StatTest ------------------------------
(***************************************************************************)
(* The statistical tests of FIPS 140-2 that the crypto kernel runs on its  *)
(* random sources (stat.c): monobit, poker and runs in one pass over the   *)
(* source, repeated until a trial passes or the trials are used up.        *)
(*                                                                         *)
(* The widths are parameters: an octet has 2 * NibbleBits bits, and the    *)
(* limits of the tests are constants.                                      *)
(***************************************************************************)
EXTENDS Integers, Sequences, FiniteSets, FiniteSetsExt

CONSTANTS NibbleBits,         \* 4
          DataLen,            \* octets of one trial (2500)
          BufLen,             \* octets read at once (50)
          LongRun,            \* the longest run that is let pass (25)
          Groups,             \* longer runs are counted with these (6)
          OnesLo, OnesHi,     \* 9725, 10275
          PokerLo, PokerHi,   \* 2.16 and 46.17, times the number of nibbles
          RunLo, RunHi,       \* lo_value, hi_value
          MaxTrials           \* MAX_RNG_TRIALS (25)

StatAssumption == /\ {NibbleBits, DataLen, BufLen, LongRun, Groups, MaxTrials}
                         \subseteq Nat \ {0}
                  /\ DataLen % BufLen = 0 \* "this value MUST divide 2500!"
                  /\ Groups <= LongRun

OctetBits == 2 * NibbleBits
Nibbles == 2 ^ NibbleBits
Octets == 0 .. (Nibbles * Nibbles - 1)

VARIABLES data,       \* the octets of this trial, in order
          ones_count, \* monobit counter
          f,          \* poker counters
          acc,        \* runs counters: [state, runs, gaps, long]
          trial,      \* number of the trial
          err         \* "running" until the repetition returns

vars == <<data, ones_count, f, acc, trial, err>>

-----------------------------------------------------------------------------
Bit(x, k) == (x \div 2 ^ k) % 2 = 1
octet_get_weight(x) == Cardinality({k \in 0 .. (OctetBits - 1) : Bit(x, k)})
Abs(n) == IF n < 0 THEN -n ELSE n
Grouped(n) == IF n > Groups THEN Groups ELSE n

NoRuns == [state |-> 0, long |-> FALSE,
           runs |-> [g \in 0 .. (Groups - 1) |-> 0], gaps |-> [g \in 0 .. (Groups - 1) |-> 0]]

\* One bit of the runs test: state is the length of the current run, negative
\* for a gap.  A bit of the other kind ends it and counts it.
BitStep(a, one) ==
    LET sign == IF one THEN 1 ELSE -1
    IN  IF a.long THEN a
        ELSE IF a.state * sign > 0
        THEN [a EXCEPT !.state = @ + sign, !.long = Abs(a.state) + 1 > LongRun]
        ELSE IF a.state = 0 THEN [a EXCEPT !.state = sign]
        ELSE IF one
        THEN [a EXCEPT !.state = 1, !.gaps[Grouped(-a.state) - 1] = @ + 1]
        ELSE [a EXCEPT !.state = -1, !.runs[Grouped(a.state) - 1] = @ + 1]

\* The bits of an octet, the lowest first.
OctetStep(a, x) ==
    LET after[k \in 0 .. OctetBits] ==
            IF k = 0 THEN a ELSE BitStep(after[k - 1], Bit(x, k - 1))
    IN  after[OctetBits]

-----------------------------------------------------------------------------
\* The limits, on the counters of a trial.
MonobitOk(ones) == ones \in OnesLo .. OnesHi
PokerOk(freq) ==
    LET n == 2 * DataLen
    IN  Nibbles * MapThenSumSet(LAMBDA v : freq[v] * freq[v], DOMAIN freq) - n * n
            \in PokerLo .. PokerHi
RunsOk(a) == \A g \in 0 .. (Groups - 1) : {a.runs[g], a.gaps[g]} \subseteq RunLo[g] .. RunHi[g]

\* The tests on a buffer of DataLen octets.
stat_test_monobit(s) ==
    MonobitOk(MapThenSumSet(LAMBDA i : octet_get_weight(s[i]), DOMAIN s))

stat_test_poker(s) ==
    PokerOk([v \in 0 .. (Nibbles - 1) |->
                Cardinality({i \in DOMAIN s : s[i] % Nibbles = v})
                    + Cardinality({i \in DOMAIN s : s[i] \div Nibbles = v})])

stat_test_runs(s) ==
    LET after[i \in 0 .. Len(s)] == IF i = 0 THEN NoRuns ELSE OctetStep(after[i - 1], s[i])
    IN  ~ after[Len(s)].long /\ RunsOk(after[Len(s)])

-----------------------------------------------------------------------------
NoNibbles == [v \in 0 .. (Nibbles - 1) |-> 0]

Init == /\ data = <<>> /\ ones_count = 0 /\ f = NoNibbles /\ acc = NoRuns
        /\ trial = 1 /\ err = "running"

\* A trial that returns status s: the repetition returns when it is ok or was the
\* last one, and starts again with new counters otherwise.
TrialReturns(s) ==
    IF s = "ok" \/ trial = MaxTrials
    THEN err' = s /\ UNCHANGED <<data, ones_count, f, acc, trial>>
    ELSE /\ trial' = trial + 1 /\ UNCHANGED err
         /\ data' = <<>> /\ ones_count' = 0 /\ f' = NoNibbles /\ acc' = NoRuns

\* get_rand_bytes returns an error when the buffer is to be filled.
SourceFails ==
    /\ err = "running" /\ Len(data) < DataLen /\ Len(data) % BufLen = 0
    /\ TrialReturns("source_fail")

\* The octet x of the buffer updates all counters; a run that is too long fails
\* the trial at once.
Octet(x) ==
    /\ err = "running" /\ Len(data) < DataLen
    /\ LET a == OctetStep(acc, x)
           lo == [f EXCEPT ![x % Nibbles] = @ + 1]
       IN  IF a.long THEN TrialReturns("algo_fail")
           ELSE /\ data' = Append(data, x)
                /\ ones_count' = ones_count + octet_get_weight(x)
                /\ f' = [lo EXCEPT ![x \div Nibbles] = @ + 1]
                /\ acc' = a
                /\ UNCHANGED <<trial, err>>

\* "check to see if test data is within bounds"
EndTrial ==
    /\ err = "running" /\ Len(data) = DataLen
    /\ TrialReturns(IF MonobitOk(ones_count) /\ PokerOk(f) /\ RunsOk(acc)
                    THEN "ok" ELSE "algo_fail")

Next == SourceFails \/ EndTrial \/ \E x \in Octets : Octet(x)

Spec == Init /\ [][Next]_vars

-----------------------------------------------------------------------------
\* The bits of the trial so far, and their runs and gaps: <<first, last>>.
Bits == [n \in 1 .. (Len(data) * OctetBits) |->
            Bit(data[1 + ((n - 1) \div OctetBits)], (n - 1) % OctetBits)]
Blocks == LET N == Len(data) * OctetBits
              b == Bits
          IN  {p \in (1 .. N) \X (1 .. N) :
                  /\ p[1] <= p[2]
                  /\ \A n \in p[1] .. p[2] : b[n] = b[p[1]]
                  /\ p[1] > 1 => b[p[1] - 1] # b[p[1]]
                  /\ p[2] < N => b[p[2] + 1] # b[p[1]]}
Size(p) == p[2] - p[1] + 1
\* How many blocks of ones (or of zeros) that another block follows satisfy P.
CountBlocks(one, P(_)) ==
    Cardinality({p \in Blocks : Bits[p[1]] = one /\ p[2] < Len(data) * OctetBits /\ P(p)})

\* Types of the variables.
TypeOK == /\ data \in UNION {[1 .. n -> Octets] : n \in 0 .. DataLen}
          /\ ones_count \in 0 .. (DataLen * OctetBits)
          /\ f \in [0 .. (Nibbles - 1) -> 0 .. (2 * DataLen)]
          /\ acc.state \in -LongRun .. LongRun
          /\ trial \in 1 .. MaxTrials
          /\ err \in {"running", "ok", "algo_fail", "source_fail"}

\* The runs counters hold the maximal blocks of equal bits of the stream, across
\* octet boundaries: counter g those of g + 1 bits, the last one all the longer.
\* (The block the data ends in is never counted.)  (stat.c: stat_test_runs)
RunsAreMaximal ==
    \A g \in 0 .. (Groups - 1) :
        LET inGroup(p) == Grouped(Size(p)) = g + 1
        IN  /\ acc.runs[g] = CountBlocks(TRUE, inGroup)
            /\ acc.gaps[g] = CountBlocks(FALSE, inGroup)

\* A source is let pass only with data on which the three tests of the buffer
\* pass and in which no run is longer than LongRun: the one-pass test is as
\* strict as they are, whatever the earlier trials left.  (stat_test_rand_source)
PassMeansTests ==
    err = "ok" => /\ stat_test_monobit(data) /\ stat_test_poker(data) /\ stat_test_runs(data)
                  /\ \A p \in Blocks : Size(p) <= LongRun

\* stat.c:75, "runs[i] holds the number of runs of size (i-1)".
RunsHoldSizes ==
    \A g \in 0 .. (Groups - 2) :
        LET ofSize(p) == Size(p) = g - 1 IN acc.runs[g] = CountBlocks(TRUE, ofSize)
=============================================================================
