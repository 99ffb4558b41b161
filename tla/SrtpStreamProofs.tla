-------------------------- MODULE SrtpStreamProofs ---------------------------
(***************************************************************************)
(* Facts about the operators of SrtpStream, for every width of the         *)
(* sequence number, of the rollover counter and of the replay window and   *)
(* every key limit below the number of packet indices.  SrtpMediaProofs    *)
(* and SrtpReplayProofs rest on them.                                      *)
(***************************************************************************)
EXTENDS SrtpStream, TLAPS

-----------------------------------------------------------------------------
(* Division with remainder                                                 *)

\* What div and % return for a natural number.
LEMMA DivMod ==
    ASSUME NEW S \in Nat, S > 0, NEW a \in Nat
    PROVE  /\ a = (a \div S) * S + (a % S)
           /\ a % S \in 0 .. S - 1
           /\ a \div S \in Nat
OBVIOUS

\* Quotient and remainder are unique.
LEMMA DivModUnique ==
    ASSUME NEW S \in Nat, S > 0, NEW a \in Nat,
           NEW q \in Nat, NEW r \in 0 .. S - 1, a = q * S + r
    PROVE  q = a \div S /\ r = a % S
<1>1. /\ a = (a \div S) * S + (a % S)
      /\ a % S \in 0 .. S - 1
      /\ a \div S \in Nat
  BY DivMod
<1>2. CASE q < a \div S
  <2>1. PICK d \in Nat : a \div S = q + 1 + d
    BY <1>1, <1>2
  <2>2. (q + 1 + d) * S = q * S + S + d * S
    OBVIOUS
  <2>3. d * S >= 0
    OBVIOUS
  <2> QED BY <1>1, <2>1, <2>2, <2>3
<1>3. CASE q > a \div S
  <2>1. PICK d \in Nat : q = (a \div S) + 1 + d
    BY <1>1, <1>3
  <2>2. ((a \div S) + 1 + d) * S = (a \div S) * S + S + d * S
    BY <1>1
  <2>3. d * S >= 0
    OBVIOUS
  <2> QED BY <1>1, <2>1, <2>2, <2>3
<1>4. CASE q = a \div S
  BY <1>1, <1>4
<1> QED BY <1>1, <1>2, <1>3, <1>4

\* A number below the divisor is its own remainder.
LEMMA SmallMod ==
    ASSUME NEW S \in Nat, NEW a \in Nat, a < S
    PROVE  a \div S = 0 /\ a % S = a
<1>1. a = 0 * S + a
  OBVIOUS
<1> QED BY <1>1, DivModUnique

\* Counting up by one: either the remainder grows or it wraps to zero.
LEMMA SuccDivMod ==
    ASSUME NEW S \in Nat, S > 0, NEW a \in Nat
    PROVE  /\ a % S < S - 1 => /\ (a + 1) % S = (a % S) + 1
                               /\ (a + 1) \div S = a \div S
           /\ a % S = S - 1 => /\ (a + 1) % S = 0
                               /\ (a + 1) \div S = (a \div S) + 1
<1>1. /\ a = (a \div S) * S + (a % S)
      /\ a % S \in 0 .. S - 1
      /\ a \div S \in Nat
  BY DivMod
<1>2. ASSUME a % S < S - 1
      PROVE  (a + 1) % S = (a % S) + 1 /\ (a + 1) \div S = a \div S
  <2>1. a + 1 = (a \div S) * S + ((a % S) + 1) /\ (a % S) + 1 \in 0 .. S - 1
    BY <1>1, <1>2
  <2> QED BY <1>1, <2>1, DivModUnique
<1>3. ASSUME a % S = S - 1
      PROVE  (a + 1) % S = 0 /\ (a + 1) \div S = (a \div S) + 1
  <2>1. ((a \div S) + 1) * S = (a \div S) * S + S
    BY <1>1
  <2>2. a + 1 = ((a \div S) + 1) * S + 0
    BY <1>1, <1>3, <2>1
  <2> QED BY <1>1, <2>2, DivModUnique
<1> QED BY <1>2, <1>3

\* Equal remainders: the difference is a positive multiple of the divisor.
LEMMA SameMod ==
    ASSUME NEW S \in Nat, S > 0, NEW a \in Nat, NEW b \in Nat,
           a < b, a % S = b % S
    PROVE  /\ a \div S < b \div S
           /\ b - a = ((b \div S) - (a \div S)) * S
<1>1. /\ a = (a \div S) * S + (a % S) /\ a \div S \in Nat /\ a % S \in 0 .. S - 1
      /\ b = (b \div S) * S + (b % S) /\ b \div S \in Nat
  BY DivMod
<1>2. ((b \div S) - (a \div S)) * S = (b \div S) * S - (a \div S) * S
  BY <1>1
<1>3. ((b \div S) - (a \div S)) * S > 0
  BY <1>1, <1>2
<1>4. (b \div S) - (a \div S) > 0
  BY <1>1, <1>3
<1> QED BY <1>1, <1>2, <1>4

-----------------------------------------------------------------------------
(* The packet index                                                        *)

\* The 48-bit index the library uses for the packet with running number i.
IndexOf(i) == Index(i \div SeqMax, i % SeqMax)

\* The halves of the sequence number range.
LEMMA Median ==
    /\ seq_num_median \in Nat /\ seq_num_median >= 2
    /\ seq_num_median + seq_num_median = SeqMax
BY SeqMaxAssumption DEF seq_num_median

\* The index of the first packets is their number.
LEMMA IndexOfSmall ==
    ASSUME NEW i \in Seqs PROVE IndexOf(i) = i
<1>1. i \in Nat /\ i < SeqMax /\ SeqMax \in Nat /\ RocMax \in Nat /\ 0 < RocMax
  BY SeqMaxAssumption, RocMaxAssumption DEF Seqs
<1>2. i \div SeqMax = 0 /\ i % SeqMax = i
  BY <1>1, SmallMod
<1>3. 0 % RocMax = 0
  BY <1>1, SmallMod
<1> QED BY <1>1, <1>2, <1>3 DEF IndexOf, Index

\* After the packet with running number i the next one is estimated as i + 1,
\* at distance one.
LEMMA EstimateNext ==
    ASSUME NEW i \in Nat, NEW rdbx, rdbx.index = i
    PROVE  rdbx_estimate_index(rdbx, (i + 1) % SeqMax)
               = [guess |-> IndexOf(i + 1), delta |-> 1]
<1> DEFINE s == (i + 1) % SeqMax
           roc == i \div SeqMax
           seq == i % SeqMax
<1>1. SeqMax \in Nat /\ SeqMax >= 4
  BY SeqMaxAssumption
<1>2. roc \in Nat /\ seq \in 0 .. SeqMax - 1 /\ i = roc * SeqMax + seq
  BY <1>1, DivMod
<1>3. /\ seq < SeqMax - 1 => s = seq + 1 /\ (i + 1) \div SeqMax = roc
      /\ seq = SeqMax - 1 => s = 0 /\ (i + 1) \div SeqMax = roc + 1
  BY <1>1, SuccDivMod
<1>4. CASE i <= seq_num_median
  <2>1. i + 1 \in Seqs /\ i < SeqMax /\ i + 1 < SeqMax
    BY <1>1, <1>4, Median DEF Seqs
  <2>2. s = i + 1 /\ seq = i
    BY <1>1, <2>1, SmallMod
  <2>3. IndexOf(i + 1) = i + 1
    BY <2>1, IndexOfSmall
  <2>4. rdbx_estimate_index(rdbx, s) = [guess |-> s, delta |-> s - seq]
    BY <1>4, Median DEF rdbx_estimate_index
  <2> QED BY <2>2, <2>3, <2>4
<1>5. CASE i > seq_num_median
  <2>1. rdbx_estimate_index(rdbx, s) = index_guess(i, s)
    BY <1>5 DEF rdbx_estimate_index
  <2>2. CASE seq < SeqMax - 1
    <3>1. ~ (s - seq > seq_num_median) /\ ~ (seq - seq_num_median > s)
      BY <1>1, <1>2, <1>3, <2>2, Median
    <3>2. index_guess(i, s) = [guess |-> Index(roc, s), delta |-> s - seq]
      BY <3>1 DEF index_guess
    <3> QED BY <1>2, <1>3, <2>1, <2>2, <3>2 DEF IndexOf
  <2>3. CASE seq = SeqMax - 1
    <3>1. s = 0 /\ ~ (seq < seq_num_median) /\ seq >= seq_num_median
            /\ seq - seq_num_median > s
      BY <1>1, <1>3, <2>3, Median
    <3>2. index_guess(i, s) = [guess |-> Index(roc + 1, s), delta |-> SeqMax - seq + s]
      BY <3>1 DEF index_guess
    <3>3. SeqMax - seq + s = 1
      BY <1>1, <2>3, <3>1
    <3> QED BY <1>3, <2>1, <2>3, <3>2, <3>3 DEF IndexOf
  <2> QED BY <1>1, <1>2, <2>2, <2>3
<1> QED BY <1>4, <1>5, Median

\* Incrementing the 16-bit sequence number follows the running number.
LEMMA NextSeq ==
    ASSUME NEW i \in Nat
    PROVE  ((i % SeqMax) + 1) % SeqMax = (i + 1) % SeqMax
<1> DEFINE m == i % SeqMax
<1>1. SeqMax \in Nat /\ SeqMax > 0
  BY SeqMaxAssumption
<1>2. m \in 0 .. SeqMax - 1
  BY <1>1, DivMod
<1>3. /\ m < SeqMax - 1 => (i + 1) % SeqMax = m + 1
      /\ m = SeqMax - 1 => (i + 1) % SeqMax = 0
  BY <1>1, SuccDivMod
<1>4. m < SeqMax - 1 => (m + 1) % SeqMax = m + 1
  BY <1>1, <1>2, SmallMod
<1>5. SeqMax % SeqMax = 0
  <2>1. SeqMax = 1 * SeqMax + 0
    BY <1>1
  <2> QED BY <1>1, <2>1, DivModUnique
<1>6. m = SeqMax - 1 => (m + 1) % SeqMax = 0
  BY <1>1, <1>5
<1> QED BY <1>1, <1>2, <1>3, <1>4, <1>6

\* An empty database takes the sequence number of the first packet as it is.
LEMMA EstimateFirst ==
    ASSUME NEW s \in Seqs
    PROVE  /\ rdbx_estimate_index(rdbx_init, s) = [guess |-> IndexOf(s), delta |-> s]
           /\ rdbx_check(rdbx_init, s) = "ok"
<1>1. 0 % SeqMax = 0 /\ s \in Nat /\ s < SeqMax
  BY SeqMaxAssumption, SmallMod DEF Seqs
<1>2. rdbx_estimate_index(rdbx_init, s) = [guess |-> s, delta |-> s]
  BY <1>1, Median DEF rdbx_estimate_index, rdbx_init
<1>3. rdbx_check(rdbx_init, s) = "ok"
  BY <1>1, WindowSizeAssumption DEF rdbx_check, rdbx_init, rdbx_high_bit_in_bitmask
<1> QED BY <1>2, <1>3, IndexOfSmall

\* Running numbers closer than SeqMax * RocMax have different indices.
LEMMA IndexDistinct ==
    ASSUME NEW i \in Nat, NEW j \in Nat, i < j, j - i < SeqMax * RocMax
    PROVE  IndexOf(i) # IndexOf(j)
<1> SUFFICES ASSUME IndexOf(i) = IndexOf(j) PROVE FALSE
  OBVIOUS
<1> DEFINE a == i \div SeqMax
           b == j \div SeqMax
<1>1. SeqMax \in Nat /\ SeqMax > 0 /\ RocMax \in Nat /\ RocMax > 0
  BY SeqMaxAssumption, RocMaxAssumption
<1>2. a \in Nat /\ b \in Nat /\ i % SeqMax \in 0 .. SeqMax - 1 /\ j % SeqMax \in 0 .. SeqMax - 1
  BY <1>1, DivMod
<1>3. a % RocMax \in Nat /\ b % RocMax \in Nat
  BY <1>1, <1>2, DivMod
<1>4. (a % RocMax) * SeqMax + (i % SeqMax) = (b % RocMax) * SeqMax + (j % SeqMax)
  BY DEF IndexOf, Index
<1>5. a % RocMax = b % RocMax /\ i % SeqMax = j % SeqMax
  <2> DEFINE x == (a % RocMax) * SeqMax + (i % SeqMax)
  <2>1. x \in Nat
    BY <1>1, <1>2, <1>3
  <2>2. a % RocMax = x \div SeqMax /\ i % SeqMax = x % SeqMax
    BY <1>1, <1>2, <1>3, <2>1, DivModUnique
  <2>3. b % RocMax = x \div SeqMax /\ j % SeqMax = x % SeqMax
    BY <1>1, <1>2, <1>3, <1>4, <2>1, DivModUnique
  <2> QED BY <2>2, <2>3
<1>6. a < b /\ j - i = (b - a) * SeqMax
  BY <1>1, <1>5, SameMod
<1>7. /\ a \div RocMax < b \div RocMax
      /\ b - a = ((b \div RocMax) - (a \div RocMax)) * RocMax
  BY <1>1, <1>2, <1>5, <1>6, SameMod
<1>8. a \div RocMax \in Nat /\ b \div RocMax \in Nat
  BY <1>1, <1>2, DivMod
<1>9. b - a >= RocMax
  <2>1. PICK d \in Nat : (b \div RocMax) - (a \div RocMax) = 1 + d
    BY <1>7, <1>8
  <2>2. (1 + d) * RocMax = RocMax + d * RocMax /\ d * RocMax >= 0
    BY <1>1
  <2> QED BY <1>1, <1>7, <2>1, <2>2
<1>10. (b - a) * SeqMax >= SeqMax * RocMax
  <2>1. PICK d \in Nat : b - a = RocMax + d
    BY <1>1, <1>2, <1>9
  <2>2. (RocMax + d) * SeqMax = SeqMax * RocMax + d * SeqMax /\ d * SeqMax >= 0
    BY <1>1
  <2>3. SeqMax * RocMax \in Nat /\ d * SeqMax \in Nat
    BY <1>1
  <2> QED BY <2>1, <2>2, <2>3
<1> QED BY <1>1, <1>2, <1>6, <1>10

-----------------------------------------------------------------------------
(* The operations of the library                                           *)

\* Estimates are naturals, distances integers.
LEMMA EstimateType ==
    ASSUME NEW rdbx \in RdbxType, NEW s \in Seqs
    PROVE  /\ rdbx_estimate_index(rdbx, s).guess \in Nat
           /\ rdbx_estimate_index(rdbx, s).delta \in Int
<1>1. SeqMax \in Nat /\ SeqMax > 0 /\ RocMax \in Nat /\ RocMax > 0 /\ s \in Nat
  BY SeqMaxAssumption, RocMaxAssumption DEF Seqs
<1>2. rdbx.index \in Nat
  BY DEF RdbxType
<1>3. rdbx.index % SeqMax \in Nat /\ rdbx.index \div SeqMax \in Nat
  BY <1>1, <1>2, DivMod
<1>4. \A roc \in Int : roc % RocMax \in Nat
  BY <1>1
<1>5. \A roc \in Int : Index(roc, s) \in Nat
  BY <1>1, <1>4 DEF Index
<1>6. /\ index_guess(rdbx.index, s).guess \in Nat
      /\ index_guess(rdbx.index, s).delta \in Int
  BY <1>1, <1>3, <1>5 DEF index_guess
<1> QED BY <1>1, <1>3, <1>6 DEF rdbx_estimate_index

\* A distance that passed the check leaves a database.
LEMMA AddType ==
    ASSUME NEW rdbx \in RdbxType, NEW delta \in Int, rdbx_check(rdbx, delta) = "ok"
    PROVE  rdbx_add_index(rdbx, delta) \in RdbxType
<1>1. WindowSize \in Nat /\ WindowSize >= 1
  BY WindowSizeAssumption
<1>2. rdbx.index \in Nat /\ rdbx.bitmask \subseteq 0 .. WindowSize - 1
        /\ rdbx = [index |-> rdbx.index, bitmask |-> rdbx.bitmask]
  BY DEF RdbxType
<1>3. CASE delta > 0
  <2>1. v128_left_shift(rdbx.bitmask, delta) \subseteq 0 .. WindowSize - 1
    BY <1>1, <1>2, <1>3 DEF v128_left_shift
  <2> QED BY <1>1, <1>2, <1>3, <2>1
            DEF rdbx_add_index, rdbx_high_bit_in_bitmask, RdbxType
<1>4. CASE ~ (delta > 0)
  <2>1. -delta \in 0 .. WindowSize - 1
    BY <1>1, <1>4 DEF rdbx_check, rdbx_high_bit_in_bitmask
  <2> QED BY <1>2, <1>4, <2>1 DEF rdbx_add_index, RdbxType
<1> QED BY <1>3, <1>4

\* Every use of a key that is not used up counts down by one, and the last one
\* is refused.
LEMMA KeyUse ==
    ASSUME NEW limit \in LimitType
    PROVE  /\ key_limit_update(limit).limit \in LimitType
           /\ limit.num_left >= 1 =>
                  /\ key_limit_update(limit).limit.num_left = limit.num_left - 1
                  /\ key_limit_update(limit).event = "hard_limit" <=> limit.num_left = 1
<1>1. CountMax \in Nat /\ CountMax > 0 /\ SoftLimit \in Nat /\ SoftLimit >= 1
  BY KeyLimitAssumption
<1>2. limit.num_left \in 0 .. CountMax - 1
        /\ limit = [num_left |-> limit.num_left, state |-> limit.state]
        /\ limit.state \in {"normal", "past_soft_limit", "expired"}
  BY DEF LimitType
<1>3. (limit.num_left - 1) % CountMax \in 0 .. CountMax - 1
  BY <1>1, <1>2
<1>4. limit.num_left >= 1 => (limit.num_left - 1) % CountMax = limit.num_left - 1
  BY <1>1, <1>2, SmallMod
<1> DEFINE left == (limit.num_left - 1) % CountMax
<1>5. CASE left >= SoftLimit
  <2>1. key_limit_update(limit)
            = [event |-> "normal", limit |-> [limit EXCEPT !.num_left = left]]
    BY <1>1, <1>3, <1>5 DEF key_limit_update
  <2> QED BY <1>1, <1>2, <1>3, <1>4, <1>5, <2>1 DEF LimitType
<1>6. CASE left = 0
  <2>1. key_limit_update(limit)
            = [event |-> "hard_limit", limit |-> [num_left |-> left, state |-> "expired"]]
    BY <1>1, <1>3, <1>6 DEF key_limit_update
  <2> QED BY <1>1, <1>2, <1>3, <1>4, <1>6, <2>1 DEF LimitType
<1>7. CASE left < SoftLimit /\ left # 0
  <2>1. key_limit_update(limit)
            = [event |-> "soft_limit",
               limit |-> [num_left |-> left,
                          state |-> IF limit.state = "normal"
                                      THEN "past_soft_limit" ELSE limit.state]]
    BY <1>1, <1>3, <1>7 DEF key_limit_update
  <2> QED BY <1>1, <1>2, <1>3, <1>4, <1>7, <2>1 DEF LimitType
<1> QED BY <1>1, <1>3, <1>5, <1>6, <1>7

\* The estimate has the sequence number of the packet and is a packet index.
LEMMA EstimateSeq ==
    ASSUME NEW rdbx \in RdbxType, NEW s \in Seqs
    PROVE  /\ rdbx_estimate_index(rdbx, s).guess % SeqMax = s
           /\ rdbx_estimate_index(rdbx, s).guess < SeqMax * RocMax
<1>1. SeqMax \in Nat /\ SeqMax > 0 /\ RocMax \in Nat /\ RocMax > 0
        /\ s \in Nat /\ s < SeqMax /\ s \in 0 .. SeqMax - 1
  BY SeqMaxAssumption, RocMaxAssumption DEF Seqs
<1>2. \A roc \in Int : Index(roc, s) % SeqMax = s /\ Index(roc, s) < SeqMax * RocMax
  <2> TAKE roc \in Int
  <2> DEFINE c == roc % RocMax
             x == c * SeqMax + s
  <2>1. c \in Nat /\ c < RocMax
    BY <1>1
  <2> HIDE DEF c
  <2>2. x \in Nat
    BY <1>1, <2>1
  <2>3. x % SeqMax = s
    BY <1>1, <2>1, <2>2, DivModUnique
  <2>4. x < SeqMax * RocMax
    <3>1. PICK d \in Nat : RocMax = c + 1 + d
      BY <1>1, <2>1
    <3>2. SeqMax * (c + 1 + d) = c * SeqMax + SeqMax + d * SeqMax /\ d * SeqMax >= 0
      BY <1>1, <2>1
    <3>3. c * SeqMax \in Nat /\ d * SeqMax \in Nat
      BY <1>1, <2>1
    <3> QED BY <1>1, <2>1, <3>1, <3>2, <3>3
  <2>5. Index(roc, s) = x
    BY DEF Index, c
  <2> QED BY <2>3, <2>4, <2>5
<1>3. rdbx.index % SeqMax \in Nat /\ rdbx.index \div SeqMax \in Nat
  BY <1>1, DivMod DEF RdbxType
<1>4. /\ index_guess(rdbx.index, s).guess % SeqMax = s
      /\ index_guess(rdbx.index, s).guess < SeqMax * RocMax
  BY <1>2, <1>3 DEF index_guess
<1>5. s % SeqMax = s
  BY <1>1, SmallMod
<1>6. s < SeqMax * RocMax
  <2>1. PICK d \in Nat : RocMax = 1 + d
    BY <1>1
  <2>2. SeqMax * (1 + d) = SeqMax + d * SeqMax /\ d * SeqMax \in Nat
    BY <1>1
  <2> QED BY <1>1, <2>1, <2>2
<1> QED BY <1>4, <1>5, <1>6 DEF rdbx_estimate_index

\* A packet less than half the sequence numbers ahead of the index the database
\* holds is estimated as what it is, whether or not a wrap lies between.
LEMMA EstimateAhead ==
    ASSUME NEW i \in Nat, NEW j \in Nat, i < j, j - i < seq_num_median,
           j < SeqMax * RocMax, NEW rdbx, rdbx.index = i
    PROVE  rdbx_estimate_index(rdbx, j % SeqMax) = [guess |-> j, delta |-> j - i]
<1> DEFINE s == j % SeqMax
           seq == i % SeqMax
           roc == i \div SeqMax
           top == j \div SeqMax
<1>1. SeqMax \in Nat /\ SeqMax >= 4 /\ RocMax \in Nat /\ RocMax > 0
  BY SeqMaxAssumption, RocMaxAssumption
<1>2. /\ roc \in Nat /\ seq \in 0 .. SeqMax - 1 /\ i = roc * SeqMax + seq
      /\ top \in Nat /\ s \in 0 .. SeqMax - 1 /\ j = top * SeqMax + s
  BY <1>1, DivMod
<1>3. top < RocMax
  <2> SUFFICES ASSUME top >= RocMax PROVE FALSE
    BY <1>1, <1>2
  <2> HIDE DEF top, s
  <2>1. PICK d \in Nat : top = RocMax + d
    BY <1>1, <1>2
  <2>2. (RocMax + d) * SeqMax = SeqMax * RocMax + d * SeqMax
          /\ d * SeqMax \in Nat /\ SeqMax * RocMax \in Nat
    BY <1>1
  <2> QED BY <1>1, <1>2, <2>1, <2>2
<1>4. Index(top, s) = j
  <2>1. top % RocMax = top
    BY <1>1, <1>2, <1>3, SmallMod
  <2> QED BY <1>2, <2>1 DEF Index
<1>5. CASE i <= seq_num_median
  <2>1. j < SeqMax /\ i < SeqMax
    BY <1>1, <1>5, Median
  <2>2. s = j /\ seq = i
    BY <1>1, <2>1, SmallMod
  <2>3. rdbx_estimate_index(rdbx, s) = [guess |-> s, delta |-> s - seq]
    BY <1>5, Median DEF rdbx_estimate_index
  <2> QED BY <2>2, <2>3
<1>6. CASE i > seq_num_median
  <2>1. rdbx_estimate_index(rdbx, s) = index_guess(i, s)
    BY <1>6 DEF rdbx_estimate_index
  <2>2. CASE seq + (j - i) < SeqMax
    <3>1. seq + (j - i) \in 0 .. SeqMax - 1 /\ j = roc * SeqMax + (seq + (j - i))
      BY <1>1, <1>2, <2>2
    <3>2. top = roc /\ s = seq + (j - i)
      BY <1>1, <1>2, <3>1, DivModUnique
    <3>3. ~ (s - seq > seq_num_median) /\ ~ (seq - seq_num_median > s)
      <4> HIDE DEF s, seq
      <4> QED BY <1>1, <1>2, <3>2, Median
    <3>4. index_guess(i, s) = [guess |-> Index(roc, s), delta |-> s - seq]
      BY <3>3 DEF index_guess
    <3> QED BY <1>2, <1>4, <2>1, <3>2, <3>4
  <2>3. CASE ~ (seq + (j - i) < SeqMax)
    <3> DEFINE r == seq + (j - i) - SeqMax
    <3>1. r \in 0 .. SeqMax - 1 /\ j = (roc + 1) * SeqMax + r
      <4>1. (roc + 1) * SeqMax = roc * SeqMax + SeqMax
        BY <1>1, <1>2
      <4> QED BY <1>1, <1>2, <2>3, <4>1, Median
    <3>2. top = roc + 1 /\ s = r
      <4> HIDE DEF r
      <4> QED BY <1>1, <1>2, <3>1, DivModUnique
    <3>3. /\ ~ (seq < seq_num_median) /\ seq >= seq_num_median
          /\ seq - seq_num_median > s
      BY <1>1, <1>2, <2>3, <3>2, Median
    <3>4. index_guess(i, s) = [guess |-> Index(roc + 1, s), delta |-> SeqMax - seq + s]
      BY <3>3 DEF index_guess
    <3>5. SeqMax - seq + s = j - i
      BY <1>1, <1>2, <3>2
    <3> QED BY <1>4, <2>1, <3>2, <3>4, <3>5
  <2> QED BY <2>2, <2>3
<1> QED BY <1>5, <1>6, Median

\* The hard limit is met exactly by the last use of a key: a count that has
\* wrapped below zero is far from it.
LEMMA HardLimitOnce ==
    ASSUME NEW limit \in LimitType, limit.num_left # 1
    PROVE  key_limit_update(limit).event # "hard_limit"
<1>1. CountMax \in Nat /\ SoftLimit \in Nat /\ SoftLimit >= 1 /\ SoftLimit <= CountMax - 1
  BY KeyLimitAssumption
<1>2. limit.num_left \in 0 .. CountMax - 1
  BY DEF LimitType
<1>3. CASE limit.num_left >= 1
  BY <1>2, <1>3, KeyUse
<1>4. CASE limit.num_left = 0
  <2>1. (limit.num_left - 1) % CountMax = CountMax - 1
    BY <1>1, <1>4
  <2> QED BY <1>1, <2>1 DEF key_limit_update
<1> QED BY <1>1, <1>2, <1>3, <1>4

-----------------------------------------------------------------------------
(* Streams                                                                 *)

\* Fields a stream record has.
LEMMA StreamFields ==
    ASSUME NEW Ssrcs, NEW Keys, NEW st \in StreamType(Ssrcs, Keys)
    PROVE  /\ st.rdbx \in RdbxType /\ st.limit \in LimitType
           /\ st.ssrc \in Ssrcs /\ st.key \in Keys
           /\ st.direction \in {"unknown", "sender", "receiver"}
           /\ st = [ssrc |-> st.ssrc, key |-> st.key, rdbx |-> st.rdbx,
                    limit |-> st.limit, direction |-> st.direction]
BY DEF StreamType

\* The stream a new session starts with.
LEMMA InitType ==
    ASSUME NEW Ssrcs, NEW Keys, NEW ssrc \in Ssrcs, NEW key \in Keys
    PROVE  srtp_stream_init(ssrc, key) \in StreamType(Ssrcs, Keys)
<1>1. rdbx_init \in RdbxType
  BY DEF rdbx_init, RdbxType
<1>2. key_limit_set \in LimitType
  BY KeyLimitAssumption DEF key_limit_set, LimitType
<1> QED BY <1>1, <1>2 DEF srtp_stream_init, StreamType

\* srtp_protect leaves a stream with the same SSRC and key, and encrypts under
\* the index it has estimated.
LEMMA ProtectType ==
    ASSUME NEW Ssrcs, NEW Keys, NEW st \in StreamType(Ssrcs, Keys),
           NEW h, h.seq \in Seqs
    PROVE  LET r == srtp_protect(st, h) IN
             /\ r.stream \in StreamType(Ssrcs, Keys)
             /\ r.stream.ssrc = st.ssrc /\ r.stream.key = st.key
             /\ r.status = "ok" => r.index = rdbx_estimate_index(st.rdbx, h.seq).guess
<1> DEFINE est == rdbx_estimate_index(st.rdbx, h.seq)
           use == key_limit_update(st.limit)
           counted == [SetDirection(st, "sender") EXCEPT !.limit = use.limit]
           added == [counted EXCEPT !.rdbx = rdbx_add_index(@, est.delta)]
<1>1. est.delta \in Int /\ est.guess \in Nat
  BY StreamFields, EstimateType
<1>2. use.limit \in LimitType
  BY StreamFields, KeyUse
<1>3. /\ counted \in StreamType(Ssrcs, Keys)
      /\ counted.ssrc = st.ssrc /\ counted.key = st.key /\ counted.rdbx = st.rdbx
  BY <1>2, StreamFields DEF SetDirection, StreamType
<1>4. ASSUME rdbx_check(st.rdbx, est.delta) = "ok"
      PROVE  added \in StreamType(Ssrcs, Keys)
               /\ added.ssrc = st.ssrc /\ added.key = st.key
  <2>1. rdbx_add_index(st.rdbx, est.delta) \in RdbxType
    BY <1>1, <1>4, StreamFields, AddType
  <2> HIDE DEF counted, est
  <2> QED BY <1>3, <2>1 DEF StreamType
<1>5. est = rdbx_estimate_index(st.rdbx, h.seq)
  OBVIOUS
<1>6. rdbx_check(st.rdbx, est.delta) \in {"ok", "replay_old", "replay_fail"}
  BY DEF rdbx_check
<1> HIDE DEF est, use, counted, added
<1>7. srtp_protect(st, h) =
        IF h.ssrc # st.ssrc THEN Failed("no_ctx", st)
        ELSE IF use.event = "hard_limit" THEN Failed("key_expired", counted)
        ELSE IF rdbx_check(st.rdbx, est.delta) # "ok"
          THEN Failed(rdbx_check(st.rdbx, est.delta), counted)
        ELSE Done(added, est.guess)
  BY DEF srtp_protect, est, use, counted, added
<1> QED BY <1>3, <1>4, <1>5, <1>6, <1>7 DEF Failed, Done

\* srtp_unprotect leaves a stream with the same SSRC and key, and accepts only
\* packets that carry them and whose rollover counter is the estimated one.
LEMMA UnprotectType ==
    ASSUME NEW Ssrcs, NEW Keys, NEW st \in StreamType(Ssrcs, Keys),
           NEW p, p.seq \in Seqs
    PROVE  LET r == srtp_unprotect(st, p)
               guess == rdbx_estimate_index(st.rdbx, p.seq).guess
           IN  /\ r.stream \in StreamType(Ssrcs, Keys)
               /\ r.stream.ssrc = st.ssrc /\ r.stream.key = st.key
               /\ r.status \in {"ok", "no_ctx", "replay_old", "replay_fail",
                                "auth_fail", "key_expired"}
               /\ r.status = "ok" => /\ p.ssrc = st.ssrc /\ p.key = st.key
                                     /\ p.index \div SeqMax = guess \div SeqMax
                                     /\ r.index = guess
<1> DEFINE est == rdbx_estimate_index(st.rdbx, p.seq)
           use == key_limit_update(st.limit)
           counted == [st EXCEPT !.limit = use.limit]
           added == [SetDirection(counted, "receiver")
                        EXCEPT !.rdbx = rdbx_add_index(@, est.delta)]
<1>1. est.delta \in Int /\ est.guess \in Nat
  BY StreamFields, EstimateType
<1>2. use.limit \in LimitType
  BY StreamFields, KeyUse
<1>3. /\ counted \in StreamType(Ssrcs, Keys)
      /\ counted.ssrc = st.ssrc /\ counted.key = st.key /\ counted.rdbx = st.rdbx
  BY <1>2, StreamFields DEF StreamType
<1>4. ASSUME rdbx_check(st.rdbx, est.delta) = "ok"
      PROVE  added \in StreamType(Ssrcs, Keys)
               /\ added.ssrc = st.ssrc /\ added.key = st.key
  <2>1. rdbx_add_index(st.rdbx, est.delta) \in RdbxType
    BY <1>1, <1>4, StreamFields, AddType
  <2> HIDE DEF counted, est
  <2> QED BY <1>3, <2>1 DEF SetDirection, StreamType
<1>5. est = rdbx_estimate_index(st.rdbx, p.seq)
  OBVIOUS
<1>6. rdbx_check(st.rdbx, est.delta) \in {"ok", "replay_old", "replay_fail"}
  BY DEF rdbx_check
<1> HIDE DEF est, use, counted, added
<1>7. srtp_unprotect(st, p) =
        IF p.ssrc # st.ssrc THEN Failed("no_ctx", st)
        ELSE IF rdbx_check(st.rdbx, est.delta) # "ok"
          THEN Failed(rdbx_check(st.rdbx, est.delta), st)
        ELSE IF ~ TagMatches(st, p, est.guess) THEN Failed("auth_fail", st)
        ELSE IF use.event = "hard_limit" THEN Failed("key_expired", counted)
        ELSE Done(added, est.guess)
  BY DEF srtp_unprotect, est, use, counted, added
<1> QED BY <1>3, <1>4, <1>5, <1>6, <1>7 DEF Failed, Done, TagMatches
=============================================================================
