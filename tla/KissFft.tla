------------------------------- MODULE KissFft -------------------------------
(***************************************************************************)
(* The Fourier transform of the codec (fft.c, kiss_fft.c).  The complex    *)
(* numbers are those over the integers modulo a prime Modulus with         *)
(* Modulus % 4 = 3: -1 has no square root there, so r + i*sqrt(-1) is a    *)
(* field, conjugation inverts the roots of unity, and what the algorithm   *)
(* computes is exact.  A transform of size n needs n | Modulus + 1.        *)
(***************************************************************************)
EXTENDS Integers, Sequences, SequencesExt, FiniteSetsExt

CONSTANTS Modulus,
          Root,     \* a point of the circle from which its roots of unity come
          Sizes     \* the sizes of transforms

SizesAssumption == /\ Modulus % 4 = 3
                   /\ \A n \in Sizes : (Modulus + 1) % n = 0

VARIABLES nfft,     \* the size of the plans
          x,        \* the array that is transformed in place
          x0,       \* history: its value before the first call
          calls     \* history: the signs of the calls so far

vars == <<nfft, x, x0, calls>>

-----------------------------------------------------------------------------
(* Complex arithmetic (_kiss_fft_guts.h)                                   *)

Z == 0 .. (Modulus - 1)
Cpx(r, i) == [r |-> r % Modulus, i |-> i % Modulus]
C_ADD(a, b) == Cpx(a.r + b.r, a.i + b.i)
C_SUB(a, b) == Cpx(a.r - b.r, a.i - b.i)
C_MUL(a, b) == Cpx(a.r * b.r - a.i * b.i, a.r * b.i + a.i * b.r)
C_MULBYSCALAR(c, s) == Cpx(c.r * s, c.i * s)
HALF_OF(v) == v * ((Modulus + 1) \div 2)
Conj(a) == Cpx(a.r, 0 - a.i)
Zero == Cpx(0, 0)
One == Cpx(1, 0)
Sum(f, S) == FoldSet(LAMBDA k, s : C_ADD(f[k], s), Zero, S)

RECURSIVE Power(_, _)
Power(z, k) ==
    IF k = 0 THEN One
    ELSE LET h == Power(z, k \div 2)
             hh == C_MUL(h, h)
         IN IF k % 2 = 0 THEN hh ELSE C_MUL(hh, z)

\* exp(-2*pi*sqrt(-1)/n): a root of unity of order n; all of them come from one
\* whose order is the size of the circle, a quarter of a turn being -sqrt(-1).
Order(z, n) == /\ Power(z, n) = One
               /\ \A d \in 1 .. (n - 1) : n % d = 0 => Power(z, d) # One
RootAssumption == /\ (Root.r * Root.r + Root.i * Root.i) % Modulus = 1
                  /\ Power(Root, (Modulus + 1) \div 4) = Cpx(0, 0 - 1)
                  /\ Order(Root, Modulus + 1)
kf_cexp(n) == Power(Root, (Modulus + 1) \div n)

-----------------------------------------------------------------------------
(* The plan                                                                *)

floor_sqrt(n) == CHOOSE s \in 0 .. n : s * s <= n /\ n < (s + 1) * (s + 1)

\* The next radix to try after p.
next_p(p, n, root) ==
    LET q == CASE p = 4 -> 2 [] p = 2 -> 3 [] OTHER -> p + 2
    IN IF q > root THEN n ELSE q

\* The factors <<p, m>> of what is left, n, from radix p on.
RECURSIVE factors_from(_, _, _)
factors_from(n, p, root) ==
    IF n % p # 0 THEN factors_from(n, next_p(p, n, root), root)
    ELSE LET m == n \div p
         IN << <<p, m>> >> \o (IF m > 1 THEN factors_from(m, p, root) ELSE << >>)

kf_factor(n) == factors_from(n, 4, floor_sqrt(n))

\* kiss_fft_alloc: the twiddle factors of the two plans of fft.c.
kiss_fft_alloc(n, inverse) ==
    LET w == IF inverse THEN Conj(kf_cexp(n)) ELSE kf_cexp(n)
    IN [nfft |-> n, inverse |-> inverse, factors |-> kf_factor(n),
        twiddles |-> [i \in 0 .. (n - 1) |-> Power(w, i)]]

-----------------------------------------------------------------------------
(* The butterflies: F is one stage's p transforms of size m, side by side  *)

\* The inputs of butterfly u, turned by the twiddle factors.
Turned(F, fstride, st, m, u, q) == C_MUL(F[u + q * m], st.twiddles[q * u * fstride])

kf_bfly2(F, fstride, st, m) ==
    [k \in DOMAIN F |->
        LET u == k % m
            t == Turned(F, fstride, st, m, u, 1)
        IN IF k < m THEN C_ADD(F[u], t) ELSE C_SUB(F[u], t)]

\* kf_bfly4 that ignores the direction: legs 1 and 3 swapped in the inverse plan
kf_bfly4_swapped(F, fstride, st, m) ==
    [k \in DOMAIN F |->
        Sum([q \in 0 .. 3 |->
                C_MUL(Turned(F, fstride, st, m, k % m, q),
                      Power(Cpx(0, 0 - 1), q * (k \div m)))], 0 .. 3)]

kf_bfly4(F, fstride, st, m) ==
    [k \in DOMAIN F |->
        LET u == k % m
            s(q) == Turned(F, fstride, st, m, u, q + 1)
            s3 == C_ADD(s(0), s(2))
            s4 == C_SUB(s(0), s(2))
            s5 == C_SUB(F[u], s(1))
            left == Cpx(s5.r - s4.i, s5.i + s4.r)
            right == Cpx(s5.r + s4.i, s5.i - s4.r)
        IN CASE k \div m = 0 -> C_ADD(C_ADD(F[u], s(1)), s3)
             [] k \div m = 1 -> IF st.inverse THEN left ELSE right
             [] k \div m = 2 -> C_SUB(C_ADD(F[u], s(1)), s3)
             [] k \div m = 3 -> IF st.inverse THEN right ELSE left]

kf_bfly3(F, fstride, st, m) ==
    [k \in DOMAIN F |->
        LET u == k % m
            epi3 == st.twiddles[fstride * m]
            s1 == Turned(F, fstride, st, m, u, 1)
            s2 == Turned(F, fstride, st, m, u, 2)
            s3 == C_ADD(s1, s2)
            s0 == C_MULBYSCALAR(C_SUB(s1, s2), epi3.i)
            mid == Cpx(F[u].r - HALF_OF(s3.r), F[u].i - HALF_OF(s3.i))
        IN CASE k \div m = 0 -> C_ADD(F[u], s3)
             [] k \div m = 1 -> Cpx(mid.r - s0.i, mid.i + s0.r)
             [] k \div m = 2 -> Cpx(mid.r + s0.i, mid.i - s0.r)]

kf_bfly5(F, fstride, st, m) ==
    [k \in DOMAIN F |->
        LET u == k % m
            ya == st.twiddles[fstride * m]
            yb == st.twiddles[fstride * 2 * m]
            s(q) == Turned(F, fstride, st, m, u, q)
            s7 == C_ADD(s(1), s(4))
            s10 == C_SUB(s(1), s(4))
            s8 == C_ADD(s(2), s(3))
            s9 == C_SUB(s(2), s(3))
            real(a, b) == C_ADD(F[u], C_ADD(C_MULBYSCALAR(s7, a), C_MULBYSCALAR(s8, b)))
            s6 == Cpx(s10.i * ya.i + s9.i * yb.i, 0 - s10.r * ya.i - s9.r * yb.i)
            s12 == Cpx(s9.i * ya.i - s10.i * yb.i, s10.r * yb.i - s9.r * ya.i)
        IN CASE k \div m = 0 -> C_ADD(F[u], C_ADD(s7, s8))
             [] k \div m = 1 -> C_SUB(real(ya.r, yb.r), s6)
             [] k \div m = 2 -> C_ADD(real(yb.r, ya.r), s12)
             [] k \div m = 3 -> C_SUB(real(yb.r, ya.r), s12)
             [] k \div m = 4 -> C_ADD(real(ya.r, yb.r), s6)]

\* Any other radix: the sum, with the index of the twiddle factor modulo nfft.
kf_bfly_generic(F, fstride, st, m, p) ==
    [k \in DOMAIN F |->
        Sum([q \in 0 .. (p - 1) |->
                C_MUL(F[(k % m) + q * m], st.twiddles[(q * fstride * k) % st.nfft])],
            0 .. (p - 1))]

butterfly(F, fstride, st, m, p) ==
    CASE p = 2 -> kf_bfly2(F, fstride, st, m)
      [] p = 3 -> kf_bfly3(F, fstride, st, m)
      [] p = 4 -> kf_bfly4(F, fstride, st, m)
      [] p = 5 -> kf_bfly5(F, fstride, st, m)
      [] OTHER -> kf_bfly_generic(F, fstride, st, m, p)

\* The transform of the elements from, from + fstride, ... of f.
RECURSIVE kf_work(_, _, _, _, _)
kf_work(f, from, fstride, factors, st) ==
    LET p == Head(factors)[1]
        m == Head(factors)[2]
        part == [q \in 0 .. (p - 1) |->
                    IF m = 1 THEN [j \in {0} |-> f[from + q * fstride]]
                    ELSE kf_work(f, from + q * fstride, fstride * p, Tail(factors), st)]
    IN butterfly([j \in 0 .. (p * m - 1) |-> part[j \div m][j % m]], fstride, st, m, p)

-----------------------------------------------------------------------------
(* fft.c                                                                   *)

\* The plan for isign = -1 is the inverse one; input and output are conjugated.
fft(v, isign) ==
    LET fin == [j \in DOMAIN v |-> Conj(v[j])]
        cfg == kiss_fft_alloc(nfft, isign = 0 - 1)
        fout == kf_work(fin, 0, 1, cfg.factors, cfg)
    IN [j \in DOMAIN v |-> Conj(fout[j])]

\* Inputs: by linearity one impulse at each place, of each of two independent
\* values, and one array without a pattern.
Impulse(n, k, v) == [j \in 0 .. (n - 1) |-> IF j = k THEN v ELSE Zero]
Dense(n) == [j \in 0 .. (n - 1) |-> Cpx(j * j + 3, 5 * j + 1)]
Inputs(n) == {Impulse(n, k, v) : k \in 0 .. (n - 1), v \in {One, Cpx(0, 1)}}
                 \cup {Dense(n)}

Init == /\ nfft \in Sizes
        /\ x \in Inputs(nfft) /\ x0 = x
        /\ calls = << >>

Call(isign) == /\ Len(calls) < 2
               /\ x' = fft(x, isign)
               /\ calls' = Append(calls, isign)
               /\ UNCHANGED <<nfft, x0>>

Next == \E isign \in {1, 0 - 1} : Call(isign)

Spec == Init /\ [][Next]_vars

-----------------------------------------------------------------------------
\* Types of the variables.
TypeOK == /\ nfft \in Sizes
          /\ x \in [0 .. (nfft - 1) -> [r : Z, i : Z]] /\ x0 \in [0 .. (nfft - 1) -> [r : Z, i : Z]]
          /\ calls \in BoundedSeq({1, 0 - 1}, 2)

\* fft.c:67, "calls kiss_fft with the signature of four1 from NRC": one call gives the
\* sums of x0[j] * exp(isign*2*pi*sqrt(-1)*j*k/n), whatever the radices of the size are.
IsFourierSum ==
    Len(calls) = 1 =>
        LET w == IF calls[1] = 1 THEN Conj(kf_cexp(nfft)) ELSE kf_cexp(nfft)
            root == [i \in 0 .. (nfft - 1) |-> Power(w, i)]
        IN \A k \in DOMAIN x :
            x[k] = Sum([j \in DOMAIN x0 |-> C_MUL(x0[j], root[(j * k) % nfft])], DOMAIN x0)

\* A call of each sign gives the array back, times its size; two calls of one sign
\* give it back in the opposite direction.  (synthesise after aks_to_M2's transform
\* relies on both signs being one another's inverse)
TwoCallsReturn ==
    Len(calls) = 2 =>
        \A j \in DOMAIN x :
            x[j] = C_MULBYSCALAR(x0[IF calls[1] # calls[2] THEN j ELSE (nfft - j) % nfft], nfft)

Prime(p) == p > 1 /\ \A d \in 2 .. (p - 1) : p % d # 0

\* kiss_fft.c:304 and 315, "p[i] * m[i] = m[i-1]" and "factor out powers of 4, powers
\* of 2, then any remaining primes": the stages of a plan multiply up to its size, each
\* radix but 4 is prime, and no radix comes after a larger one but 4.  (kf_factor)
FactorsOfSize ==
    LET f == kf_factor(nfft)
    IN /\ f[1][1] * f[1][2] = nfft /\ f[Len(f)][2] = 1
       /\ \A s \in 2 .. Len(f) : f[s][1] * f[s][2] = f[s - 1][2]
       /\ \A s \in DOMAIN f : f[s][1] = 4 \/ Prime(f[s][1])
       /\ \A s \in 2 .. Len(f) : f[s - 1][1] = 4 \/ f[s - 1][1] <= f[s][1]
=============================================================================
