------------------------------ MODULE Codebook ------------------------------
(***************************************************************************)
(* The parameters of a speech frame and the codebooks of the line spectrum *)
(* pairs (quantise.h, defines.h, codebook.c).  LSPs are in half Hz,        *)
(* energies in 1/32 dB, and Wo in units of which the range of the          *)
(* quantiser, Wo_max - Wo_min = 7 * Wo_min, has 7 * 1280.                  *)
(***************************************************************************)
EXTENDS Integers

LPC_ORD == 10
WO_BITS == 7
WO_LEVELS == 128         \* 1 << WO_BITS
E_BITS == 5
E_LEVELS == 2 ^ E_BITS

P_MIN == 20
P_MAX == 160
Wo_min == 1280
Wo_max == (P_MAX \div P_MIN) * Wo_min
E_MIN_DB == 0 - 320
E_MAX_DB == 1280
Hz(f) == 2 * f

-----------------------------------------------------------------------------
(* codebook.c: every codebook is an arithmetic progression                 *)

Progression(first, step, m) == [j \in 0 .. (m - 1) |-> Hz(first + j * step)]
lsp_cb == [i \in 0 .. (LPC_ORD - 1) |->
    CASE i = 0 -> Progression(225, 25, 16)
      [] i = 1 -> Progression(325, 25, 16)
      [] i = 2 -> Progression(500, 50, 16)
      [] i = 3 -> Progression(700, 100, 16)
      [] i = 4 -> Progression(950, 100, 16)
      [] i = 5 -> Progression(1100, 100, 16)
      [] i = 6 -> Progression(1500, 100, 16)
      [] i = 7 -> Progression(2300, 100, 8)
      [] i = 8 -> Progression(2500, 100, 8)
      [] i = 9 -> Progression(2900, 200, 4)]
log2m(i) == CASE i <= 6 -> 4 [] i \in {7, 8} -> 3 [] i = 9 -> 2

lsp_bits(i) == log2m(i)
=============================================================================
