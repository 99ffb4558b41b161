------------------------------ MODULE AesTables ------------------------------
(***************************************************************************)
(* The tables of aes.c, written out as they are there: the substitution    *)
(* boxes, and the tables of words T0..T3 and U0..U3, of which aes.c has    *)
(* one set for little-endian and one for big-endian processors, T4 and U4. *)
(* A word 0xc66363a5 is written as its halves, \hc663 and \h63a5.          *)
(***************************************************************************)
EXTENDS Octets, Sequences

aes_sbox == <<
     99, 124, 119, 123, 242, 107, 111, 197,  48,   1, 103,  43, 254, 215, 171, 118,
    202, 130, 201, 125, 250,  89,  71, 240, 173, 212, 162, 175, 156, 164, 114, 192,
    183, 253, 147,  38,  54,  63, 247, 204,  52, 165, 229, 241, 113, 216,  49,  21,
      4, 199,  35, 195,  24, 150,   5, 154,   7,  18, 128, 226, 235,  39, 178, 117,
      9, 131,  44,  26,  27, 110,  90, 160,  82,  59, 214, 179,  41, 227,  47, 132,
     83, 209,   0, 237,  32, 252, 177,  91, 106, 203, 190,  57,  74,  76,  88, 207,
    208, 239, 170, 251,  67,  77,  51, 133,  69, 249,   2, 127,  80,  60, 159, 168,
     81, 163,  64, 143, 146, 157,  56, 245, 188, 182, 218,  33,  16, 255, 243, 210,
    205,  12,  19, 236,  95, 151,  68,  23, 196, 167, 126,  61, 100,  93,  25, 115,
     96, 129,  79, 220,  34,  42, 144, 136,  70, 238, 184,  20, 222,  94,  11, 219,
    224,  50,  58,  10,  73,   6,  36,  92, 194, 211, 172,  98, 145, 149, 228, 121,
    231, 200,  55, 109, 141, 213,  78, 169, 108,  86, 244, 234, 101, 122, 174,   8,
    186, 120,  37,  46,  28, 166, 180, 198, 232, 221, 116,  31,  75, 189, 139, 138,
    112,  62, 181, 102,  72,   3, 246,  14,  97,  53,  87, 185, 134, 193,  29, 158,
    225, 248, 152,  17, 105, 217, 142, 148, 155,  30, 135, 233, 206,  85,  40, 223,
    140, 161, 137,  13, 191, 230,  66, 104,  65, 153,  45,  15, 176,  84, 187,  22 >>

aes_inv_sbox == <<
     82,   9, 106, 213,  48,  54, 165,  56, 191,  64, 163, 158, 129, 243, 215, 251,
    124, 227,  57, 130, 155,  47, 255, 135,  52, 142,  67,  68, 196, 222, 233, 203,
     84, 123, 148,  50, 166, 194,  35,  61, 238,  76, 149,  11,  66, 250, 195,  78,
      8,  46, 161, 102,  40, 217,  36, 178, 118,  91, 162,  73, 109, 139, 209,  37,
    114, 248, 246, 100, 134, 104, 152,  22, 212, 164,  92, 204,  93, 101, 182, 146,
    108, 112,  72,  80, 253, 237, 185, 218,  94,  21,  70,  87, 167, 141, 157, 132,
    144, 216, 171,   0, 140, 188, 211,  10, 247, 228,  88,   5, 184, 179,  69,   6,
    208,  44,  30, 143, 202,  63,  15,   2, 193, 175, 189,   3,   1,  19, 138, 107,
     58, 145,  17,  65,  79, 103, 220, 234, 151, 242, 207, 206, 240, 180, 230, 115,
    150, 172, 116,  34, 231, 173,  53, 133, 226, 249,  55, 232,  28, 117, 223, 110,
     71, 241,  26, 113,  29,  41, 197, 137, 111, 183,  98,  14, 170,  24, 190,  27,
    252,  86,  62,  75, 198, 210, 121,  32, 154, 219, 192, 254, 120, 205,  90, 244,
     31, 221, 168,  51, 136,   7, 199,  49, 177,  18,  16,  89,  39, 128, 236,  95,
     96,  81, 127, 169,  25, 181,  74,  13,  45, 229, 122, 159, 147, 201, 156, 239,
    160, 224,  59,  77, 174,  42, 245, 176, 200, 235, 187,  60, 131,  83, 153,  97,
     23,  43,   4, 126, 186, 119, 214,  38, 225, 105,  20,  99,  85,  33,  12, 125 >>

\* The C arrays are indexed from 0.
Sbox(x) == aes_sbox[x + 1]
InvSbox(x) == aes_inv_sbox[x + 1]

\* Word i of a table: the tuple of its octets, the most significant one first.
Word(table, i) == LET hi == table[2 * i + 1]  lo == table[2 * i + 2]
                  IN  << hi \div 256, hi % 256, lo \div 256, lo % 256 >>

-----------------------------------------------------------------------------
(* Little endian.                                                          *)
T0_le == <<
    \ha563,\h63c6,\h847c,\h7cf8,\h9977,\h77ee,\h8d7b,\h7bf6,\h0df2,\hf2ff,\hbd6b,\h6bd6,\hb16f,\h6fde,\h54c5,\hc591,
    \h5030,\h3060,\h0301,\h0102,\ha967,\h67ce,\h7d2b,\h2b56,\h19fe,\hfee7,\h62d7,\hd7b5,\he6ab,\hab4d,\h9a76,\h76ec,
    \h45ca,\hca8f,\h9d82,\h821f,\h40c9,\hc989,\h877d,\h7dfa,\h15fa,\hfaef,\heb59,\h59b2,\hc947,\h478e,\h0bf0,\hf0fb,
    \hecad,\had41,\h67d4,\hd4b3,\hfda2,\ha25f,\heaaf,\haf45,\hbf9c,\h9c23,\hf7a4,\ha453,\h9672,\h72e4,\h5bc0,\hc09b,
    \hc2b7,\hb775,\h1cfd,\hfde1,\hae93,\h933d,\h6a26,\h264c,\h5a36,\h366c,\h413f,\h3f7e,\h02f7,\hf7f5,\h4fcc,\hcc83,
    \h5c34,\h3468,\hf4a5,\ha551,\h34e5,\he5d1,\h08f1,\hf1f9,\h9371,\h71e2,\h73d8,\hd8ab,\h5331,\h3162,\h3f15,\h152a,
    \h0c04,\h0408,\h52c7,\hc795,\h6523,\h2346,\h5ec3,\hc39d,\h2818,\h1830,\ha196,\h9637,\h0f05,\h050a,\hb59a,\h9a2f,
    \h0907,\h070e,\h3612,\h1224,\h9b80,\h801b,\h3de2,\he2df,\h26eb,\hebcd,\h6927,\h274e,\hcdb2,\hb27f,\h9f75,\h75ea,
    \h1b09,\h0912,\h9e83,\h831d,\h742c,\h2c58,\h2e1a,\h1a34,\h2d1b,\h1b36,\hb26e,\h6edc,\hee5a,\h5ab4,\hfba0,\ha05b,
    \hf652,\h52a4,\h4d3b,\h3b76,\h61d6,\hd6b7,\hceb3,\hb37d,\h7b29,\h2952,\h3ee3,\he3dd,\h712f,\h2f5e,\h9784,\h8413,
    \hf553,\h53a6,\h68d1,\hd1b9,\h0000,\h0000,\h2ced,\hedc1,\h6020,\h2040,\h1ffc,\hfce3,\hc8b1,\hb179,\hed5b,\h5bb6,
    \hbe6a,\h6ad4,\h46cb,\hcb8d,\hd9be,\hbe67,\h4b39,\h3972,\hde4a,\h4a94,\hd44c,\h4c98,\he858,\h58b0,\h4acf,\hcf85,
    \h6bd0,\hd0bb,\h2aef,\hefc5,\he5aa,\haa4f,\h16fb,\hfbed,\hc543,\h4386,\hd74d,\h4d9a,\h5533,\h3366,\h9485,\h8511,
    \hcf45,\h458a,\h10f9,\hf9e9,\h0602,\h0204,\h817f,\h7ffe,\hf050,\h50a0,\h443c,\h3c78,\hba9f,\h9f25,\he3a8,\ha84b,
    \hf351,\h51a2,\hfea3,\ha35d,\hc040,\h4080,\h8a8f,\h8f05,\had92,\h923f,\hbc9d,\h9d21,\h4838,\h3870,\h04f5,\hf5f1,
    \hdfbc,\hbc63,\hc1b6,\hb677,\h75da,\hdaaf,\h6321,\h2142,\h3010,\h1020,\h1aff,\hffe5,\h0ef3,\hf3fd,\h6dd2,\hd2bf,
    \h4ccd,\hcd81,\h140c,\h0c18,\h3513,\h1326,\h2fec,\hecc3,\he15f,\h5fbe,\ha297,\h9735,\hcc44,\h4488,\h3917,\h172e,
    \h57c4,\hc493,\hf2a7,\ha755,\h827e,\h7efc,\h473d,\h3d7a,\hac64,\h64c8,\he75d,\h5dba,\h2b19,\h1932,\h9573,\h73e6,
    \ha060,\h60c0,\h9881,\h8119,\hd14f,\h4f9e,\h7fdc,\hdca3,\h6622,\h2244,\h7e2a,\h2a54,\hab90,\h903b,\h8388,\h880b,
    \hca46,\h468c,\h29ee,\heec7,\hd3b8,\hb86b,\h3c14,\h1428,\h79de,\hdea7,\he25e,\h5ebc,\h1d0b,\h0b16,\h76db,\hdbad,
    \h3be0,\he0db,\h5632,\h3264,\h4e3a,\h3a74,\h1e0a,\h0a14,\hdb49,\h4992,\h0a06,\h060c,\h6c24,\h2448,\he45c,\h5cb8,
    \h5dc2,\hc29f,\h6ed3,\hd3bd,\hefac,\hac43,\ha662,\h62c4,\ha891,\h9139,\ha495,\h9531,\h37e4,\he4d3,\h8b79,\h79f2,
    \h32e7,\he7d5,\h43c8,\hc88b,\h5937,\h376e,\hb76d,\h6dda,\h8c8d,\h8d01,\h64d5,\hd5b1,\hd24e,\h4e9c,\he0a9,\ha949,
    \hb46c,\h6cd8,\hfa56,\h56ac,\h07f4,\hf4f3,\h25ea,\heacf,\haf65,\h65ca,\h8e7a,\h7af4,\he9ae,\hae47,\h1808,\h0810,
    \hd5ba,\hba6f,\h8878,\h78f0,\h6f25,\h254a,\h722e,\h2e5c,\h241c,\h1c38,\hf1a6,\ha657,\hc7b4,\hb473,\h51c6,\hc697,
    \h23e8,\he8cb,\h7cdd,\hdda1,\h9c74,\h74e8,\h211f,\h1f3e,\hdd4b,\h4b96,\hdcbd,\hbd61,\h868b,\h8b0d,\h858a,\h8a0f,
    \h9070,\h70e0,\h423e,\h3e7c,\hc4b5,\hb571,\haa66,\h66cc,\hd848,\h4890,\h0503,\h0306,\h01f6,\hf6f7,\h120e,\h0e1c,
    \ha361,\h61c2,\h5f35,\h356a,\hf957,\h57ae,\hd0b9,\hb969,\h9186,\h8617,\h58c1,\hc199,\h271d,\h1d3a,\hb99e,\h9e27,
    \h38e1,\he1d9,\h13f8,\hf8eb,\hb398,\h982b,\h3311,\h1122,\hbb69,\h69d2,\h70d9,\hd9a9,\h898e,\h8e07,\ha794,\h9433,
    \hb69b,\h9b2d,\h221e,\h1e3c,\h9287,\h8715,\h20e9,\he9c9,\h49ce,\hce87,\hff55,\h55aa,\h7828,\h2850,\h7adf,\hdfa5,
    \h8f8c,\h8c03,\hf8a1,\ha159,\h8089,\h8909,\h170d,\h0d1a,\hdabf,\hbf65,\h31e6,\he6d7,\hc642,\h4284,\hb868,\h68d0,
    \hc341,\h4182,\hb099,\h9929,\h772d,\h2d5a,\h110f,\h0f1e,\hcbb0,\hb07b,\hfc54,\h54a8,\hd6bb,\hbb6d,\h3a16,\h162c >>

T1_le == <<
    \h6363,\hc6a5,\h7c7c,\hf884,\h7777,\hee99,\h7b7b,\hf68d,\hf2f2,\hff0d,\h6b6b,\hd6bd,\h6f6f,\hdeb1,\hc5c5,\h9154,
    \h3030,\h6050,\h0101,\h0203,\h6767,\hcea9,\h2b2b,\h567d,\hfefe,\he719,\hd7d7,\hb562,\habab,\h4de6,\h7676,\hec9a,
    \hcaca,\h8f45,\h8282,\h1f9d,\hc9c9,\h8940,\h7d7d,\hfa87,\hfafa,\hef15,\h5959,\hb2eb,\h4747,\h8ec9,\hf0f0,\hfb0b,
    \hadad,\h41ec,\hd4d4,\hb367,\ha2a2,\h5ffd,\hafaf,\h45ea,\h9c9c,\h23bf,\ha4a4,\h53f7,\h7272,\he496,\hc0c0,\h9b5b,
    \hb7b7,\h75c2,\hfdfd,\he11c,\h9393,\h3dae,\h2626,\h4c6a,\h3636,\h6c5a,\h3f3f,\h7e41,\hf7f7,\hf502,\hcccc,\h834f,
    \h3434,\h685c,\ha5a5,\h51f4,\he5e5,\hd134,\hf1f1,\hf908,\h7171,\he293,\hd8d8,\hab73,\h3131,\h6253,\h1515,\h2a3f,
    \h0404,\h080c,\hc7c7,\h9552,\h2323,\h4665,\hc3c3,\h9d5e,\h1818,\h3028,\h9696,\h37a1,\h0505,\h0a0f,\h9a9a,\h2fb5,
    \h0707,\h0e09,\h1212,\h2436,\h8080,\h1b9b,\he2e2,\hdf3d,\hebeb,\hcd26,\h2727,\h4e69,\hb2b2,\h7fcd,\h7575,\hea9f,
    \h0909,\h121b,\h8383,\h1d9e,\h2c2c,\h5874,\h1a1a,\h342e,\h1b1b,\h362d,\h6e6e,\hdcb2,\h5a5a,\hb4ee,\ha0a0,\h5bfb,
    \h5252,\ha4f6,\h3b3b,\h764d,\hd6d6,\hb761,\hb3b3,\h7dce,\h2929,\h527b,\he3e3,\hdd3e,\h2f2f,\h5e71,\h8484,\h1397,
    \h5353,\ha6f5,\hd1d1,\hb968,\h0000,\h0000,\heded,\hc12c,\h2020,\h4060,\hfcfc,\he31f,\hb1b1,\h79c8,\h5b5b,\hb6ed,
    \h6a6a,\hd4be,\hcbcb,\h8d46,\hbebe,\h67d9,\h3939,\h724b,\h4a4a,\h94de,\h4c4c,\h98d4,\h5858,\hb0e8,\hcfcf,\h854a,
    \hd0d0,\hbb6b,\hefef,\hc52a,\haaaa,\h4fe5,\hfbfb,\hed16,\h4343,\h86c5,\h4d4d,\h9ad7,\h3333,\h6655,\h8585,\h1194,
    \h4545,\h8acf,\hf9f9,\he910,\h0202,\h0406,\h7f7f,\hfe81,\h5050,\ha0f0,\h3c3c,\h7844,\h9f9f,\h25ba,\ha8a8,\h4be3,
    \h5151,\ha2f3,\ha3a3,\h5dfe,\h4040,\h80c0,\h8f8f,\h058a,\h9292,\h3fad,\h9d9d,\h21bc,\h3838,\h7048,\hf5f5,\hf104,
    \hbcbc,\h63df,\hb6b6,\h77c1,\hdada,\haf75,\h2121,\h4263,\h1010,\h2030,\hffff,\he51a,\hf3f3,\hfd0e,\hd2d2,\hbf6d,
    \hcdcd,\h814c,\h0c0c,\h1814,\h1313,\h2635,\hecec,\hc32f,\h5f5f,\hbee1,\h9797,\h35a2,\h4444,\h88cc,\h1717,\h2e39,
    \hc4c4,\h9357,\ha7a7,\h55f2,\h7e7e,\hfc82,\h3d3d,\h7a47,\h6464,\hc8ac,\h5d5d,\hbae7,\h1919,\h322b,\h7373,\he695,
    \h6060,\hc0a0,\h8181,\h1998,\h4f4f,\h9ed1,\hdcdc,\ha37f,\h2222,\h4466,\h2a2a,\h547e,\h9090,\h3bab,\h8888,\h0b83,
    \h4646,\h8cca,\heeee,\hc729,\hb8b8,\h6bd3,\h1414,\h283c,\hdede,\ha779,\h5e5e,\hbce2,\h0b0b,\h161d,\hdbdb,\had76,
    \he0e0,\hdb3b,\h3232,\h6456,\h3a3a,\h744e,\h0a0a,\h141e,\h4949,\h92db,\h0606,\h0c0a,\h2424,\h486c,\h5c5c,\hb8e4,
    \hc2c2,\h9f5d,\hd3d3,\hbd6e,\hacac,\h43ef,\h6262,\hc4a6,\h9191,\h39a8,\h9595,\h31a4,\he4e4,\hd337,\h7979,\hf28b,
    \he7e7,\hd532,\hc8c8,\h8b43,\h3737,\h6e59,\h6d6d,\hdab7,\h8d8d,\h018c,\hd5d5,\hb164,\h4e4e,\h9cd2,\ha9a9,\h49e0,
    \h6c6c,\hd8b4,\h5656,\hacfa,\hf4f4,\hf307,\heaea,\hcf25,\h6565,\hcaaf,\h7a7a,\hf48e,\haeae,\h47e9,\h0808,\h1018,
    \hbaba,\h6fd5,\h7878,\hf088,\h2525,\h4a6f,\h2e2e,\h5c72,\h1c1c,\h3824,\ha6a6,\h57f1,\hb4b4,\h73c7,\hc6c6,\h9751,
    \he8e8,\hcb23,\hdddd,\ha17c,\h7474,\he89c,\h1f1f,\h3e21,\h4b4b,\h96dd,\hbdbd,\h61dc,\h8b8b,\h0d86,\h8a8a,\h0f85,
    \h7070,\he090,\h3e3e,\h7c42,\hb5b5,\h71c4,\h6666,\hccaa,\h4848,\h90d8,\h0303,\h0605,\hf6f6,\hf701,\h0e0e,\h1c12,
    \h6161,\hc2a3,\h3535,\h6a5f,\h5757,\haef9,\hb9b9,\h69d0,\h8686,\h1791,\hc1c1,\h9958,\h1d1d,\h3a27,\h9e9e,\h27b9,
    \he1e1,\hd938,\hf8f8,\heb13,\h9898,\h2bb3,\h1111,\h2233,\h6969,\hd2bb,\hd9d9,\ha970,\h8e8e,\h0789,\h9494,\h33a7,
    \h9b9b,\h2db6,\h1e1e,\h3c22,\h8787,\h1592,\he9e9,\hc920,\hcece,\h8749,\h5555,\haaff,\h2828,\h5078,\hdfdf,\ha57a,
    \h8c8c,\h038f,\ha1a1,\h59f8,\h8989,\h0980,\h0d0d,\h1a17,\hbfbf,\h65da,\he6e6,\hd731,\h4242,\h84c6,\h6868,\hd0b8,
    \h4141,\h82c3,\h9999,\h29b0,\h2d2d,\h5a77,\h0f0f,\h1e11,\hb0b0,\h7bcb,\h5454,\ha8fc,\hbbbb,\h6dd6,\h1616,\h2c3a >>

T2_le == <<
    \h63c6,\ha563,\h7cf8,\h847c,\h77ee,\h9977,\h7bf6,\h8d7b,\hf2ff,\h0df2,\h6bd6,\hbd6b,\h6fde,\hb16f,\hc591,\h54c5,
    \h3060,\h5030,\h0102,\h0301,\h67ce,\ha967,\h2b56,\h7d2b,\hfee7,\h19fe,\hd7b5,\h62d7,\hab4d,\he6ab,\h76ec,\h9a76,
    \hca8f,\h45ca,\h821f,\h9d82,\hc989,\h40c9,\h7dfa,\h877d,\hfaef,\h15fa,\h59b2,\heb59,\h478e,\hc947,\hf0fb,\h0bf0,
    \had41,\hecad,\hd4b3,\h67d4,\ha25f,\hfda2,\haf45,\heaaf,\h9c23,\hbf9c,\ha453,\hf7a4,\h72e4,\h9672,\hc09b,\h5bc0,
    \hb775,\hc2b7,\hfde1,\h1cfd,\h933d,\hae93,\h264c,\h6a26,\h366c,\h5a36,\h3f7e,\h413f,\hf7f5,\h02f7,\hcc83,\h4fcc,
    \h3468,\h5c34,\ha551,\hf4a5,\he5d1,\h34e5,\hf1f9,\h08f1,\h71e2,\h9371,\hd8ab,\h73d8,\h3162,\h5331,\h152a,\h3f15,
    \h0408,\h0c04,\hc795,\h52c7,\h2346,\h6523,\hc39d,\h5ec3,\h1830,\h2818,\h9637,\ha196,\h050a,\h0f05,\h9a2f,\hb59a,
    \h070e,\h0907,\h1224,\h3612,\h801b,\h9b80,\he2df,\h3de2,\hebcd,\h26eb,\h274e,\h6927,\hb27f,\hcdb2,\h75ea,\h9f75,
    \h0912,\h1b09,\h831d,\h9e83,\h2c58,\h742c,\h1a34,\h2e1a,\h1b36,\h2d1b,\h6edc,\hb26e,\h5ab4,\hee5a,\ha05b,\hfba0,
    \h52a4,\hf652,\h3b76,\h4d3b,\hd6b7,\h61d6,\hb37d,\hceb3,\h2952,\h7b29,\he3dd,\h3ee3,\h2f5e,\h712f,\h8413,\h9784,
    \h53a6,\hf553,\hd1b9,\h68d1,\h0000,\h0000,\hedc1,\h2ced,\h2040,\h6020,\hfce3,\h1ffc,\hb179,\hc8b1,\h5bb6,\hed5b,
    \h6ad4,\hbe6a,\hcb8d,\h46cb,\hbe67,\hd9be,\h3972,\h4b39,\h4a94,\hde4a,\h4c98,\hd44c,\h58b0,\he858,\hcf85,\h4acf,
    \hd0bb,\h6bd0,\hefc5,\h2aef,\haa4f,\he5aa,\hfbed,\h16fb,\h4386,\hc543,\h4d9a,\hd74d,\h3366,\h5533,\h8511,\h9485,
    \h458a,\hcf45,\hf9e9,\h10f9,\h0204,\h0602,\h7ffe,\h817f,\h50a0,\hf050,\h3c78,\h443c,\h9f25,\hba9f,\ha84b,\he3a8,
    \h51a2,\hf351,\ha35d,\hfea3,\h4080,\hc040,\h8f05,\h8a8f,\h923f,\had92,\h9d21,\hbc9d,\h3870,\h4838,\hf5f1,\h04f5,
    \hbc63,\hdfbc,\hb677,\hc1b6,\hdaaf,\h75da,\h2142,\h6321,\h1020,\h3010,\hffe5,\h1aff,\hf3fd,\h0ef3,\hd2bf,\h6dd2,
    \hcd81,\h4ccd,\h0c18,\h140c,\h1326,\h3513,\hecc3,\h2fec,\h5fbe,\he15f,\h9735,\ha297,\h4488,\hcc44,\h172e,\h3917,
    \hc493,\h57c4,\ha755,\hf2a7,\h7efc,\h827e,\h3d7a,\h473d,\h64c8,\hac64,\h5dba,\he75d,\h1932,\h2b19,\h73e6,\h9573,
    \h60c0,\ha060,\h8119,\h9881,\h4f9e,\hd14f,\hdca3,\h7fdc,\h2244,\h6622,\h2a54,\h7e2a,\h903b,\hab90,\h880b,\h8388,
    \h468c,\hca46,\heec7,\h29ee,\hb86b,\hd3b8,\h1428,\h3c14,\hdea7,\h79de,\h5ebc,\he25e,\h0b16,\h1d0b,\hdbad,\h76db,
    \he0db,\h3be0,\h3264,\h5632,\h3a74,\h4e3a,\h0a14,\h1e0a,\h4992,\hdb49,\h060c,\h0a06,\h2448,\h6c24,\h5cb8,\he45c,
    \hc29f,\h5dc2,\hd3bd,\h6ed3,\hac43,\hefac,\h62c4,\ha662,\h9139,\ha891,\h9531,\ha495,\he4d3,\h37e4,\h79f2,\h8b79,
    \he7d5,\h32e7,\hc88b,\h43c8,\h376e,\h5937,\h6dda,\hb76d,\h8d01,\h8c8d,\hd5b1,\h64d5,\h4e9c,\hd24e,\ha949,\he0a9,
    \h6cd8,\hb46c,\h56ac,\hfa56,\hf4f3,\h07f4,\heacf,\h25ea,\h65ca,\haf65,\h7af4,\h8e7a,\hae47,\he9ae,\h0810,\h1808,
    \hba6f,\hd5ba,\h78f0,\h8878,\h254a,\h6f25,\h2e5c,\h722e,\h1c38,\h241c,\ha657,\hf1a6,\hb473,\hc7b4,\hc697,\h51c6,
    \he8cb,\h23e8,\hdda1,\h7cdd,\h74e8,\h9c74,\h1f3e,\h211f,\h4b96,\hdd4b,\hbd61,\hdcbd,\h8b0d,\h868b,\h8a0f,\h858a,
    \h70e0,\h9070,\h3e7c,\h423e,\hb571,\hc4b5,\h66cc,\haa66,\h4890,\hd848,\h0306,\h0503,\hf6f7,\h01f6,\h0e1c,\h120e,
    \h61c2,\ha361,\h356a,\h5f35,\h57ae,\hf957,\hb969,\hd0b9,\h8617,\h9186,\hc199,\h58c1,\h1d3a,\h271d,\h9e27,\hb99e,
    \he1d9,\h38e1,\hf8eb,\h13f8,\h982b,\hb398,\h1122,\h3311,\h69d2,\hbb69,\hd9a9,\h70d9,\h8e07,\h898e,\h9433,\ha794,
    \h9b2d,\hb69b,\h1e3c,\h221e,\h8715,\h9287,\he9c9,\h20e9,\hce87,\h49ce,\h55aa,\hff55,\h2850,\h7828,\hdfa5,\h7adf,
    \h8c03,\h8f8c,\ha159,\hf8a1,\h8909,\h8089,\h0d1a,\h170d,\hbf65,\hdabf,\he6d7,\h31e6,\h4284,\hc642,\h68d0,\hb868,
    \h4182,\hc341,\h9929,\hb099,\h2d5a,\h772d,\h0f1e,\h110f,\hb07b,\hcbb0,\h54a8,\hfc54,\hbb6d,\hd6bb,\h162c,\h3a16 >>

T3_le == <<
    \hc6a5,\h6363,\hf884,\h7c7c,\hee99,\h7777,\hf68d,\h7b7b,\hff0d,\hf2f2,\hd6bd,\h6b6b,\hdeb1,\h6f6f,\h9154,\hc5c5,
    \h6050,\h3030,\h0203,\h0101,\hcea9,\h6767,\h567d,\h2b2b,\he719,\hfefe,\hb562,\hd7d7,\h4de6,\habab,\hec9a,\h7676,
    \h8f45,\hcaca,\h1f9d,\h8282,\h8940,\hc9c9,\hfa87,\h7d7d,\hef15,\hfafa,\hb2eb,\h5959,\h8ec9,\h4747,\hfb0b,\hf0f0,
    \h41ec,\hadad,\hb367,\hd4d4,\h5ffd,\ha2a2,\h45ea,\hafaf,\h23bf,\h9c9c,\h53f7,\ha4a4,\he496,\h7272,\h9b5b,\hc0c0,
    \h75c2,\hb7b7,\he11c,\hfdfd,\h3dae,\h9393,\h4c6a,\h2626,\h6c5a,\h3636,\h7e41,\h3f3f,\hf502,\hf7f7,\h834f,\hcccc,
    \h685c,\h3434,\h51f4,\ha5a5,\hd134,\he5e5,\hf908,\hf1f1,\he293,\h7171,\hab73,\hd8d8,\h6253,\h3131,\h2a3f,\h1515,
    \h080c,\h0404,\h9552,\hc7c7,\h4665,\h2323,\h9d5e,\hc3c3,\h3028,\h1818,\h37a1,\h9696,\h0a0f,\h0505,\h2fb5,\h9a9a,
    \h0e09,\h0707,\h2436,\h1212,\h1b9b,\h8080,\hdf3d,\he2e2,\hcd26,\hebeb,\h4e69,\h2727,\h7fcd,\hb2b2,\hea9f,\h7575,
    \h121b,\h0909,\h1d9e,\h8383,\h5874,\h2c2c,\h342e,\h1a1a,\h362d,\h1b1b,\hdcb2,\h6e6e,\hb4ee,\h5a5a,\h5bfb,\ha0a0,
    \ha4f6,\h5252,\h764d,\h3b3b,\hb761,\hd6d6,\h7dce,\hb3b3,\h527b,\h2929,\hdd3e,\he3e3,\h5e71,\h2f2f,\h1397,\h8484,
    \ha6f5,\h5353,\hb968,\hd1d1,\h0000,\h0000,\hc12c,\heded,\h4060,\h2020,\he31f,\hfcfc,\h79c8,\hb1b1,\hb6ed,\h5b5b,
    \hd4be,\h6a6a,\h8d46,\hcbcb,\h67d9,\hbebe,\h724b,\h3939,\h94de,\h4a4a,\h98d4,\h4c4c,\hb0e8,\h5858,\h854a,\hcfcf,
    \hbb6b,\hd0d0,\hc52a,\hefef,\h4fe5,\haaaa,\hed16,\hfbfb,\h86c5,\h4343,\h9ad7,\h4d4d,\h6655,\h3333,\h1194,\h8585,
    \h8acf,\h4545,\he910,\hf9f9,\h0406,\h0202,\hfe81,\h7f7f,\ha0f0,\h5050,\h7844,\h3c3c,\h25ba,\h9f9f,\h4be3,\ha8a8,
    \ha2f3,\h5151,\h5dfe,\ha3a3,\h80c0,\h4040,\h058a,\h8f8f,\h3fad,\h9292,\h21bc,\h9d9d,\h7048,\h3838,\hf104,\hf5f5,
    \h63df,\hbcbc,\h77c1,\hb6b6,\haf75,\hdada,\h4263,\h2121,\h2030,\h1010,\he51a,\hffff,\hfd0e,\hf3f3,\hbf6d,\hd2d2,
    \h814c,\hcdcd,\h1814,\h0c0c,\h2635,\h1313,\hc32f,\hecec,\hbee1,\h5f5f,\h35a2,\h9797,\h88cc,\h4444,\h2e39,\h1717,
    \h9357,\hc4c4,\h55f2,\ha7a7,\hfc82,\h7e7e,\h7a47,\h3d3d,\hc8ac,\h6464,\hbae7,\h5d5d,\h322b,\h1919,\he695,\h7373,
    \hc0a0,\h6060,\h1998,\h8181,\h9ed1,\h4f4f,\ha37f,\hdcdc,\h4466,\h2222,\h547e,\h2a2a,\h3bab,\h9090,\h0b83,\h8888,
    \h8cca,\h4646,\hc729,\heeee,\h6bd3,\hb8b8,\h283c,\h1414,\ha779,\hdede,\hbce2,\h5e5e,\h161d,\h0b0b,\had76,\hdbdb,
    \hdb3b,\he0e0,\h6456,\h3232,\h744e,\h3a3a,\h141e,\h0a0a,\h92db,\h4949,\h0c0a,\h0606,\h486c,\h2424,\hb8e4,\h5c5c,
    \h9f5d,\hc2c2,\hbd6e,\hd3d3,\h43ef,\hacac,\hc4a6,\h6262,\h39a8,\h9191,\h31a4,\h9595,\hd337,\he4e4,\hf28b,\h7979,
    \hd532,\he7e7,\h8b43,\hc8c8,\h6e59,\h3737,\hdab7,\h6d6d,\h018c,\h8d8d,\hb164,\hd5d5,\h9cd2,\h4e4e,\h49e0,\ha9a9,
    \hd8b4,\h6c6c,\hacfa,\h5656,\hf307,\hf4f4,\hcf25,\heaea,\hcaaf,\h6565,\hf48e,\h7a7a,\h47e9,\haeae,\h1018,\h0808,
    \h6fd5,\hbaba,\hf088,\h7878,\h4a6f,\h2525,\h5c72,\h2e2e,\h3824,\h1c1c,\h57f1,\ha6a6,\h73c7,\hb4b4,\h9751,\hc6c6,
    \hcb23,\he8e8,\ha17c,\hdddd,\he89c,\h7474,\h3e21,\h1f1f,\h96dd,\h4b4b,\h61dc,\hbdbd,\h0d86,\h8b8b,\h0f85,\h8a8a,
    \he090,\h7070,\h7c42,\h3e3e,\h71c4,\hb5b5,\hccaa,\h6666,\h90d8,\h4848,\h0605,\h0303,\hf701,\hf6f6,\h1c12,\h0e0e,
    \hc2a3,\h6161,\h6a5f,\h3535,\haef9,\h5757,\h69d0,\hb9b9,\h1791,\h8686,\h9958,\hc1c1,\h3a27,\h1d1d,\h27b9,\h9e9e,
    \hd938,\he1e1,\heb13,\hf8f8,\h2bb3,\h9898,\h2233,\h1111,\hd2bb,\h6969,\ha970,\hd9d9,\h0789,\h8e8e,\h33a7,\h9494,
    \h2db6,\h9b9b,\h3c22,\h1e1e,\h1592,\h8787,\hc920,\he9e9,\h8749,\hcece,\haaff,\h5555,\h5078,\h2828,\ha57a,\hdfdf,
    \h038f,\h8c8c,\h59f8,\ha1a1,\h0980,\h8989,\h1a17,\h0d0d,\h65da,\hbfbf,\hd731,\he6e6,\h84c6,\h4242,\hd0b8,\h6868,
    \h82c3,\h4141,\h29b0,\h9999,\h5a77,\h2d2d,\h1e11,\h0f0f,\h7bcb,\hb0b0,\ha8fc,\h5454,\h6dd6,\hbbbb,\h2c3a,\h1616 >>

U0_le == <<
    \h50a7,\hf451,\h5365,\h417e,\hc3a4,\h171a,\h965e,\h273a,\hcb6b,\hab3b,\hf145,\h9d1f,\hab58,\hfaac,\h9303,\he34b,
    \h55fa,\h3020,\hf66d,\h76ad,\h9176,\hcc88,\h254c,\h02f5,\hfcd7,\he54f,\hd7cb,\h2ac5,\h8044,\h3526,\h8fa3,\h62b5,
    \h495a,\hb1de,\h671b,\hba25,\h980e,\hea45,\he1c0,\hfe5d,\h0275,\h2fc3,\h12f0,\h4c81,\ha397,\h468d,\hc6f9,\hd36b,
    \he75f,\h8f03,\h959c,\h9215,\heb7a,\h6dbf,\hda59,\h5295,\h2d83,\hbed4,\hd321,\h7458,\h2969,\he049,\h44c8,\hc98e,
    \h6a89,\hc275,\h7879,\h8ef4,\h6b3e,\h5899,\hdd71,\hb927,\hb64f,\he1be,\h17ad,\h88f0,\h66ac,\h20c9,\hb43a,\hce7d,
    \h184a,\hdf63,\h8231,\h1ae5,\h6033,\h5197,\h457f,\h5362,\he077,\h64b1,\h84ae,\h6bbb,\h1ca0,\h81fe,\h942b,\h08f9,
    \h5868,\h4870,\h19fd,\h458f,\h876c,\hde94,\hb7f8,\h7b52,\h23d3,\h73ab,\he202,\h4b72,\h578f,\h1fe3,\h2aab,\h5566,
    \h0728,\hebb2,\h03c2,\hb52f,\h9a7b,\hc586,\ha508,\h37d3,\hf287,\h2830,\hb2a5,\hbf23,\hba6a,\h0302,\h5c82,\h16ed,
    \h2b1c,\hcf8a,\h92b4,\h79a7,\hf0f2,\h07f3,\ha1e2,\h694e,\hcdf4,\hda65,\hd5be,\h0506,\h1f62,\h34d1,\h8afe,\ha6c4,
    \h9d53,\h2e34,\ha055,\hf3a2,\h32e1,\h8a05,\h75eb,\hf6a4,\h39ec,\h830b,\haaef,\h6040,\h069f,\h715e,\h5110,\h6ebd,
    \hf98a,\h213e,\h3d06,\hdd96,\hae05,\h3edd,\h46bd,\he64d,\hb58d,\h5491,\h055d,\hc471,\h6fd4,\h0604,\hff15,\h5060,
    \h24fb,\h9819,\h97e9,\hbdd6,\hcc43,\h4089,\h779e,\hd967,\hbd42,\he8b0,\h888b,\h8907,\h385b,\h19e7,\hdbee,\hc879,
    \h470a,\h7ca1,\he90f,\h427c,\hc91e,\h84f8,\h0000,\h0000,\h8386,\h8009,\h48ed,\h2b32,\hac70,\h111e,\h4e72,\h5a6c,
    \hfbff,\h0efd,\h5638,\h850f,\h1ed5,\hae3d,\h2739,\h2d36,\h64d9,\h0f0a,\h21a6,\h5c68,\hd154,\h5b9b,\h3a2e,\h3624,
    \hb167,\h0a0c,\h0fe7,\h5793,\hd296,\heeb4,\h9e91,\h9b1b,\h4fc5,\hc080,\ha220,\hdc61,\h694b,\h775a,\h161a,\h121c,
    \h0aba,\h93e2,\he52a,\ha0c0,\h43e0,\h223c,\h1d17,\h1b12,\h0b0d,\h090e,\hadc7,\h8bf2,\hb9a8,\hb62d,\hc8a9,\h1e14,
    \h8519,\hf157,\h4c07,\h75af,\hbbdd,\h99ee,\hfd60,\h7fa3,\h9f26,\h01f7,\hbcf5,\h725c,\hc53b,\h6644,\h347e,\hfb5b,
    \h7629,\h438b,\hdcc6,\h23cb,\h68fc,\hedb6,\h63f1,\he4b8,\hcadc,\h31d7,\h1085,\h6342,\h4022,\h9713,\h2011,\hc684,
    \h7d24,\h4a85,\hf83d,\hbbd2,\h1132,\hf9ae,\h6da1,\h29c7,\h4b2f,\h9e1d,\hf330,\hb2dc,\hec52,\h860d,\hd0e3,\hc177,
    \h6c16,\hb32b,\h99b9,\h70a9,\hfa48,\h9411,\h2264,\he947,\hc48c,\hfca8,\h1a3f,\hf0a0,\hd82c,\h7d56,\hef90,\h3322,
    \hc74e,\h4987,\hc1d1,\h38d9,\hfea2,\hca8c,\h360b,\hd498,\hcf81,\hf5a6,\h28de,\h7aa5,\h268e,\hb7da,\ha4bf,\had3f,
    \he49d,\h3a2c,\h0d92,\h7850,\h9bcc,\h5f6a,\h6246,\h7e54,\hc213,\h8df6,\he8b8,\hd890,\h5ef7,\h392e,\hf5af,\hc382,
    \hbe80,\h5d9f,\h7c93,\hd069,\ha92d,\hd56f,\hb312,\h25cf,\h3b99,\hacc8,\ha77d,\h1810,\h6e63,\h9ce8,\h7bbb,\h3bdb,
    \h0978,\h26cd,\hf418,\h596e,\h01b7,\h9aec,\ha89a,\h4f83,\h656e,\h95e6,\h7ee6,\hffaa,\h08cf,\hbc21,\he6e8,\h15ef,
    \hd99b,\he7ba,\hce36,\h6f4a,\hd409,\h9fea,\hd67c,\hb029,\hafb2,\ha431,\h3123,\h3f2a,\h3094,\ha5c6,\hc066,\ha235,
    \h37bc,\h4e74,\ha6ca,\h82fc,\hb0d0,\h90e0,\h15d8,\ha733,\h4a98,\h04f1,\hf7da,\hec41,\h0e50,\hcd7f,\h2ff6,\h9117,
    \h8dd6,\h4d76,\h4db0,\hef43,\h544d,\haacc,\hdf04,\h96e4,\he3b5,\hd19e,\h1b88,\h6a4c,\hb81f,\h2cc1,\h7f51,\h6546,
    \h04ea,\h5e9d,\h5d35,\h8c01,\h7374,\h87fa,\h2e41,\h0bfb,\h5a1d,\h67b3,\h52d2,\hdb92,\h3356,\h10e9,\h1347,\hd66d,
    \h8c61,\hd79a,\h7a0c,\ha137,\h8e14,\hf859,\h893c,\h13eb,\hee27,\ha9ce,\h35c9,\h61b7,\hede5,\h1ce1,\h3cb1,\h477a,
    \h59df,\hd29c,\h3f73,\hf255,\h79ce,\h1418,\hbf37,\hc773,\heacd,\hf753,\h5baa,\hfd5f,\h146f,\h3ddf,\h86db,\h4478,
    \h81f3,\hafca,\h3ec4,\h68b9,\h2c34,\h2438,\h5f40,\ha3c2,\h72c3,\h1d16,\h0c25,\he2bc,\h8b49,\h3c28,\h4195,\h0dff,
    \h7101,\ha839,\hdeb3,\h0c08,\h9ce4,\hb4d8,\h90c1,\h5664,\h6184,\hcb7b,\h70b6,\h32d5,\h745c,\h6c48,\h4257,\hb8d0 >>

U1_le == <<
    \ha7f4,\h5150,\h6541,\h7e53,\ha417,\h1ac3,\h5e27,\h3a96,\h6bab,\h3bcb,\h459d,\h1ff1,\h58fa,\hacab,\h03e3,\h4b93,
    \hfa30,\h2055,\h6d76,\hadf6,\h76cc,\h8891,\h4c02,\hf525,\hd7e5,\h4ffc,\hcb2a,\hc5d7,\h4435,\h2680,\ha362,\hb58f,
    \h5ab1,\hde49,\h1bba,\h2567,\h0eea,\h4598,\hc0fe,\h5de1,\h752f,\hc302,\hf04c,\h8112,\h9746,\h8da3,\hf9d3,\h6bc6,
    \h5f8f,\h03e7,\h9c92,\h1595,\h7a6d,\hbfeb,\h5952,\h95da,\h83be,\hd42d,\h2174,\h58d3,\h69e0,\h4929,\hc8c9,\h8e44,
    \h89c2,\h756a,\h798e,\hf478,\h3e58,\h996b,\h71b9,\h27dd,\h4fe1,\hbeb6,\had88,\hf017,\hac20,\hc966,\h3ace,\h7db4,
    \h4adf,\h6318,\h311a,\he582,\h3351,\h9760,\h7f53,\h6245,\h7764,\hb1e0,\hae6b,\hbb84,\ha081,\hfe1c,\h2b08,\hf994,
    \h6848,\h7058,\hfd45,\h8f19,\h6cde,\h9487,\hf87b,\h52b7,\hd373,\hab23,\h024b,\h72e2,\h8f1f,\he357,\hab55,\h662a,
    \h28eb,\hb207,\hc2b5,\h2f03,\h7bc5,\h869a,\h0837,\hd3a5,\h8728,\h30f2,\ha5bf,\h23b2,\h6a03,\h02ba,\h8216,\hed5c,
    \h1ccf,\h8a2b,\hb479,\ha792,\hf207,\hf3f0,\he269,\h4ea1,\hf4da,\h65cd,\hbe05,\h06d5,\h6234,\hd11f,\hfea6,\hc48a,
    \h532e,\h349d,\h55f3,\ha2a0,\he18a,\h0532,\hebf6,\ha475,\hec83,\h0b39,\hef60,\h40aa,\h9f71,\h5e06,\h106e,\hbd51,
    \h8a21,\h3ef9,\h06dd,\h963d,\h053e,\hddae,\hbde6,\h4d46,\h8d54,\h91b5,\h5dc4,\h7105,\hd406,\h046f,\h1550,\h60ff,
    \hfb98,\h1924,\he9bd,\hd697,\h4340,\h89cc,\h9ed9,\h6777,\h42e8,\hb0bd,\h8b89,\h0788,\h5b19,\he738,\heec8,\h79db,
    \h0a7c,\ha147,\h0f42,\h7ce9,\h1e84,\hf8c9,\h0000,\h0000,\h8680,\h0983,\hed2b,\h3248,\h7011,\h1eac,\h725a,\h6c4e,
    \hff0e,\hfdfb,\h3885,\h0f56,\hd5ae,\h3d1e,\h392d,\h3627,\hd90f,\h0a64,\ha65c,\h6821,\h545b,\h9bd1,\h2e36,\h243a,
    \h670a,\h0cb1,\he757,\h930f,\h96ee,\hb4d2,\h919b,\h1b9e,\hc5c0,\h804f,\h20dc,\h61a2,\h4b77,\h5a69,\h1a12,\h1c16,
    \hba93,\he20a,\h2aa0,\hc0e5,\he022,\h3c43,\h171b,\h121d,\h0d09,\h0e0b,\hc78b,\hf2ad,\ha8b6,\h2db9,\ha91e,\h14c8,
    \h19f1,\h5785,\h0775,\haf4c,\hdd99,\heebb,\h607f,\ha3fd,\h2601,\hf79f,\hf572,\h5cbc,\h3b66,\h44c5,\h7efb,\h5b34,
    \h2943,\h8b76,\hc623,\hcbdc,\hfced,\hb668,\hf1e4,\hb863,\hdc31,\hd7ca,\h8563,\h4210,\h2297,\h1340,\h11c6,\h8420,
    \h244a,\h857d,\h3dbb,\hd2f8,\h32f9,\hae11,\ha129,\hc76d,\h2f9e,\h1d4b,\h30b2,\hdcf3,\h5286,\h0dec,\he3c1,\h77d0,
    \h16b3,\h2b6c,\hb970,\ha999,\h4894,\h11fa,\h64e9,\h4722,\h8cfc,\ha8c4,\h3ff0,\ha01a,\h2c7d,\h56d8,\h9033,\h22ef,
    \h4e49,\h87c7,\hd138,\hd9c1,\ha2ca,\h8cfe,\h0bd4,\h9836,\h81f5,\ha6cf,\hde7a,\ha528,\h8eb7,\hda26,\hbfad,\h3fa4,
    \h9d3a,\h2ce4,\h9278,\h500d,\hcc5f,\h6a9b,\h467e,\h5462,\h138d,\hf6c2,\hb8d8,\h90e8,\hf739,\h2e5e,\hafc3,\h82f5,
    \h805d,\h9fbe,\h93d0,\h697c,\h2dd5,\h6fa9,\h1225,\hcfb3,\h99ac,\hc83b,\h7d18,\h10a7,\h639c,\he86e,\hbb3b,\hdb7b,
    \h7826,\hcd09,\h1859,\h6ef4,\hb79a,\hec01,\h9a4f,\h83a8,\h6e95,\he665,\he6ff,\haa7e,\hcfbc,\h2108,\he815,\hefe6,
    \h9be7,\hbad9,\h366f,\h4ace,\h099f,\head4,\h7cb0,\h29d6,\hb2a4,\h31af,\h233f,\h2a31,\h94a5,\hc630,\h66a2,\h35c0,
    \hbc4e,\h7437,\hca82,\hfca6,\hd090,\he0b0,\hd8a7,\h3315,\h9804,\hf14a,\hdaec,\h41f7,\h50cd,\h7f0e,\hf691,\h172f,
    \hd64d,\h768d,\hb0ef,\h434d,\h4daa,\hcc54,\h0496,\he4df,\hb5d1,\h9ee3,\h886a,\h4c1b,\h1f2c,\hc1b8,\h5165,\h467f,
    \hea5e,\h9d04,\h358c,\h015d,\h7487,\hfa73,\h410b,\hfb2e,\h1d67,\hb35a,\hd2db,\h9252,\h5610,\he933,\h47d6,\h6d13,
    \h61d7,\h9a8c,\h0ca1,\h377a,\h14f8,\h598e,\h3c13,\heb89,\h27a9,\hceee,\hc961,\hb735,\he51c,\he1ed,\hb147,\h7a3c,
    \hdfd2,\h9c59,\h73f2,\h553f,\hce14,\h1879,\h37c7,\h73bf,\hcdf7,\h53ea,\haafd,\h5f5b,\h6f3d,\hdf14,\hdb44,\h7886,
    \hf3af,\hca81,\hc468,\hb93e,\h3424,\h382c,\h40a3,\hc25f,\hc31d,\h1672,\h25e2,\hbc0c,\h493c,\h288b,\h950d,\hff41,
    \h01a8,\h3971,\hb30c,\h08de,\he4b4,\hd89c,\hc156,\h6490,\h84cb,\h7b61,\hb632,\hd570,\h5c6c,\h4874,\h57b8,\hd042 >>

U2_le == <<
    \hf451,\h50a7,\h417e,\h5365,\h171a,\hc3a4,\h273a,\h965e,\hab3b,\hcb6b,\h9d1f,\hf145,\hfaac,\hab58,\he34b,\h9303,
    \h3020,\h55fa,\h76ad,\hf66d,\hcc88,\h9176,\h02f5,\h254c,\he54f,\hfcd7,\h2ac5,\hd7cb,\h3526,\h8044,\h62b5,\h8fa3,
    \hb1de,\h495a,\hba25,\h671b,\hea45,\h980e,\hfe5d,\he1c0,\h2fc3,\h0275,\h4c81,\h12f0,\h468d,\ha397,\hd36b,\hc6f9,
    \h8f03,\he75f,\h9215,\h959c,\h6dbf,\heb7a,\h5295,\hda59,\hbed4,\h2d83,\h7458,\hd321,\he049,\h2969,\hc98e,\h44c8,
    \hc275,\h6a89,\h8ef4,\h7879,\h5899,\h6b3e,\hb927,\hdd71,\he1be,\hb64f,\h88f0,\h17ad,\h20c9,\h66ac,\hce7d,\hb43a,
    \hdf63,\h184a,\h1ae5,\h8231,\h5197,\h6033,\h5362,\h457f,\h64b1,\he077,\h6bbb,\h84ae,\h81fe,\h1ca0,\h08f9,\h942b,
    \h4870,\h5868,\h458f,\h19fd,\hde94,\h876c,\h7b52,\hb7f8,\h73ab,\h23d3,\h4b72,\he202,\h1fe3,\h578f,\h5566,\h2aab,
    \hebb2,\h0728,\hb52f,\h03c2,\hc586,\h9a7b,\h37d3,\ha508,\h2830,\hf287,\hbf23,\hb2a5,\h0302,\hba6a,\h16ed,\h5c82,
    \hcf8a,\h2b1c,\h79a7,\h92b4,\h07f3,\hf0f2,\h694e,\ha1e2,\hda65,\hcdf4,\h0506,\hd5be,\h34d1,\h1f62,\ha6c4,\h8afe,
    \h2e34,\h9d53,\hf3a2,\ha055,\h8a05,\h32e1,\hf6a4,\h75eb,\h830b,\h39ec,\h6040,\haaef,\h715e,\h069f,\h6ebd,\h5110,
    \h213e,\hf98a,\hdd96,\h3d06,\h3edd,\hae05,\he64d,\h46bd,\h5491,\hb58d,\hc471,\h055d,\h0604,\h6fd4,\h5060,\hff15,
    \h9819,\h24fb,\hbdd6,\h97e9,\h4089,\hcc43,\hd967,\h779e,\he8b0,\hbd42,\h8907,\h888b,\h19e7,\h385b,\hc879,\hdbee,
    \h7ca1,\h470a,\h427c,\he90f,\h84f8,\hc91e,\h0000,\h0000,\h8009,\h8386,\h2b32,\h48ed,\h111e,\hac70,\h5a6c,\h4e72,
    \h0efd,\hfbff,\h850f,\h5638,\hae3d,\h1ed5,\h2d36,\h2739,\h0f0a,\h64d9,\h5c68,\h21a6,\h5b9b,\hd154,\h3624,\h3a2e,
    \h0a0c,\hb167,\h5793,\h0fe7,\heeb4,\hd296,\h9b1b,\h9e91,\hc080,\h4fc5,\hdc61,\ha220,\h775a,\h694b,\h121c,\h161a,
    \h93e2,\h0aba,\ha0c0,\he52a,\h223c,\h43e0,\h1b12,\h1d17,\h090e,\h0b0d,\h8bf2,\hadc7,\hb62d,\hb9a8,\h1e14,\hc8a9,
    \hf157,\h8519,\h75af,\h4c07,\h99ee,\hbbdd,\h7fa3,\hfd60,\h01f7,\h9f26,\h725c,\hbcf5,\h6644,\hc53b,\hfb5b,\h347e,
    \h438b,\h7629,\h23cb,\hdcc6,\hedb6,\h68fc,\he4b8,\h63f1,\h31d7,\hcadc,\h6342,\h1085,\h9713,\h4022,\hc684,\h2011,
    \h4a85,\h7d24,\hbbd2,\hf83d,\hf9ae,\h1132,\h29c7,\h6da1,\h9e1d,\h4b2f,\hb2dc,\hf330,\h860d,\hec52,\hc177,\hd0e3,
    \hb32b,\h6c16,\h70a9,\h99b9,\h9411,\hfa48,\he947,\h2264,\hfca8,\hc48c,\hf0a0,\h1a3f,\h7d56,\hd82c,\h3322,\hef90,
    \h4987,\hc74e,\h38d9,\hc1d1,\hca8c,\hfea2,\hd498,\h360b,\hf5a6,\hcf81,\h7aa5,\h28de,\hb7da,\h268e,\had3f,\ha4bf,
    \h3a2c,\he49d,\h7850,\h0d92,\h5f6a,\h9bcc,\h7e54,\h6246,\h8df6,\hc213,\hd890,\he8b8,\h392e,\h5ef7,\hc382,\hf5af,
    \h5d9f,\hbe80,\hd069,\h7c93,\hd56f,\ha92d,\h25cf,\hb312,\hacc8,\h3b99,\h1810,\ha77d,\h9ce8,\h6e63,\h3bdb,\h7bbb,
    \h26cd,\h0978,\h596e,\hf418,\h9aec,\h01b7,\h4f83,\ha89a,\h95e6,\h656e,\hffaa,\h7ee6,\hbc21,\h08cf,\h15ef,\he6e8,
    \he7ba,\hd99b,\h6f4a,\hce36,\h9fea,\hd409,\hb029,\hd67c,\ha431,\hafb2,\h3f2a,\h3123,\ha5c6,\h3094,\ha235,\hc066,
    \h4e74,\h37bc,\h82fc,\ha6ca,\h90e0,\hb0d0,\ha733,\h15d8,\h04f1,\h4a98,\hec41,\hf7da,\hcd7f,\h0e50,\h9117,\h2ff6,
    \h4d76,\h8dd6,\hef43,\h4db0,\haacc,\h544d,\h96e4,\hdf04,\hd19e,\he3b5,\h6a4c,\h1b88,\h2cc1,\hb81f,\h6546,\h7f51,
    \h5e9d,\h04ea,\h8c01,\h5d35,\h87fa,\h7374,\h0bfb,\h2e41,\h67b3,\h5a1d,\hdb92,\h52d2,\h10e9,\h3356,\hd66d,\h1347,
    \hd79a,\h8c61,\ha137,\h7a0c,\hf859,\h8e14,\h13eb,\h893c,\ha9ce,\hee27,\h61b7,\h35c9,\h1ce1,\hede5,\h477a,\h3cb1,
    \hd29c,\h59df,\hf255,\h3f73,\h1418,\h79ce,\hc773,\hbf37,\hf753,\heacd,\hfd5f,\h5baa,\h3ddf,\h146f,\h4478,\h86db,
    \hafca,\h81f3,\h68b9,\h3ec4,\h2438,\h2c34,\ha3c2,\h5f40,\h1d16,\h72c3,\he2bc,\h0c25,\h3c28,\h8b49,\h0dff,\h4195,
    \ha839,\h7101,\h0c08,\hdeb3,\hb4d8,\h9ce4,\h5664,\h90c1,\hcb7b,\h6184,\h32d5,\h70b6,\h6c48,\h745c,\hb8d0,\h4257 >>

U3_le == <<
    \h5150,\ha7f4,\h7e53,\h6541,\h1ac3,\ha417,\h3a96,\h5e27,\h3bcb,\h6bab,\h1ff1,\h459d,\hacab,\h58fa,\h4b93,\h03e3,
    \h2055,\hfa30,\hadf6,\h6d76,\h8891,\h76cc,\hf525,\h4c02,\h4ffc,\hd7e5,\hc5d7,\hcb2a,\h2680,\h4435,\hb58f,\ha362,
    \hde49,\h5ab1,\h2567,\h1bba,\h4598,\h0eea,\h5de1,\hc0fe,\hc302,\h752f,\h8112,\hf04c,\h8da3,\h9746,\h6bc6,\hf9d3,
    \h03e7,\h5f8f,\h1595,\h9c92,\hbfeb,\h7a6d,\h95da,\h5952,\hd42d,\h83be,\h58d3,\h2174,\h4929,\h69e0,\h8e44,\hc8c9,
    \h756a,\h89c2,\hf478,\h798e,\h996b,\h3e58,\h27dd,\h71b9,\hbeb6,\h4fe1,\hf017,\had88,\hc966,\hac20,\h7db4,\h3ace,
    \h6318,\h4adf,\he582,\h311a,\h9760,\h3351,\h6245,\h7f53,\hb1e0,\h7764,\hbb84,\hae6b,\hfe1c,\ha081,\hf994,\h2b08,
    \h7058,\h6848,\h8f19,\hfd45,\h9487,\h6cde,\h52b7,\hf87b,\hab23,\hd373,\h72e2,\h024b,\he357,\h8f1f,\h662a,\hab55,
    \hb207,\h28eb,\h2f03,\hc2b5,\h869a,\h7bc5,\hd3a5,\h0837,\h30f2,\h8728,\h23b2,\ha5bf,\h02ba,\h6a03,\hed5c,\h8216,
    \h8a2b,\h1ccf,\ha792,\hb479,\hf3f0,\hf207,\h4ea1,\he269,\h65cd,\hf4da,\h06d5,\hbe05,\hd11f,\h6234,\hc48a,\hfea6,
    \h349d,\h532e,\ha2a0,\h55f3,\h0532,\he18a,\ha475,\hebf6,\h0b39,\hec83,\h40aa,\hef60,\h5e06,\h9f71,\hbd51,\h106e,
    \h3ef9,\h8a21,\h963d,\h06dd,\hddae,\h053e,\h4d46,\hbde6,\h91b5,\h8d54,\h7105,\h5dc4,\h046f,\hd406,\h60ff,\h1550,
    \h1924,\hfb98,\hd697,\he9bd,\h89cc,\h4340,\h6777,\h9ed9,\hb0bd,\h42e8,\h0788,\h8b89,\he738,\h5b19,\h79db,\heec8,
    \ha147,\h0a7c,\h7ce9,\h0f42,\hf8c9,\h1e84,\h0000,\h0000,\h0983,\h8680,\h3248,\hed2b,\h1eac,\h7011,\h6c4e,\h725a,
    \hfdfb,\hff0e,\h0f56,\h3885,\h3d1e,\hd5ae,\h3627,\h392d,\h0a64,\hd90f,\h6821,\ha65c,\h9bd1,\h545b,\h243a,\h2e36,
    \h0cb1,\h670a,\h930f,\he757,\hb4d2,\h96ee,\h1b9e,\h919b,\h804f,\hc5c0,\h61a2,\h20dc,\h5a69,\h4b77,\h1c16,\h1a12,
    \he20a,\hba93,\hc0e5,\h2aa0,\h3c43,\he022,\h121d,\h171b,\h0e0b,\h0d09,\hf2ad,\hc78b,\h2db9,\ha8b6,\h14c8,\ha91e,
    \h5785,\h19f1,\haf4c,\h0775,\heebb,\hdd99,\ha3fd,\h607f,\hf79f,\h2601,\h5cbc,\hf572,\h44c5,\h3b66,\h5b34,\h7efb,
    \h8b76,\h2943,\hcbdc,\hc623,\hb668,\hfced,\hb863,\hf1e4,\hd7ca,\hdc31,\h4210,\h8563,\h1340,\h2297,\h8420,\h11c6,
    \h857d,\h244a,\hd2f8,\h3dbb,\hae11,\h32f9,\hc76d,\ha129,\h1d4b,\h2f9e,\hdcf3,\h30b2,\h0dec,\h5286,\h77d0,\he3c1,
    \h2b6c,\h16b3,\ha999,\hb970,\h11fa,\h4894,\h4722,\h64e9,\ha8c4,\h8cfc,\ha01a,\h3ff0,\h56d8,\h2c7d,\h22ef,\h9033,
    \h87c7,\h4e49,\hd9c1,\hd138,\h8cfe,\ha2ca,\h9836,\h0bd4,\ha6cf,\h81f5,\ha528,\hde7a,\hda26,\h8eb7,\h3fa4,\hbfad,
    \h2ce4,\h9d3a,\h500d,\h9278,\h6a9b,\hcc5f,\h5462,\h467e,\hf6c2,\h138d,\h90e8,\hb8d8,\h2e5e,\hf739,\h82f5,\hafc3,
    \h9fbe,\h805d,\h697c,\h93d0,\h6fa9,\h2dd5,\hcfb3,\h1225,\hc83b,\h99ac,\h10a7,\h7d18,\he86e,\h639c,\hdb7b,\hbb3b,
    \hcd09,\h7826,\h6ef4,\h1859,\hec01,\hb79a,\h83a8,\h9a4f,\he665,\h6e95,\haa7e,\he6ff,\h2108,\hcfbc,\hefe6,\he815,
    \hbad9,\h9be7,\h4ace,\h366f,\head4,\h099f,\h29d6,\h7cb0,\h31af,\hb2a4,\h2a31,\h233f,\hc630,\h94a5,\h35c0,\h66a2,
    \h7437,\hbc4e,\hfca6,\hca82,\he0b0,\hd090,\h3315,\hd8a7,\hf14a,\h9804,\h41f7,\hdaec,\h7f0e,\h50cd,\h172f,\hf691,
    \h768d,\hd64d,\h434d,\hb0ef,\hcc54,\h4daa,\he4df,\h0496,\h9ee3,\hb5d1,\h4c1b,\h886a,\hc1b8,\h1f2c,\h467f,\h5165,
    \h9d04,\hea5e,\h015d,\h358c,\hfa73,\h7487,\hfb2e,\h410b,\hb35a,\h1d67,\h9252,\hd2db,\he933,\h5610,\h6d13,\h47d6,
    \h9a8c,\h61d7,\h377a,\h0ca1,\h598e,\h14f8,\heb89,\h3c13,\hceee,\h27a9,\hb735,\hc961,\he1ed,\he51c,\h7a3c,\hb147,
    \h9c59,\hdfd2,\h553f,\h73f2,\h1879,\hce14,\h73bf,\h37c7,\h53ea,\hcdf7,\h5f5b,\haafd,\hdf14,\h6f3d,\h7886,\hdb44,
    \hca81,\hf3af,\hb93e,\hc468,\h382c,\h3424,\hc25f,\h40a3,\h1672,\hc31d,\hbc0c,\h25e2,\h288b,\h493c,\hff41,\h950d,
    \h3971,\h01a8,\h08de,\hb30c,\hd89c,\he4b4,\h6490,\hc156,\h7b61,\h84cb,\hd570,\hb632,\h4874,\h5c6c,\hd042,\h57b8 >>

-----------------------------------------------------------------------------
(* Big endian.                                                             *)
T0_be == <<
    \hc663,\h63a5,\hf87c,\h7c84,\hee77,\h7799,\hf67b,\h7b8d,\hfff2,\hf20d,\hd66b,\h6bbd,\hde6f,\h6fb1,\h91c5,\hc554,
    \h6030,\h3050,\h0201,\h0103,\hce67,\h67a9,\h562b,\h2b7d,\he7fe,\hfe19,\hb5d7,\hd762,\h4dab,\habe6,\hec76,\h769a,
    \h8fca,\hca45,\h1f82,\h829d,\h89c9,\hc940,\hfa7d,\h7d87,\heffa,\hfa15,\hb259,\h59eb,\h8e47,\h47c9,\hfbf0,\hf00b,
    \h41ad,\hadec,\hb3d4,\hd467,\h5fa2,\ha2fd,\h45af,\hafea,\h239c,\h9cbf,\h53a4,\ha4f7,\he472,\h7296,\h9bc0,\hc05b,
    \h75b7,\hb7c2,\he1fd,\hfd1c,\h3d93,\h93ae,\h4c26,\h266a,\h6c36,\h365a,\h7e3f,\h3f41,\hf5f7,\hf702,\h83cc,\hcc4f,
    \h6834,\h345c,\h51a5,\ha5f4,\hd1e5,\he534,\hf9f1,\hf108,\he271,\h7193,\habd8,\hd873,\h6231,\h3153,\h2a15,\h153f,
    \h0804,\h040c,\h95c7,\hc752,\h4623,\h2365,\h9dc3,\hc35e,\h3018,\h1828,\h3796,\h96a1,\h0a05,\h050f,\h2f9a,\h9ab5,
    \h0e07,\h0709,\h2412,\h1236,\h1b80,\h809b,\hdfe2,\he23d,\hcdeb,\heb26,\h4e27,\h2769,\h7fb2,\hb2cd,\hea75,\h759f,
    \h1209,\h091b,\h1d83,\h839e,\h582c,\h2c74,\h341a,\h1a2e,\h361b,\h1b2d,\hdc6e,\h6eb2,\hb45a,\h5aee,\h5ba0,\ha0fb,
    \ha452,\h52f6,\h763b,\h3b4d,\hb7d6,\hd661,\h7db3,\hb3ce,\h5229,\h297b,\hdde3,\he33e,\h5e2f,\h2f71,\h1384,\h8497,
    \ha653,\h53f5,\hb9d1,\hd168,\h0000,\h0000,\hc1ed,\hed2c,\h4020,\h2060,\he3fc,\hfc1f,\h79b1,\hb1c8,\hb65b,\h5bed,
    \hd46a,\h6abe,\h8dcb,\hcb46,\h67be,\hbed9,\h7239,\h394b,\h944a,\h4ade,\h984c,\h4cd4,\hb058,\h58e8,\h85cf,\hcf4a,
    \hbbd0,\hd06b,\hc5ef,\hef2a,\h4faa,\haae5,\hedfb,\hfb16,\h8643,\h43c5,\h9a4d,\h4dd7,\h6633,\h3355,\h1185,\h8594,
    \h8a45,\h45cf,\he9f9,\hf910,\h0402,\h0206,\hfe7f,\h7f81,\ha050,\h50f0,\h783c,\h3c44,\h259f,\h9fba,\h4ba8,\ha8e3,
    \ha251,\h51f3,\h5da3,\ha3fe,\h8040,\h40c0,\h058f,\h8f8a,\h3f92,\h92ad,\h219d,\h9dbc,\h7038,\h3848,\hf1f5,\hf504,
    \h63bc,\hbcdf,\h77b6,\hb6c1,\hafda,\hda75,\h4221,\h2163,\h2010,\h1030,\he5ff,\hff1a,\hfdf3,\hf30e,\hbfd2,\hd26d,
    \h81cd,\hcd4c,\h180c,\h0c14,\h2613,\h1335,\hc3ec,\hec2f,\hbe5f,\h5fe1,\h3597,\h97a2,\h8844,\h44cc,\h2e17,\h1739,
    \h93c4,\hc457,\h55a7,\ha7f2,\hfc7e,\h7e82,\h7a3d,\h3d47,\hc864,\h64ac,\hba5d,\h5de7,\h3219,\h192b,\he673,\h7395,
    \hc060,\h60a0,\h1981,\h8198,\h9e4f,\h4fd1,\ha3dc,\hdc7f,\h4422,\h2266,\h542a,\h2a7e,\h3b90,\h90ab,\h0b88,\h8883,
    \h8c46,\h46ca,\hc7ee,\hee29,\h6bb8,\hb8d3,\h2814,\h143c,\ha7de,\hde79,\hbc5e,\h5ee2,\h160b,\h0b1d,\haddb,\hdb76,
    \hdbe0,\he03b,\h6432,\h3256,\h743a,\h3a4e,\h140a,\h0a1e,\h9249,\h49db,\h0c06,\h060a,\h4824,\h246c,\hb85c,\h5ce4,
    \h9fc2,\hc25d,\hbdd3,\hd36e,\h43ac,\hacef,\hc462,\h62a6,\h3991,\h91a8,\h3195,\h95a4,\hd3e4,\he437,\hf279,\h798b,
    \hd5e7,\he732,\h8bc8,\hc843,\h6e37,\h3759,\hda6d,\h6db7,\h018d,\h8d8c,\hb1d5,\hd564,\h9c4e,\h4ed2,\h49a9,\ha9e0,
    \hd86c,\h6cb4,\hac56,\h56fa,\hf3f4,\hf407,\hcfea,\hea25,\hca65,\h65af,\hf47a,\h7a8e,\h47ae,\haee9,\h1008,\h0818,
    \h6fba,\hbad5,\hf078,\h7888,\h4a25,\h256f,\h5c2e,\h2e72,\h381c,\h1c24,\h57a6,\ha6f1,\h73b4,\hb4c7,\h97c6,\hc651,
    \hcbe8,\he823,\ha1dd,\hdd7c,\he874,\h749c,\h3e1f,\h1f21,\h964b,\h4bdd,\h61bd,\hbddc,\h0d8b,\h8b86,\h0f8a,\h8a85,
    \he070,\h7090,\h7c3e,\h3e42,\h71b5,\hb5c4,\hcc66,\h66aa,\h9048,\h48d8,\h0603,\h0305,\hf7f6,\hf601,\h1c0e,\h0e12,
    \hc261,\h61a3,\h6a35,\h355f,\hae57,\h57f9,\h69b9,\hb9d0,\h1786,\h8691,\h99c1,\hc158,\h3a1d,\h1d27,\h279e,\h9eb9,
    \hd9e1,\he138,\hebf8,\hf813,\h2b98,\h98b3,\h2211,\h1133,\hd269,\h69bb,\ha9d9,\hd970,\h078e,\h8e89,\h3394,\h94a7,
    \h2d9b,\h9bb6,\h3c1e,\h1e22,\h1587,\h8792,\hc9e9,\he920,\h87ce,\hce49,\haa55,\h55ff,\h5028,\h2878,\ha5df,\hdf7a,
    \h038c,\h8c8f,\h59a1,\ha1f8,\h0989,\h8980,\h1a0d,\h0d17,\h65bf,\hbfda,\hd7e6,\he631,\h8442,\h42c6,\hd068,\h68b8,
    \h8241,\h41c3,\h2999,\h99b0,\h5a2d,\h2d77,\h1e0f,\h0f11,\h7bb0,\hb0cb,\ha854,\h54fc,\h6dbb,\hbbd6,\h2c16,\h163a >>

T1_be == <<
    \ha5c6,\h6363,\h84f8,\h7c7c,\h99ee,\h7777,\h8df6,\h7b7b,\h0dff,\hf2f2,\hbdd6,\h6b6b,\hb1de,\h6f6f,\h5491,\hc5c5,
    \h5060,\h3030,\h0302,\h0101,\ha9ce,\h6767,\h7d56,\h2b2b,\h19e7,\hfefe,\h62b5,\hd7d7,\he64d,\habab,\h9aec,\h7676,
    \h458f,\hcaca,\h9d1f,\h8282,\h4089,\hc9c9,\h87fa,\h7d7d,\h15ef,\hfafa,\hebb2,\h5959,\hc98e,\h4747,\h0bfb,\hf0f0,
    \hec41,\hadad,\h67b3,\hd4d4,\hfd5f,\ha2a2,\hea45,\hafaf,\hbf23,\h9c9c,\hf753,\ha4a4,\h96e4,\h7272,\h5b9b,\hc0c0,
    \hc275,\hb7b7,\h1ce1,\hfdfd,\hae3d,\h9393,\h6a4c,\h2626,\h5a6c,\h3636,\h417e,\h3f3f,\h02f5,\hf7f7,\h4f83,\hcccc,
    \h5c68,\h3434,\hf451,\ha5a5,\h34d1,\he5e5,\h08f9,\hf1f1,\h93e2,\h7171,\h73ab,\hd8d8,\h5362,\h3131,\h3f2a,\h1515,
    \h0c08,\h0404,\h5295,\hc7c7,\h6546,\h2323,\h5e9d,\hc3c3,\h2830,\h1818,\ha137,\h9696,\h0f0a,\h0505,\hb52f,\h9a9a,
    \h090e,\h0707,\h3624,\h1212,\h9b1b,\h8080,\h3ddf,\he2e2,\h26cd,\hebeb,\h694e,\h2727,\hcd7f,\hb2b2,\h9fea,\h7575,
    \h1b12,\h0909,\h9e1d,\h8383,\h7458,\h2c2c,\h2e34,\h1a1a,\h2d36,\h1b1b,\hb2dc,\h6e6e,\heeb4,\h5a5a,\hfb5b,\ha0a0,
    \hf6a4,\h5252,\h4d76,\h3b3b,\h61b7,\hd6d6,\hce7d,\hb3b3,\h7b52,\h2929,\h3edd,\he3e3,\h715e,\h2f2f,\h9713,\h8484,
    \hf5a6,\h5353,\h68b9,\hd1d1,\h0000,\h0000,\h2cc1,\heded,\h6040,\h2020,\h1fe3,\hfcfc,\hc879,\hb1b1,\hedb6,\h5b5b,
    \hbed4,\h6a6a,\h468d,\hcbcb,\hd967,\hbebe,\h4b72,\h3939,\hde94,\h4a4a,\hd498,\h4c4c,\he8b0,\h5858,\h4a85,\hcfcf,
    \h6bbb,\hd0d0,\h2ac5,\hefef,\he54f,\haaaa,\h16ed,\hfbfb,\hc586,\h4343,\hd79a,\h4d4d,\h5566,\h3333,\h9411,\h8585,
    \hcf8a,\h4545,\h10e9,\hf9f9,\h0604,\h0202,\h81fe,\h7f7f,\hf0a0,\h5050,\h4478,\h3c3c,\hba25,\h9f9f,\he34b,\ha8a8,
    \hf3a2,\h5151,\hfe5d,\ha3a3,\hc080,\h4040,\h8a05,\h8f8f,\had3f,\h9292,\hbc21,\h9d9d,\h4870,\h3838,\h04f1,\hf5f5,
    \hdf63,\hbcbc,\hc177,\hb6b6,\h75af,\hdada,\h6342,\h2121,\h3020,\h1010,\h1ae5,\hffff,\h0efd,\hf3f3,\h6dbf,\hd2d2,
    \h4c81,\hcdcd,\h1418,\h0c0c,\h3526,\h1313,\h2fc3,\hecec,\he1be,\h5f5f,\ha235,\h9797,\hcc88,\h4444,\h392e,\h1717,
    \h5793,\hc4c4,\hf255,\ha7a7,\h82fc,\h7e7e,\h477a,\h3d3d,\hacc8,\h6464,\he7ba,\h5d5d,\h2b32,\h1919,\h95e6,\h7373,
    \ha0c0,\h6060,\h9819,\h8181,\hd19e,\h4f4f,\h7fa3,\hdcdc,\h6644,\h2222,\h7e54,\h2a2a,\hab3b,\h9090,\h830b,\h8888,
    \hca8c,\h4646,\h29c7,\heeee,\hd36b,\hb8b8,\h3c28,\h1414,\h79a7,\hdede,\he2bc,\h5e5e,\h1d16,\h0b0b,\h76ad,\hdbdb,
    \h3bdb,\he0e0,\h5664,\h3232,\h4e74,\h3a3a,\h1e14,\h0a0a,\hdb92,\h4949,\h0a0c,\h0606,\h6c48,\h2424,\he4b8,\h5c5c,
    \h5d9f,\hc2c2,\h6ebd,\hd3d3,\hef43,\hacac,\ha6c4,\h6262,\ha839,\h9191,\ha431,\h9595,\h37d3,\he4e4,\h8bf2,\h7979,
    \h32d5,\he7e7,\h438b,\hc8c8,\h596e,\h3737,\hb7da,\h6d6d,\h8c01,\h8d8d,\h64b1,\hd5d5,\hd29c,\h4e4e,\he049,\ha9a9,
    \hb4d8,\h6c6c,\hfaac,\h5656,\h07f3,\hf4f4,\h25cf,\heaea,\hafca,\h6565,\h8ef4,\h7a7a,\he947,\haeae,\h1810,\h0808,
    \hd56f,\hbaba,\h88f0,\h7878,\h6f4a,\h2525,\h725c,\h2e2e,\h2438,\h1c1c,\hf157,\ha6a6,\hc773,\hb4b4,\h5197,\hc6c6,
    \h23cb,\he8e8,\h7ca1,\hdddd,\h9ce8,\h7474,\h213e,\h1f1f,\hdd96,\h4b4b,\hdc61,\hbdbd,\h860d,\h8b8b,\h850f,\h8a8a,
    \h90e0,\h7070,\h427c,\h3e3e,\hc471,\hb5b5,\haacc,\h6666,\hd890,\h4848,\h0506,\h0303,\h01f7,\hf6f6,\h121c,\h0e0e,
    \ha3c2,\h6161,\h5f6a,\h3535,\hf9ae,\h5757,\hd069,\hb9b9,\h9117,\h8686,\h5899,\hc1c1,\h273a,\h1d1d,\hb927,\h9e9e,
    \h38d9,\he1e1,\h13eb,\hf8f8,\hb32b,\h9898,\h3322,\h1111,\hbbd2,\h6969,\h70a9,\hd9d9,\h8907,\h8e8e,\ha733,\h9494,
    \hb62d,\h9b9b,\h223c,\h1e1e,\h9215,\h8787,\h20c9,\he9e9,\h4987,\hcece,\hffaa,\h5555,\h7850,\h2828,\h7aa5,\hdfdf,
    \h8f03,\h8c8c,\hf859,\ha1a1,\h8009,\h8989,\h171a,\h0d0d,\hda65,\hbfbf,\h31d7,\he6e6,\hc684,\h4242,\hb8d0,\h6868,
    \hc382,\h4141,\hb029,\h9999,\h775a,\h2d2d,\h111e,\h0f0f,\hcb7b,\hb0b0,\hfca8,\h5454,\hd66d,\hbbbb,\h3a2c,\h1616 >>

T2_be == <<
    \h63a5,\hc663,\h7c84,\hf87c,\h7799,\hee77,\h7b8d,\hf67b,\hf20d,\hfff2,\h6bbd,\hd66b,\h6fb1,\hde6f,\hc554,\h91c5,
    \h3050,\h6030,\h0103,\h0201,\h67a9,\hce67,\h2b7d,\h562b,\hfe19,\he7fe,\hd762,\hb5d7,\habe6,\h4dab,\h769a,\hec76,
    \hca45,\h8fca,\h829d,\h1f82,\hc940,\h89c9,\h7d87,\hfa7d,\hfa15,\heffa,\h59eb,\hb259,\h47c9,\h8e47,\hf00b,\hfbf0,
    \hadec,\h41ad,\hd467,\hb3d4,\ha2fd,\h5fa2,\hafea,\h45af,\h9cbf,\h239c,\ha4f7,\h53a4,\h7296,\he472,\hc05b,\h9bc0,
    \hb7c2,\h75b7,\hfd1c,\he1fd,\h93ae,\h3d93,\h266a,\h4c26,\h365a,\h6c36,\h3f41,\h7e3f,\hf702,\hf5f7,\hcc4f,\h83cc,
    \h345c,\h6834,\ha5f4,\h51a5,\he534,\hd1e5,\hf108,\hf9f1,\h7193,\he271,\hd873,\habd8,\h3153,\h6231,\h153f,\h2a15,
    \h040c,\h0804,\hc752,\h95c7,\h2365,\h4623,\hc35e,\h9dc3,\h1828,\h3018,\h96a1,\h3796,\h050f,\h0a05,\h9ab5,\h2f9a,
    \h0709,\h0e07,\h1236,\h2412,\h809b,\h1b80,\he23d,\hdfe2,\heb26,\hcdeb,\h2769,\h4e27,\hb2cd,\h7fb2,\h759f,\hea75,
    \h091b,\h1209,\h839e,\h1d83,\h2c74,\h582c,\h1a2e,\h341a,\h1b2d,\h361b,\h6eb2,\hdc6e,\h5aee,\hb45a,\ha0fb,\h5ba0,
    \h52f6,\ha452,\h3b4d,\h763b,\hd661,\hb7d6,\hb3ce,\h7db3,\h297b,\h5229,\he33e,\hdde3,\h2f71,\h5e2f,\h8497,\h1384,
    \h53f5,\ha653,\hd168,\hb9d1,\h0000,\h0000,\hed2c,\hc1ed,\h2060,\h4020,\hfc1f,\he3fc,\hb1c8,\h79b1,\h5bed,\hb65b,
    \h6abe,\hd46a,\hcb46,\h8dcb,\hbed9,\h67be,\h394b,\h7239,\h4ade,\h944a,\h4cd4,\h984c,\h58e8,\hb058,\hcf4a,\h85cf,
    \hd06b,\hbbd0,\hef2a,\hc5ef,\haae5,\h4faa,\hfb16,\hedfb,\h43c5,\h8643,\h4dd7,\h9a4d,\h3355,\h6633,\h8594,\h1185,
    \h45cf,\h8a45,\hf910,\he9f9,\h0206,\h0402,\h7f81,\hfe7f,\h50f0,\ha050,\h3c44,\h783c,\h9fba,\h259f,\ha8e3,\h4ba8,
    \h51f3,\ha251,\ha3fe,\h5da3,\h40c0,\h8040,\h8f8a,\h058f,\h92ad,\h3f92,\h9dbc,\h219d,\h3848,\h7038,\hf504,\hf1f5,
    \hbcdf,\h63bc,\hb6c1,\h77b6,\hda75,\hafda,\h2163,\h4221,\h1030,\h2010,\hff1a,\he5ff,\hf30e,\hfdf3,\hd26d,\hbfd2,
    \hcd4c,\h81cd,\h0c14,\h180c,\h1335,\h2613,\hec2f,\hc3ec,\h5fe1,\hbe5f,\h97a2,\h3597,\h44cc,\h8844,\h1739,\h2e17,
    \hc457,\h93c4,\ha7f2,\h55a7,\h7e82,\hfc7e,\h3d47,\h7a3d,\h64ac,\hc864,\h5de7,\hba5d,\h192b,\h3219,\h7395,\he673,
    \h60a0,\hc060,\h8198,\h1981,\h4fd1,\h9e4f,\hdc7f,\ha3dc,\h2266,\h4422,\h2a7e,\h542a,\h90ab,\h3b90,\h8883,\h0b88,
    \h46ca,\h8c46,\hee29,\hc7ee,\hb8d3,\h6bb8,\h143c,\h2814,\hde79,\ha7de,\h5ee2,\hbc5e,\h0b1d,\h160b,\hdb76,\haddb,
    \he03b,\hdbe0,\h3256,\h6432,\h3a4e,\h743a,\h0a1e,\h140a,\h49db,\h9249,\h060a,\h0c06,\h246c,\h4824,\h5ce4,\hb85c,
    \hc25d,\h9fc2,\hd36e,\hbdd3,\hacef,\h43ac,\h62a6,\hc462,\h91a8,\h3991,\h95a4,\h3195,\he437,\hd3e4,\h798b,\hf279,
    \he732,\hd5e7,\hc843,\h8bc8,\h3759,\h6e37,\h6db7,\hda6d,\h8d8c,\h018d,\hd564,\hb1d5,\h4ed2,\h9c4e,\ha9e0,\h49a9,
    \h6cb4,\hd86c,\h56fa,\hac56,\hf407,\hf3f4,\hea25,\hcfea,\h65af,\hca65,\h7a8e,\hf47a,\haee9,\h47ae,\h0818,\h1008,
    \hbad5,\h6fba,\h7888,\hf078,\h256f,\h4a25,\h2e72,\h5c2e,\h1c24,\h381c,\ha6f1,\h57a6,\hb4c7,\h73b4,\hc651,\h97c6,
    \he823,\hcbe8,\hdd7c,\ha1dd,\h749c,\he874,\h1f21,\h3e1f,\h4bdd,\h964b,\hbddc,\h61bd,\h8b86,\h0d8b,\h8a85,\h0f8a,
    \h7090,\he070,\h3e42,\h7c3e,\hb5c4,\h71b5,\h66aa,\hcc66,\h48d8,\h9048,\h0305,\h0603,\hf601,\hf7f6,\h0e12,\h1c0e,
    \h61a3,\hc261,\h355f,\h6a35,\h57f9,\hae57,\hb9d0,\h69b9,\h8691,\h1786,\hc158,\h99c1,\h1d27,\h3a1d,\h9eb9,\h279e,
    \he138,\hd9e1,\hf813,\hebf8,\h98b3,\h2b98,\h1133,\h2211,\h69bb,\hd269,\hd970,\ha9d9,\h8e89,\h078e,\h94a7,\h3394,
    \h9bb6,\h2d9b,\h1e22,\h3c1e,\h8792,\h1587,\he920,\hc9e9,\hce49,\h87ce,\h55ff,\haa55,\h2878,\h5028,\hdf7a,\ha5df,
    \h8c8f,\h038c,\ha1f8,\h59a1,\h8980,\h0989,\h0d17,\h1a0d,\hbfda,\h65bf,\he631,\hd7e6,\h42c6,\h8442,\h68b8,\hd068,
    \h41c3,\h8241,\h99b0,\h2999,\h2d77,\h5a2d,\h0f11,\h1e0f,\hb0cb,\h7bb0,\h54fc,\ha854,\hbbd6,\h6dbb,\h163a,\h2c16 >>

T3_be == <<
    \h6363,\ha5c6,\h7c7c,\h84f8,\h7777,\h99ee,\h7b7b,\h8df6,\hf2f2,\h0dff,\h6b6b,\hbdd6,\h6f6f,\hb1de,\hc5c5,\h5491,
    \h3030,\h5060,\h0101,\h0302,\h6767,\ha9ce,\h2b2b,\h7d56,\hfefe,\h19e7,\hd7d7,\h62b5,\habab,\he64d,\h7676,\h9aec,
    \hcaca,\h458f,\h8282,\h9d1f,\hc9c9,\h4089,\h7d7d,\h87fa,\hfafa,\h15ef,\h5959,\hebb2,\h4747,\hc98e,\hf0f0,\h0bfb,
    \hadad,\hec41,\hd4d4,\h67b3,\ha2a2,\hfd5f,\hafaf,\hea45,\h9c9c,\hbf23,\ha4a4,\hf753,\h7272,\h96e4,\hc0c0,\h5b9b,
    \hb7b7,\hc275,\hfdfd,\h1ce1,\h9393,\hae3d,\h2626,\h6a4c,\h3636,\h5a6c,\h3f3f,\h417e,\hf7f7,\h02f5,\hcccc,\h4f83,
    \h3434,\h5c68,\ha5a5,\hf451,\he5e5,\h34d1,\hf1f1,\h08f9,\h7171,\h93e2,\hd8d8,\h73ab,\h3131,\h5362,\h1515,\h3f2a,
    \h0404,\h0c08,\hc7c7,\h5295,\h2323,\h6546,\hc3c3,\h5e9d,\h1818,\h2830,\h9696,\ha137,\h0505,\h0f0a,\h9a9a,\hb52f,
    \h0707,\h090e,\h1212,\h3624,\h8080,\h9b1b,\he2e2,\h3ddf,\hebeb,\h26cd,\h2727,\h694e,\hb2b2,\hcd7f,\h7575,\h9fea,
    \h0909,\h1b12,\h8383,\h9e1d,\h2c2c,\h7458,\h1a1a,\h2e34,\h1b1b,\h2d36,\h6e6e,\hb2dc,\h5a5a,\heeb4,\ha0a0,\hfb5b,
    \h5252,\hf6a4,\h3b3b,\h4d76,\hd6d6,\h61b7,\hb3b3,\hce7d,\h2929,\h7b52,\he3e3,\h3edd,\h2f2f,\h715e,\h8484,\h9713,
    \h5353,\hf5a6,\hd1d1,\h68b9,\h0000,\h0000,\heded,\h2cc1,\h2020,\h6040,\hfcfc,\h1fe3,\hb1b1,\hc879,\h5b5b,\hedb6,
    \h6a6a,\hbed4,\hcbcb,\h468d,\hbebe,\hd967,\h3939,\h4b72,\h4a4a,\hde94,\h4c4c,\hd498,\h5858,\he8b0,\hcfcf,\h4a85,
    \hd0d0,\h6bbb,\hefef,\h2ac5,\haaaa,\he54f,\hfbfb,\h16ed,\h4343,\hc586,\h4d4d,\hd79a,\h3333,\h5566,\h8585,\h9411,
    \h4545,\hcf8a,\hf9f9,\h10e9,\h0202,\h0604,\h7f7f,\h81fe,\h5050,\hf0a0,\h3c3c,\h4478,\h9f9f,\hba25,\ha8a8,\he34b,
    \h5151,\hf3a2,\ha3a3,\hfe5d,\h4040,\hc080,\h8f8f,\h8a05,\h9292,\had3f,\h9d9d,\hbc21,\h3838,\h4870,\hf5f5,\h04f1,
    \hbcbc,\hdf63,\hb6b6,\hc177,\hdada,\h75af,\h2121,\h6342,\h1010,\h3020,\hffff,\h1ae5,\hf3f3,\h0efd,\hd2d2,\h6dbf,
    \hcdcd,\h4c81,\h0c0c,\h1418,\h1313,\h3526,\hecec,\h2fc3,\h5f5f,\he1be,\h9797,\ha235,\h4444,\hcc88,\h1717,\h392e,
    \hc4c4,\h5793,\ha7a7,\hf255,\h7e7e,\h82fc,\h3d3d,\h477a,\h6464,\hacc8,\h5d5d,\he7ba,\h1919,\h2b32,\h7373,\h95e6,
    \h6060,\ha0c0,\h8181,\h9819,\h4f4f,\hd19e,\hdcdc,\h7fa3,\h2222,\h6644,\h2a2a,\h7e54,\h9090,\hab3b,\h8888,\h830b,
    \h4646,\hca8c,\heeee,\h29c7,\hb8b8,\hd36b,\h1414,\h3c28,\hdede,\h79a7,\h5e5e,\he2bc,\h0b0b,\h1d16,\hdbdb,\h76ad,
    \he0e0,\h3bdb,\h3232,\h5664,\h3a3a,\h4e74,\h0a0a,\h1e14,\h4949,\hdb92,\h0606,\h0a0c,\h2424,\h6c48,\h5c5c,\he4b8,
    \hc2c2,\h5d9f,\hd3d3,\h6ebd,\hacac,\hef43,\h6262,\ha6c4,\h9191,\ha839,\h9595,\ha431,\he4e4,\h37d3,\h7979,\h8bf2,
    \he7e7,\h32d5,\hc8c8,\h438b,\h3737,\h596e,\h6d6d,\hb7da,\h8d8d,\h8c01,\hd5d5,\h64b1,\h4e4e,\hd29c,\ha9a9,\he049,
    \h6c6c,\hb4d8,\h5656,\hfaac,\hf4f4,\h07f3,\heaea,\h25cf,\h6565,\hafca,\h7a7a,\h8ef4,\haeae,\he947,\h0808,\h1810,
    \hbaba,\hd56f,\h7878,\h88f0,\h2525,\h6f4a,\h2e2e,\h725c,\h1c1c,\h2438,\ha6a6,\hf157,\hb4b4,\hc773,\hc6c6,\h5197,
    \he8e8,\h23cb,\hdddd,\h7ca1,\h7474,\h9ce8,\h1f1f,\h213e,\h4b4b,\hdd96,\hbdbd,\hdc61,\h8b8b,\h860d,\h8a8a,\h850f,
    \h7070,\h90e0,\h3e3e,\h427c,\hb5b5,\hc471,\h6666,\haacc,\h4848,\hd890,\h0303,\h0506,\hf6f6,\h01f7,\h0e0e,\h121c,
    \h6161,\ha3c2,\h3535,\h5f6a,\h5757,\hf9ae,\hb9b9,\hd069,\h8686,\h9117,\hc1c1,\h5899,\h1d1d,\h273a,\h9e9e,\hb927,
    \he1e1,\h38d9,\hf8f8,\h13eb,\h9898,\hb32b,\h1111,\h3322,\h6969,\hbbd2,\hd9d9,\h70a9,\h8e8e,\h8907,\h9494,\ha733,
    \h9b9b,\hb62d,\h1e1e,\h223c,\h8787,\h9215,\he9e9,\h20c9,\hcece,\h4987,\h5555,\hffaa,\h2828,\h7850,\hdfdf,\h7aa5,
    \h8c8c,\h8f03,\ha1a1,\hf859,\h8989,\h8009,\h0d0d,\h171a,\hbfbf,\hda65,\he6e6,\h31d7,\h4242,\hc684,\h6868,\hb8d0,
    \h4141,\hc382,\h9999,\hb029,\h2d2d,\h775a,\h0f0f,\h111e,\hb0b0,\hcb7b,\h5454,\hfca8,\hbbbb,\hd66d,\h1616,\h3a2c >>

U0_be == <<
    \h51f4,\ha750,\h7e41,\h6553,\h1a17,\ha4c3,\h3a27,\h5e96,\h3bab,\h6bcb,\h1f9d,\h45f1,\hacfa,\h58ab,\h4be3,\h0393,
    \h2030,\hfa55,\had76,\h6df6,\h88cc,\h7691,\hf502,\h4c25,\h4fe5,\hd7fc,\hc52a,\hcbd7,\h2635,\h4480,\hb562,\ha38f,
    \hdeb1,\h5a49,\h25ba,\h1b67,\h45ea,\h0e98,\h5dfe,\hc0e1,\hc32f,\h7502,\h814c,\hf012,\h8d46,\h97a3,\h6bd3,\hf9c6,
    \h038f,\h5fe7,\h1592,\h9c95,\hbf6d,\h7aeb,\h9552,\h59da,\hd4be,\h832d,\h5874,\h21d3,\h49e0,\h6929,\h8ec9,\hc844,
    \h75c2,\h896a,\hf48e,\h7978,\h9958,\h3e6b,\h27b9,\h71dd,\hbee1,\h4fb6,\hf088,\had17,\hc920,\hac66,\h7dce,\h3ab4,
    \h63df,\h4a18,\he51a,\h3182,\h9751,\h3360,\h6253,\h7f45,\hb164,\h77e0,\hbb6b,\hae84,\hfe81,\ha01c,\hf908,\h2b94,
    \h7048,\h6858,\h8f45,\hfd19,\h94de,\h6c87,\h527b,\hf8b7,\hab73,\hd323,\h724b,\h02e2,\he31f,\h8f57,\h6655,\hab2a,
    \hb2eb,\h2807,\h2fb5,\hc203,\h86c5,\h7b9a,\hd337,\h08a5,\h3028,\h87f2,\h23bf,\ha5b2,\h0203,\h6aba,\hed16,\h825c,
    \h8acf,\h1c2b,\ha779,\hb492,\hf307,\hf2f0,\h4e69,\he2a1,\h65da,\hf4cd,\h0605,\hbed5,\hd134,\h621f,\hc4a6,\hfe8a,
    \h342e,\h539d,\ha2f3,\h55a0,\h058a,\he132,\ha4f6,\heb75,\h0b83,\hec39,\h4060,\hefaa,\h5e71,\h9f06,\hbd6e,\h1051,
    \h3e21,\h8af9,\h96dd,\h063d,\hdd3e,\h05ae,\h4de6,\hbd46,\h9154,\h8db5,\h71c4,\h5d05,\h0406,\hd46f,\h6050,\h15ff,
    \h1998,\hfb24,\hd6bd,\he997,\h8940,\h43cc,\h67d9,\h9e77,\hb0e8,\h42bd,\h0789,\h8b88,\he719,\h5b38,\h79c8,\heedb,
    \ha17c,\h0a47,\h7c42,\h0fe9,\hf884,\h1ec9,\h0000,\h0000,\h0980,\h8683,\h322b,\hed48,\h1e11,\h70ac,\h6c5a,\h724e,
    \hfd0e,\hfffb,\h0f85,\h3856,\h3dae,\hd51e,\h362d,\h3927,\h0a0f,\hd964,\h685c,\ha621,\h9b5b,\h54d1,\h2436,\h2e3a,
    \h0c0a,\h67b1,\h9357,\he70f,\hb4ee,\h96d2,\h1b9b,\h919e,\h80c0,\hc54f,\h61dc,\h20a2,\h5a77,\h4b69,\h1c12,\h1a16,
    \he293,\hba0a,\hc0a0,\h2ae5,\h3c22,\he043,\h121b,\h171d,\h0e09,\h0d0b,\hf28b,\hc7ad,\h2db6,\ha8b9,\h141e,\ha9c8,
    \h57f1,\h1985,\haf75,\h074c,\hee99,\hddbb,\ha37f,\h60fd,\hf701,\h269f,\h5c72,\hf5bc,\h4466,\h3bc5,\h5bfb,\h7e34,
    \h8b43,\h2976,\hcb23,\hc6dc,\hb6ed,\hfc68,\hb8e4,\hf163,\hd731,\hdcca,\h4263,\h8510,\h1397,\h2240,\h84c6,\h1120,
    \h854a,\h247d,\hd2bb,\h3df8,\haef9,\h3211,\hc729,\ha16d,\h1d9e,\h2f4b,\hdcb2,\h30f3,\h0d86,\h52ec,\h77c1,\he3d0,
    \h2bb3,\h166c,\ha970,\hb999,\h1194,\h48fa,\h47e9,\h6422,\ha8fc,\h8cc4,\ha0f0,\h3f1a,\h567d,\h2cd8,\h2233,\h90ef,
    \h8749,\h4ec7,\hd938,\hd1c1,\h8cca,\ha2fe,\h98d4,\h0b36,\ha6f5,\h81cf,\ha57a,\hde28,\hdab7,\h8e26,\h3fad,\hbfa4,
    \h2c3a,\h9de4,\h5078,\h920d,\h6a5f,\hcc9b,\h547e,\h4662,\hf68d,\h13c2,\h90d8,\hb8e8,\h2e39,\hf75e,\h82c3,\haff5,
    \h9f5d,\h80be,\h69d0,\h937c,\h6fd5,\h2da9,\hcf25,\h12b3,\hc8ac,\h993b,\h1018,\h7da7,\he89c,\h636e,\hdb3b,\hbb7b,
    \hcd26,\h7809,\h6e59,\h18f4,\hec9a,\hb701,\h834f,\h9aa8,\he695,\h6e65,\haaff,\he67e,\h21bc,\hcf08,\hef15,\he8e6,
    \hbae7,\h9bd9,\h4a6f,\h36ce,\hea9f,\h09d4,\h29b0,\h7cd6,\h31a4,\hb2af,\h2a3f,\h2331,\hc6a5,\h9430,\h35a2,\h66c0,
    \h744e,\hbc37,\hfc82,\hcaa6,\he090,\hd0b0,\h33a7,\hd815,\hf104,\h984a,\h41ec,\hdaf7,\h7fcd,\h500e,\h1791,\hf62f,
    \h764d,\hd68d,\h43ef,\hb04d,\hccaa,\h4d54,\he496,\h04df,\h9ed1,\hb5e3,\h4c6a,\h881b,\hc12c,\h1fb8,\h4665,\h517f,
    \h9d5e,\hea04,\h018c,\h355d,\hfa87,\h7473,\hfb0b,\h412e,\hb367,\h1d5a,\h92db,\hd252,\he910,\h5633,\h6dd6,\h4713,
    \h9ad7,\h618c,\h37a1,\h0c7a,\h59f8,\h148e,\heb13,\h3c89,\hcea9,\h27ee,\hb761,\hc935,\he11c,\he5ed,\h7a47,\hb13c,
    \h9cd2,\hdf59,\h55f2,\h733f,\h1814,\hce79,\h73c7,\h37bf,\h53f7,\hcdea,\h5ffd,\haa5b,\hdf3d,\h6f14,\h7844,\hdb86,
    \hcaaf,\hf381,\hb968,\hc43e,\h3824,\h342c,\hc2a3,\h405f,\h161d,\hc372,\hbce2,\h250c,\h283c,\h498b,\hff0d,\h9541,
    \h39a8,\h0171,\h080c,\hb3de,\hd8b4,\he49c,\h6456,\hc190,\h7bcb,\h8461,\hd532,\hb670,\h486c,\h5c74,\hd0b8,\h5742 >>

U1_be == <<
    \h5051,\hf4a7,\h537e,\h4165,\hc31a,\h17a4,\h963a,\h275e,\hcb3b,\hab6b,\hf11f,\h9d45,\habac,\hfa58,\h934b,\he303,
    \h5520,\h30fa,\hf6ad,\h766d,\h9188,\hcc76,\h25f5,\h024c,\hfc4f,\he5d7,\hd7c5,\h2acb,\h8026,\h3544,\h8fb5,\h62a3,
    \h49de,\hb15a,\h6725,\hba1b,\h9845,\hea0e,\he15d,\hfec0,\h02c3,\h2f75,\h1281,\h4cf0,\ha38d,\h4697,\hc66b,\hd3f9,
    \he703,\h8f5f,\h9515,\h929c,\hebbf,\h6d7a,\hda95,\h5259,\h2dd4,\hbe83,\hd358,\h7421,\h2949,\he069,\h448e,\hc9c8,
    \h6a75,\hc289,\h78f4,\h8e79,\h6b99,\h583e,\hdd27,\hb971,\hb6be,\he14f,\h17f0,\h88ad,\h66c9,\h20ac,\hb47d,\hce3a,
    \h1863,\hdf4a,\h82e5,\h1a31,\h6097,\h5133,\h4562,\h537f,\he0b1,\h6477,\h84bb,\h6bae,\h1cfe,\h81a0,\h94f9,\h082b,
    \h5870,\h4868,\h198f,\h45fd,\h8794,\hde6c,\hb752,\h7bf8,\h23ab,\h73d3,\he272,\h4b02,\h57e3,\h1f8f,\h2a66,\h55ab,
    \h07b2,\heb28,\h032f,\hb5c2,\h9a86,\hc57b,\ha5d3,\h3708,\hf230,\h2887,\hb223,\hbfa5,\hba02,\h036a,\h5ced,\h1682,
    \h2b8a,\hcf1c,\h92a7,\h79b4,\hf0f3,\h07f2,\ha14e,\h69e2,\hcd65,\hdaf4,\hd506,\h05be,\h1fd1,\h3462,\h8ac4,\ha6fe,
    \h9d34,\h2e53,\ha0a2,\hf355,\h3205,\h8ae1,\h75a4,\hf6eb,\h390b,\h83ec,\haa40,\h60ef,\h065e,\h719f,\h51bd,\h6e10,
    \hf93e,\h218a,\h3d96,\hdd06,\haedd,\h3e05,\h464d,\he6bd,\hb591,\h548d,\h0571,\hc45d,\h6f04,\h06d4,\hff60,\h5015,
    \h2419,\h98fb,\h97d6,\hbde9,\hcc89,\h4043,\h7767,\hd99e,\hbdb0,\he842,\h8807,\h898b,\h38e7,\h195b,\hdb79,\hc8ee,
    \h47a1,\h7c0a,\he97c,\h420f,\hc9f8,\h841e,\h0000,\h0000,\h8309,\h8086,\h4832,\h2bed,\hac1e,\h1170,\h4e6c,\h5a72,
    \hfbfd,\h0eff,\h560f,\h8538,\h1e3d,\haed5,\h2736,\h2d39,\h640a,\h0fd9,\h2168,\h5ca6,\hd19b,\h5b54,\h3a24,\h362e,
    \hb10c,\h0a67,\h0f93,\h57e7,\hd2b4,\hee96,\h9e1b,\h9b91,\h4f80,\hc0c5,\ha261,\hdc20,\h695a,\h774b,\h161c,\h121a,
    \h0ae2,\h93ba,\he5c0,\ha02a,\h433c,\h22e0,\h1d12,\h1b17,\h0b0e,\h090d,\hadf2,\h8bc7,\hb92d,\hb6a8,\hc814,\h1ea9,
    \h8557,\hf119,\h4caf,\h7507,\hbbee,\h99dd,\hfda3,\h7f60,\h9ff7,\h0126,\hbc5c,\h72f5,\hc544,\h663b,\h345b,\hfb7e,
    \h768b,\h4329,\hdccb,\h23c6,\h68b6,\hedfc,\h63b8,\he4f1,\hcad7,\h31dc,\h1042,\h6385,\h4013,\h9722,\h2084,\hc611,
    \h7d85,\h4a24,\hf8d2,\hbb3d,\h11ae,\hf932,\h6dc7,\h29a1,\h4b1d,\h9e2f,\hf3dc,\hb230,\hec0d,\h8652,\hd077,\hc1e3,
    \h6c2b,\hb316,\h99a9,\h70b9,\hfa11,\h9448,\h2247,\he964,\hc4a8,\hfc8c,\h1aa0,\hf03f,\hd856,\h7d2c,\hef22,\h3390,
    \hc787,\h494e,\hc1d9,\h38d1,\hfe8c,\hcaa2,\h3698,\hd40b,\hcfa6,\hf581,\h28a5,\h7ade,\h26da,\hb78e,\ha43f,\hadbf,
    \he42c,\h3a9d,\h0d50,\h7892,\h9b6a,\h5fcc,\h6254,\h7e46,\hc2f6,\h8d13,\he890,\hd8b8,\h5e2e,\h39f7,\hf582,\hc3af,
    \hbe9f,\h5d80,\h7c69,\hd093,\ha96f,\hd52d,\hb3cf,\h2512,\h3bc8,\hac99,\ha710,\h187d,\h6ee8,\h9c63,\h7bdb,\h3bbb,
    \h09cd,\h2678,\hf46e,\h5918,\h01ec,\h9ab7,\ha883,\h4f9a,\h65e6,\h956e,\h7eaa,\hffe6,\h0821,\hbccf,\he6ef,\h15e8,
    \hd9ba,\he79b,\hce4a,\h6f36,\hd4ea,\h9f09,\hd629,\hb07c,\haf31,\ha4b2,\h312a,\h3f23,\h30c6,\ha594,\hc035,\ha266,
    \h3774,\h4ebc,\ha6fc,\h82ca,\hb0e0,\h90d0,\h1533,\ha7d8,\h4af1,\h0498,\hf741,\hecda,\h0e7f,\hcd50,\h2f17,\h91f6,
    \h8d76,\h4dd6,\h4d43,\hefb0,\h54cc,\haa4d,\hdfe4,\h9604,\he39e,\hd1b5,\h1b4c,\h6a88,\hb8c1,\h2c1f,\h7f46,\h6551,
    \h049d,\h5eea,\h5d01,\h8c35,\h73fa,\h8774,\h2efb,\h0b41,\h5ab3,\h671d,\h5292,\hdbd2,\h33e9,\h1056,\h136d,\hd647,
    \h8c9a,\hd761,\h7a37,\ha10c,\h8e59,\hf814,\h89eb,\h133c,\heece,\ha927,\h35b7,\h61c9,\hede1,\h1ce5,\h3c7a,\h47b1,
    \h599c,\hd2df,\h3f55,\hf273,\h7918,\h14ce,\hbf73,\hc737,\hea53,\hf7cd,\h5b5f,\hfdaa,\h14df,\h3d6f,\h8678,\h44db,
    \h81ca,\haff3,\h3eb9,\h68c4,\h2c38,\h2434,\h5fc2,\ha340,\h7216,\h1dc3,\h0cbc,\he225,\h8b28,\h3c49,\h41ff,\h0d95,
    \h7139,\ha801,\hde08,\h0cb3,\h9cd8,\hb4e4,\h9064,\h56c1,\h617b,\hcb84,\h70d5,\h32b6,\h7448,\h6c5c,\h42d0,\hb857 >>

U2_be == <<
    \ha750,\h51f4,\h6553,\h7e41,\ha4c3,\h1a17,\h5e96,\h3a27,\h6bcb,\h3bab,\h45f1,\h1f9d,\h58ab,\hacfa,\h0393,\h4be3,
    \hfa55,\h2030,\h6df6,\had76,\h7691,\h88cc,\h4c25,\hf502,\hd7fc,\h4fe5,\hcbd7,\hc52a,\h4480,\h2635,\ha38f,\hb562,
    \h5a49,\hdeb1,\h1b67,\h25ba,\h0e98,\h45ea,\hc0e1,\h5dfe,\h7502,\hc32f,\hf012,\h814c,\h97a3,\h8d46,\hf9c6,\h6bd3,
    \h5fe7,\h038f,\h9c95,\h1592,\h7aeb,\hbf6d,\h59da,\h9552,\h832d,\hd4be,\h21d3,\h5874,\h6929,\h49e0,\hc844,\h8ec9,
    \h896a,\h75c2,\h7978,\hf48e,\h3e6b,\h9958,\h71dd,\h27b9,\h4fb6,\hbee1,\had17,\hf088,\hac66,\hc920,\h3ab4,\h7dce,
    \h4a18,\h63df,\h3182,\he51a,\h3360,\h9751,\h7f45,\h6253,\h77e0,\hb164,\hae84,\hbb6b,\ha01c,\hfe81,\h2b94,\hf908,
    \h6858,\h7048,\hfd19,\h8f45,\h6c87,\h94de,\hf8b7,\h527b,\hd323,\hab73,\h02e2,\h724b,\h8f57,\he31f,\hab2a,\h6655,
    \h2807,\hb2eb,\hc203,\h2fb5,\h7b9a,\h86c5,\h08a5,\hd337,\h87f2,\h3028,\ha5b2,\h23bf,\h6aba,\h0203,\h825c,\hed16,
    \h1c2b,\h8acf,\hb492,\ha779,\hf2f0,\hf307,\he2a1,\h4e69,\hf4cd,\h65da,\hbed5,\h0605,\h621f,\hd134,\hfe8a,\hc4a6,
    \h539d,\h342e,\h55a0,\ha2f3,\he132,\h058a,\heb75,\ha4f6,\hec39,\h0b83,\hefaa,\h4060,\h9f06,\h5e71,\h1051,\hbd6e,
    \h8af9,\h3e21,\h063d,\h96dd,\h05ae,\hdd3e,\hbd46,\h4de6,\h8db5,\h9154,\h5d05,\h71c4,\hd46f,\h0406,\h15ff,\h6050,
    \hfb24,\h1998,\he997,\hd6bd,\h43cc,\h8940,\h9e77,\h67d9,\h42bd,\hb0e8,\h8b88,\h0789,\h5b38,\he719,\heedb,\h79c8,
    \h0a47,\ha17c,\h0fe9,\h7c42,\h1ec9,\hf884,\h0000,\h0000,\h8683,\h0980,\hed48,\h322b,\h70ac,\h1e11,\h724e,\h6c5a,
    \hfffb,\hfd0e,\h3856,\h0f85,\hd51e,\h3dae,\h3927,\h362d,\hd964,\h0a0f,\ha621,\h685c,\h54d1,\h9b5b,\h2e3a,\h2436,
    \h67b1,\h0c0a,\he70f,\h9357,\h96d2,\hb4ee,\h919e,\h1b9b,\hc54f,\h80c0,\h20a2,\h61dc,\h4b69,\h5a77,\h1a16,\h1c12,
    \hba0a,\he293,\h2ae5,\hc0a0,\he043,\h3c22,\h171d,\h121b,\h0d0b,\h0e09,\hc7ad,\hf28b,\ha8b9,\h2db6,\ha9c8,\h141e,
    \h1985,\h57f1,\h074c,\haf75,\hddbb,\hee99,\h60fd,\ha37f,\h269f,\hf701,\hf5bc,\h5c72,\h3bc5,\h4466,\h7e34,\h5bfb,
    \h2976,\h8b43,\hc6dc,\hcb23,\hfc68,\hb6ed,\hf163,\hb8e4,\hdcca,\hd731,\h8510,\h4263,\h2240,\h1397,\h1120,\h84c6,
    \h247d,\h854a,\h3df8,\hd2bb,\h3211,\haef9,\ha16d,\hc729,\h2f4b,\h1d9e,\h30f3,\hdcb2,\h52ec,\h0d86,\he3d0,\h77c1,
    \h166c,\h2bb3,\hb999,\ha970,\h48fa,\h1194,\h6422,\h47e9,\h8cc4,\ha8fc,\h3f1a,\ha0f0,\h2cd8,\h567d,\h90ef,\h2233,
    \h4ec7,\h8749,\hd1c1,\hd938,\ha2fe,\h8cca,\h0b36,\h98d4,\h81cf,\ha6f5,\hde28,\ha57a,\h8e26,\hdab7,\hbfa4,\h3fad,
    \h9de4,\h2c3a,\h920d,\h5078,\hcc9b,\h6a5f,\h4662,\h547e,\h13c2,\hf68d,\hb8e8,\h90d8,\hf75e,\h2e39,\haff5,\h82c3,
    \h80be,\h9f5d,\h937c,\h69d0,\h2da9,\h6fd5,\h12b3,\hcf25,\h993b,\hc8ac,\h7da7,\h1018,\h636e,\he89c,\hbb7b,\hdb3b,
    \h7809,\hcd26,\h18f4,\h6e59,\hb701,\hec9a,\h9aa8,\h834f,\h6e65,\he695,\he67e,\haaff,\hcf08,\h21bc,\he8e6,\hef15,
    \h9bd9,\hbae7,\h36ce,\h4a6f,\h09d4,\hea9f,\h7cd6,\h29b0,\hb2af,\h31a4,\h2331,\h2a3f,\h9430,\hc6a5,\h66c0,\h35a2,
    \hbc37,\h744e,\hcaa6,\hfc82,\hd0b0,\he090,\hd815,\h33a7,\h984a,\hf104,\hdaf7,\h41ec,\h500e,\h7fcd,\hf62f,\h1791,
    \hd68d,\h764d,\hb04d,\h43ef,\h4d54,\hccaa,\h04df,\he496,\hb5e3,\h9ed1,\h881b,\h4c6a,\h1fb8,\hc12c,\h517f,\h4665,
    \hea04,\h9d5e,\h355d,\h018c,\h7473,\hfa87,\h412e,\hfb0b,\h1d5a,\hb367,\hd252,\h92db,\h5633,\he910,\h4713,\h6dd6,
    \h618c,\h9ad7,\h0c7a,\h37a1,\h148e,\h59f8,\h3c89,\heb13,\h27ee,\hcea9,\hc935,\hb761,\he5ed,\he11c,\hb13c,\h7a47,
    \hdf59,\h9cd2,\h733f,\h55f2,\hce79,\h1814,\h37bf,\h73c7,\hcdea,\h53f7,\haa5b,\h5ffd,\h6f14,\hdf3d,\hdb86,\h7844,
    \hf381,\hcaaf,\hc43e,\hb968,\h342c,\h3824,\h405f,\hc2a3,\hc372,\h161d,\h250c,\hbce2,\h498b,\h283c,\h9541,\hff0d,
    \h0171,\h39a8,\hb3de,\h080c,\he49c,\hd8b4,\hc190,\h6456,\h8461,\h7bcb,\hb670,\hd532,\h5c74,\h486c,\h5742,\hd0b8 >>

U3_be == <<
    \hf4a7,\h5051,\h4165,\h537e,\h17a4,\hc31a,\h275e,\h963a,\hab6b,\hcb3b,\h9d45,\hf11f,\hfa58,\habac,\he303,\h934b,
    \h30fa,\h5520,\h766d,\hf6ad,\hcc76,\h9188,\h024c,\h25f5,\he5d7,\hfc4f,\h2acb,\hd7c5,\h3544,\h8026,\h62a3,\h8fb5,
    \hb15a,\h49de,\hba1b,\h6725,\hea0e,\h9845,\hfec0,\he15d,\h2f75,\h02c3,\h4cf0,\h1281,\h4697,\ha38d,\hd3f9,\hc66b,
    \h8f5f,\he703,\h929c,\h9515,\h6d7a,\hebbf,\h5259,\hda95,\hbe83,\h2dd4,\h7421,\hd358,\he069,\h2949,\hc9c8,\h448e,
    \hc289,\h6a75,\h8e79,\h78f4,\h583e,\h6b99,\hb971,\hdd27,\he14f,\hb6be,\h88ad,\h17f0,\h20ac,\h66c9,\hce3a,\hb47d,
    \hdf4a,\h1863,\h1a31,\h82e5,\h5133,\h6097,\h537f,\h4562,\h6477,\he0b1,\h6bae,\h84bb,\h81a0,\h1cfe,\h082b,\h94f9,
    \h4868,\h5870,\h45fd,\h198f,\hde6c,\h8794,\h7bf8,\hb752,\h73d3,\h23ab,\h4b02,\he272,\h1f8f,\h57e3,\h55ab,\h2a66,
    \heb28,\h07b2,\hb5c2,\h032f,\hc57b,\h9a86,\h3708,\ha5d3,\h2887,\hf230,\hbfa5,\hb223,\h036a,\hba02,\h1682,\h5ced,
    \hcf1c,\h2b8a,\h79b4,\h92a7,\h07f2,\hf0f3,\h69e2,\ha14e,\hdaf4,\hcd65,\h05be,\hd506,\h3462,\h1fd1,\ha6fe,\h8ac4,
    \h2e53,\h9d34,\hf355,\ha0a2,\h8ae1,\h3205,\hf6eb,\h75a4,\h83ec,\h390b,\h60ef,\haa40,\h719f,\h065e,\h6e10,\h51bd,
    \h218a,\hf93e,\hdd06,\h3d96,\h3e05,\haedd,\he6bd,\h464d,\h548d,\hb591,\hc45d,\h0571,\h06d4,\h6f04,\h5015,\hff60,
    \h98fb,\h2419,\hbde9,\h97d6,\h4043,\hcc89,\hd99e,\h7767,\he842,\hbdb0,\h898b,\h8807,\h195b,\h38e7,\hc8ee,\hdb79,
    \h7c0a,\h47a1,\h420f,\he97c,\h841e,\hc9f8,\h0000,\h0000,\h8086,\h8309,\h2bed,\h4832,\h1170,\hac1e,\h5a72,\h4e6c,
    \h0eff,\hfbfd,\h8538,\h560f,\haed5,\h1e3d,\h2d39,\h2736,\h0fd9,\h640a,\h5ca6,\h2168,\h5b54,\hd19b,\h362e,\h3a24,
    \h0a67,\hb10c,\h57e7,\h0f93,\hee96,\hd2b4,\h9b91,\h9e1b,\hc0c5,\h4f80,\hdc20,\ha261,\h774b,\h695a,\h121a,\h161c,
    \h93ba,\h0ae2,\ha02a,\he5c0,\h22e0,\h433c,\h1b17,\h1d12,\h090d,\h0b0e,\h8bc7,\hadf2,\hb6a8,\hb92d,\h1ea9,\hc814,
    \hf119,\h8557,\h7507,\h4caf,\h99dd,\hbbee,\h7f60,\hfda3,\h0126,\h9ff7,\h72f5,\hbc5c,\h663b,\hc544,\hfb7e,\h345b,
    \h4329,\h768b,\h23c6,\hdccb,\hedfc,\h68b6,\he4f1,\h63b8,\h31dc,\hcad7,\h6385,\h1042,\h9722,\h4013,\hc611,\h2084,
    \h4a24,\h7d85,\hbb3d,\hf8d2,\hf932,\h11ae,\h29a1,\h6dc7,\h9e2f,\h4b1d,\hb230,\hf3dc,\h8652,\hec0d,\hc1e3,\hd077,
    \hb316,\h6c2b,\h70b9,\h99a9,\h9448,\hfa11,\he964,\h2247,\hfc8c,\hc4a8,\hf03f,\h1aa0,\h7d2c,\hd856,\h3390,\hef22,
    \h494e,\hc787,\h38d1,\hc1d9,\hcaa2,\hfe8c,\hd40b,\h3698,\hf581,\hcfa6,\h7ade,\h28a5,\hb78e,\h26da,\hadbf,\ha43f,
    \h3a9d,\he42c,\h7892,\h0d50,\h5fcc,\h9b6a,\h7e46,\h6254,\h8d13,\hc2f6,\hd8b8,\he890,\h39f7,\h5e2e,\hc3af,\hf582,
    \h5d80,\hbe9f,\hd093,\h7c69,\hd52d,\ha96f,\h2512,\hb3cf,\hac99,\h3bc8,\h187d,\ha710,\h9c63,\h6ee8,\h3bbb,\h7bdb,
    \h2678,\h09cd,\h5918,\hf46e,\h9ab7,\h01ec,\h4f9a,\ha883,\h956e,\h65e6,\hffe6,\h7eaa,\hbccf,\h0821,\h15e8,\he6ef,
    \he79b,\hd9ba,\h6f36,\hce4a,\h9f09,\hd4ea,\hb07c,\hd629,\ha4b2,\haf31,\h3f23,\h312a,\ha594,\h30c6,\ha266,\hc035,
    \h4ebc,\h3774,\h82ca,\ha6fc,\h90d0,\hb0e0,\ha7d8,\h1533,\h0498,\h4af1,\hecda,\hf741,\hcd50,\h0e7f,\h91f6,\h2f17,
    \h4dd6,\h8d76,\hefb0,\h4d43,\haa4d,\h54cc,\h9604,\hdfe4,\hd1b5,\he39e,\h6a88,\h1b4c,\h2c1f,\hb8c1,\h6551,\h7f46,
    \h5eea,\h049d,\h8c35,\h5d01,\h8774,\h73fa,\h0b41,\h2efb,\h671d,\h5ab3,\hdbd2,\h5292,\h1056,\h33e9,\hd647,\h136d,
    \hd761,\h8c9a,\ha10c,\h7a37,\hf814,\h8e59,\h133c,\h89eb,\ha927,\heece,\h61c9,\h35b7,\h1ce5,\hede1,\h47b1,\h3c7a,
    \hd2df,\h599c,\hf273,\h3f55,\h14ce,\h7918,\hc737,\hbf73,\hf7cd,\hea53,\hfdaa,\h5b5f,\h3d6f,\h14df,\h44db,\h8678,
    \haff3,\h81ca,\h68c4,\h3eb9,\h2434,\h2c38,\ha340,\h5fc2,\h1dc3,\h7216,\he225,\h0cbc,\h3c49,\h8b28,\h0d95,\h41ff,
    \ha801,\h7139,\h0cb3,\hde08,\hb4e4,\h9cd8,\h56c1,\h9064,\hcb84,\h617b,\h32b6,\h70d5,\h6c5c,\h7448,\hb857,\h42d0 >>

-----------------------------------------------------------------------------
(* The final rounds of a RISC build.                                       *)
T4 == <<
    \h6363,\h6363,\h7c7c,\h7c7c,\h7777,\h7777,\h7b7b,\h7b7b,\hf2f2,\hf2f2,\h6b6b,\h6b6b,\h6f6f,\h6f6f,\hc5c5,\hc5c5,
    \h3030,\h3030,\h0101,\h0101,\h6767,\h6767,\h2b2b,\h2b2b,\hfefe,\hfefe,\hd7d7,\hd7d7,\habab,\habab,\h7676,\h7676,
    \hcaca,\hcaca,\h8282,\h8282,\hc9c9,\hc9c9,\h7d7d,\h7d7d,\hfafa,\hfafa,\h5959,\h5959,\h4747,\h4747,\hf0f0,\hf0f0,
    \hadad,\hadad,\hd4d4,\hd4d4,\ha2a2,\ha2a2,\hafaf,\hafaf,\h9c9c,\h9c9c,\ha4a4,\ha4a4,\h7272,\h7272,\hc0c0,\hc0c0,
    \hb7b7,\hb7b7,\hfdfd,\hfdfd,\h9393,\h9393,\h2626,\h2626,\h3636,\h3636,\h3f3f,\h3f3f,\hf7f7,\hf7f7,\hcccc,\hcccc,
    \h3434,\h3434,\ha5a5,\ha5a5,\he5e5,\he5e5,\hf1f1,\hf1f1,\h7171,\h7171,\hd8d8,\hd8d8,\h3131,\h3131,\h1515,\h1515,
    \h0404,\h0404,\hc7c7,\hc7c7,\h2323,\h2323,\hc3c3,\hc3c3,\h1818,\h1818,\h9696,\h9696,\h0505,\h0505,\h9a9a,\h9a9a,
    \h0707,\h0707,\h1212,\h1212,\h8080,\h8080,\he2e2,\he2e2,\hebeb,\hebeb,\h2727,\h2727,\hb2b2,\hb2b2,\h7575,\h7575,
    \h0909,\h0909,\h8383,\h8383,\h2c2c,\h2c2c,\h1a1a,\h1a1a,\h1b1b,\h1b1b,\h6e6e,\h6e6e,\h5a5a,\h5a5a,\ha0a0,\ha0a0,
    \h5252,\h5252,\h3b3b,\h3b3b,\hd6d6,\hd6d6,\hb3b3,\hb3b3,\h2929,\h2929,\he3e3,\he3e3,\h2f2f,\h2f2f,\h8484,\h8484,
    \h5353,\h5353,\hd1d1,\hd1d1,\h0000,\h0000,\heded,\heded,\h2020,\h2020,\hfcfc,\hfcfc,\hb1b1,\hb1b1,\h5b5b,\h5b5b,
    \h6a6a,\h6a6a,\hcbcb,\hcbcb,\hbebe,\hbebe,\h3939,\h3939,\h4a4a,\h4a4a,\h4c4c,\h4c4c,\h5858,\h5858,\hcfcf,\hcfcf,
    \hd0d0,\hd0d0,\hefef,\hefef,\haaaa,\haaaa,\hfbfb,\hfbfb,\h4343,\h4343,\h4d4d,\h4d4d,\h3333,\h3333,\h8585,\h8585,
    \h4545,\h4545,\hf9f9,\hf9f9,\h0202,\h0202,\h7f7f,\h7f7f,\h5050,\h5050,\h3c3c,\h3c3c,\h9f9f,\h9f9f,\ha8a8,\ha8a8,
    \h5151,\h5151,\ha3a3,\ha3a3,\h4040,\h4040,\h8f8f,\h8f8f,\h9292,\h9292,\h9d9d,\h9d9d,\h3838,\h3838,\hf5f5,\hf5f5,
    \hbcbc,\hbcbc,\hb6b6,\hb6b6,\hdada,\hdada,\h2121,\h2121,\h1010,\h1010,\hffff,\hffff,\hf3f3,\hf3f3,\hd2d2,\hd2d2,
    \hcdcd,\hcdcd,\h0c0c,\h0c0c,\h1313,\h1313,\hecec,\hecec,\h5f5f,\h5f5f,\h9797,\h9797,\h4444,\h4444,\h1717,\h1717,
    \hc4c4,\hc4c4,\ha7a7,\ha7a7,\h7e7e,\h7e7e,\h3d3d,\h3d3d,\h6464,\h6464,\h5d5d,\h5d5d,\h1919,\h1919,\h7373,\h7373,
    \h6060,\h6060,\h8181,\h8181,\h4f4f,\h4f4f,\hdcdc,\hdcdc,\h2222,\h2222,\h2a2a,\h2a2a,\h9090,\h9090,\h8888,\h8888,
    \h4646,\h4646,\heeee,\heeee,\hb8b8,\hb8b8,\h1414,\h1414,\hdede,\hdede,\h5e5e,\h5e5e,\h0b0b,\h0b0b,\hdbdb,\hdbdb,
    \he0e0,\he0e0,\h3232,\h3232,\h3a3a,\h3a3a,\h0a0a,\h0a0a,\h4949,\h4949,\h0606,\h0606,\h2424,\h2424,\h5c5c,\h5c5c,
    \hc2c2,\hc2c2,\hd3d3,\hd3d3,\hacac,\hacac,\h6262,\h6262,\h9191,\h9191,\h9595,\h9595,\he4e4,\he4e4,\h7979,\h7979,
    \he7e7,\he7e7,\hc8c8,\hc8c8,\h3737,\h3737,\h6d6d,\h6d6d,\h8d8d,\h8d8d,\hd5d5,\hd5d5,\h4e4e,\h4e4e,\ha9a9,\ha9a9,
    \h6c6c,\h6c6c,\h5656,\h5656,\hf4f4,\hf4f4,\heaea,\heaea,\h6565,\h6565,\h7a7a,\h7a7a,\haeae,\haeae,\h0808,\h0808,
    \hbaba,\hbaba,\h7878,\h7878,\h2525,\h2525,\h2e2e,\h2e2e,\h1c1c,\h1c1c,\ha6a6,\ha6a6,\hb4b4,\hb4b4,\hc6c6,\hc6c6,
    \he8e8,\he8e8,\hdddd,\hdddd,\h7474,\h7474,\h1f1f,\h1f1f,\h4b4b,\h4b4b,\hbdbd,\hbdbd,\h8b8b,\h8b8b,\h8a8a,\h8a8a,
    \h7070,\h7070,\h3e3e,\h3e3e,\hb5b5,\hb5b5,\h6666,\h6666,\h4848,\h4848,\h0303,\h0303,\hf6f6,\hf6f6,\h0e0e,\h0e0e,
    \h6161,\h6161,\h3535,\h3535,\h5757,\h5757,\hb9b9,\hb9b9,\h8686,\h8686,\hc1c1,\hc1c1,\h1d1d,\h1d1d,\h9e9e,\h9e9e,
    \he1e1,\he1e1,\hf8f8,\hf8f8,\h9898,\h9898,\h1111,\h1111,\h6969,\h6969,\hd9d9,\hd9d9,\h8e8e,\h8e8e,\h9494,\h9494,
    \h9b9b,\h9b9b,\h1e1e,\h1e1e,\h8787,\h8787,\he9e9,\he9e9,\hcece,\hcece,\h5555,\h5555,\h2828,\h2828,\hdfdf,\hdfdf,
    \h8c8c,\h8c8c,\ha1a1,\ha1a1,\h8989,\h8989,\h0d0d,\h0d0d,\hbfbf,\hbfbf,\he6e6,\he6e6,\h4242,\h4242,\h6868,\h6868,
    \h4141,\h4141,\h9999,\h9999,\h2d2d,\h2d2d,\h0f0f,\h0f0f,\hb0b0,\hb0b0,\h5454,\h5454,\hbbbb,\hbbbb,\h1616,\h1616 >>

U4 == <<
    \h5252,\h5252,\h0909,\h0909,\h6a6a,\h6a6a,\hd5d5,\hd5d5,\h3030,\h3030,\h3636,\h3636,\ha5a5,\ha5a5,\h3838,\h3838,
    \hbfbf,\hbfbf,\h4040,\h4040,\ha3a3,\ha3a3,\h9e9e,\h9e9e,\h8181,\h8181,\hf3f3,\hf3f3,\hd7d7,\hd7d7,\hfbfb,\hfbfb,
    \h7c7c,\h7c7c,\he3e3,\he3e3,\h3939,\h3939,\h8282,\h8282,\h9b9b,\h9b9b,\h2f2f,\h2f2f,\hffff,\hffff,\h8787,\h8787,
    \h3434,\h3434,\h8e8e,\h8e8e,\h4343,\h4343,\h4444,\h4444,\hc4c4,\hc4c4,\hdede,\hdede,\he9e9,\he9e9,\hcbcb,\hcbcb,
    \h5454,\h5454,\h7b7b,\h7b7b,\h9494,\h9494,\h3232,\h3232,\ha6a6,\ha6a6,\hc2c2,\hc2c2,\h2323,\h2323,\h3d3d,\h3d3d,
    \heeee,\heeee,\h4c4c,\h4c4c,\h9595,\h9595,\h0b0b,\h0b0b,\h4242,\h4242,\hfafa,\hfafa,\hc3c3,\hc3c3,\h4e4e,\h4e4e,
    \h0808,\h0808,\h2e2e,\h2e2e,\ha1a1,\ha1a1,\h6666,\h6666,\h2828,\h2828,\hd9d9,\hd9d9,\h2424,\h2424,\hb2b2,\hb2b2,
    \h7676,\h7676,\h5b5b,\h5b5b,\ha2a2,\ha2a2,\h4949,\h4949,\h6d6d,\h6d6d,\h8b8b,\h8b8b,\hd1d1,\hd1d1,\h2525,\h2525,
    \h7272,\h7272,\hf8f8,\hf8f8,\hf6f6,\hf6f6,\h6464,\h6464,\h8686,\h8686,\h6868,\h6868,\h9898,\h9898,\h1616,\h1616,
    \hd4d4,\hd4d4,\ha4a4,\ha4a4,\h5c5c,\h5c5c,\hcccc,\hcccc,\h5d5d,\h5d5d,\h6565,\h6565,\hb6b6,\hb6b6,\h9292,\h9292,
    \h6c6c,\h6c6c,\h7070,\h7070,\h4848,\h4848,\h5050,\h5050,\hfdfd,\hfdfd,\heded,\heded,\hb9b9,\hb9b9,\hdada,\hdada,
    \h5e5e,\h5e5e,\h1515,\h1515,\h4646,\h4646,\h5757,\h5757,\ha7a7,\ha7a7,\h8d8d,\h8d8d,\h9d9d,\h9d9d,\h8484,\h8484,
    \h9090,\h9090,\hd8d8,\hd8d8,\habab,\habab,\h0000,\h0000,\h8c8c,\h8c8c,\hbcbc,\hbcbc,\hd3d3,\hd3d3,\h0a0a,\h0a0a,
    \hf7f7,\hf7f7,\he4e4,\he4e4,\h5858,\h5858,\h0505,\h0505,\hb8b8,\hb8b8,\hb3b3,\hb3b3,\h4545,\h4545,\h0606,\h0606,
    \hd0d0,\hd0d0,\h2c2c,\h2c2c,\h1e1e,\h1e1e,\h8f8f,\h8f8f,\hcaca,\hcaca,\h3f3f,\h3f3f,\h0f0f,\h0f0f,\h0202,\h0202,
    \hc1c1,\hc1c1,\hafaf,\hafaf,\hbdbd,\hbdbd,\h0303,\h0303,\h0101,\h0101,\h1313,\h1313,\h8a8a,\h8a8a,\h6b6b,\h6b6b,
    \h3a3a,\h3a3a,\h9191,\h9191,\h1111,\h1111,\h4141,\h4141,\h4f4f,\h4f4f,\h6767,\h6767,\hdcdc,\hdcdc,\heaea,\heaea,
    \h9797,\h9797,\hf2f2,\hf2f2,\hcfcf,\hcfcf,\hcece,\hcece,\hf0f0,\hf0f0,\hb4b4,\hb4b4,\he6e6,\he6e6,\h7373,\h7373,
    \h9696,\h9696,\hacac,\hacac,\h7474,\h7474,\h2222,\h2222,\he7e7,\he7e7,\hadad,\hadad,\h3535,\h3535,\h8585,\h8585,
    \he2e2,\he2e2,\hf9f9,\hf9f9,\h3737,\h3737,\he8e8,\he8e8,\h1c1c,\h1c1c,\h7575,\h7575,\hdfdf,\hdfdf,\h6e6e,\h6e6e,
    \h4747,\h4747,\hf1f1,\hf1f1,\h1a1a,\h1a1a,\h7171,\h7171,\h1d1d,\h1d1d,\h2929,\h2929,\hc5c5,\hc5c5,\h8989,\h8989,
    \h6f6f,\h6f6f,\hb7b7,\hb7b7,\h6262,\h6262,\h0e0e,\h0e0e,\haaaa,\haaaa,\h1818,\h1818,\hbebe,\hbebe,\h1b1b,\h1b1b,
    \hfcfc,\hfcfc,\h5656,\h5656,\h3e3e,\h3e3e,\h4b4b,\h4b4b,\hc6c6,\hc6c6,\hd2d2,\hd2d2,\h7979,\h7979,\h2020,\h2020,
    \h9a9a,\h9a9a,\hdbdb,\hdbdb,\hc0c0,\hc0c0,\hfefe,\hfefe,\h7878,\h7878,\hcdcd,\hcdcd,\h5a5a,\h5a5a,\hf4f4,\hf4f4,
    \h1f1f,\h1f1f,\hdddd,\hdddd,\ha8a8,\ha8a8,\h3333,\h3333,\h8888,\h8888,\h0707,\h0707,\hc7c7,\hc7c7,\h3131,\h3131,
    \hb1b1,\hb1b1,\h1212,\h1212,\h1010,\h1010,\h5959,\h5959,\h2727,\h2727,\h8080,\h8080,\hecec,\hecec,\h5f5f,\h5f5f,
    \h6060,\h6060,\h5151,\h5151,\h7f7f,\h7f7f,\ha9a9,\ha9a9,\h1919,\h1919,\hb5b5,\hb5b5,\h4a4a,\h4a4a,\h0d0d,\h0d0d,
    \h2d2d,\h2d2d,\he5e5,\he5e5,\h7a7a,\h7a7a,\h9f9f,\h9f9f,\h9393,\h9393,\hc9c9,\hc9c9,\h9c9c,\h9c9c,\hefef,\hefef,
    \ha0a0,\ha0a0,\he0e0,\he0e0,\h3b3b,\h3b3b,\h4d4d,\h4d4d,\haeae,\haeae,\h2a2a,\h2a2a,\hf5f5,\hf5f5,\hb0b0,\hb0b0,
    \hc8c8,\hc8c8,\hebeb,\hebeb,\hbbbb,\hbbbb,\h3c3c,\h3c3c,\h8383,\h8383,\h5353,\h5353,\h9999,\h9999,\h6161,\h6161,
    \h1717,\h1717,\h2b2b,\h2b2b,\h0404,\h0404,\h7e7e,\h7e7e,\hbaba,\hbaba,\h7777,\h7777,\hd6d6,\hd6d6,\h2626,\h2626,
    \he1e1,\he1e1,\h6969,\h6969,\h1414,\h1414,\h6363,\h6363,\h5555,\h5555,\h2121,\h2121,\h0c0c,\h0c0c,\h7d7d,\h7d7d >>
=============================================================================
