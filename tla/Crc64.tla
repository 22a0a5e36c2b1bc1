------------------------------- MODULE Crc64 -------------------------------
(***************************************************************************)
(* The checksum of a file: include/UtilitaryRS/Crc64.hpp.  calculate looks *)
(* it up byte by byte, update computes it bit by bit.  A value of 64 bits  *)
(* is a sequence of four words of 16, the highest first.                   *)
(***************************************************************************)
EXTENDS Integers, SequencesExt, Bitwise

\* The words of the entries, three entries in a line.
table == <<
    \h0000, \h0000, \h0000, \h0000,  \h42F0, \hE1EB, \hA9EA, \h3693,  \h85E1, \hC3D7, \h53D4, \h6D26,
    \hC711, \h223C, \hFA3E, \h5BB5,  \h4933, \hF7AC, \hB3C8, \h1A59,  \h0BC3, \h1647, \h3A22, \h3CCB,
    \hCCD2, \h327B, \hE01C, \h774F,  \h8E22, \hD390, \h49F6, \h41DC,  \h9267, \hEF59, \h6727, \h34B3,
    \hD097, \h0EB2, \hCECD, \h0220,  \h1786, \h2C8E, \h94F9, \h59A6,  \h5576, \hCD65, \h3D13, \h6F35,
    \hDB54, \h18A2, \hE4EF, \h2EEA,  \h99A4, \hF949, \h4D05, \h1879,  \h5EB5, \hDB75, \h173B, \h43FD,
    \h1C45, \h3A9E, \hBED1, \h756E,  \h6688, \h42B2, \hB186, \h8D55,  \h2478, \hA359, \h186C, \hBBE6,
    \hE369, \h8165, \h4252, \h8060,  \hA199, \h608E, \hEBB8, \hB6F3,  \h2FBB, \hB51E, \h0B7A, \h970F,
    \h6D4B, \h54F5, \hA290, \hA19C,  \hAA5A, \h76C9, \hF8AE, \hFA1A,  \hE8AA, \h9722, \h5144, \hCC89,
    \hF4EF, \hABEB, \h36A1, \hB9E6,  \hB61F, \h4A00, \h9F4B, \h8F75,  \h710E, \h683C, \hC575, \hD4F1,
    \h33FE, \h89D7, \h6C9F, \hE262,  \hBDDC, \h5C47, \h8C6D, \hC39E,  \hFF2C, \hBDAE, \h2587, \hF50D,
    \h383D, \h9F92, \h7FB9, \hAE8B,  \h7ACD, \h7E79, \hD653, \h9818,  \hCD10, \h50E7, \hAC8D, \h2FAA,
    \h8FE0, \hB10C, \h0567, \h1939,  \h48F1, \h9330, \h5F59, \h32BD,  \h0A01, \h72DB, \hF6B3, \h042E,
    \h8423, \hA74B, \h1661, \h25D2,  \hC6D3, \h46A0, \hBF8B, \h1341,  \h01C2, \h649C, \hE5B5, \h48C7,
    \h4332, \h8577, \h4C5F, \h7E54,  \h5F77, \hB9BE, \h2BBA, \h0B3B,  \h1D87, \h5855, \h8210, \h3DA8,
    \hDA96, \h7A69, \hD82E, \h662E,  \h9866, \h9B82, \h71C4, \h50BD,  \h1644, \h4E12, \h9126, \h7141,
    \h54B4, \hAFF9, \h38CC, \h47D2,  \h93A5, \h8DC5, \h62F2, \h1C56,  \hD155, \h6C2E, \hCB18, \h1AC5,
    \hAB0B, \h1451, \hC30B, \hA2FE,  \hE9FB, \hF5BA, \h6AE1, \h946D,  \h2EEA, \hD786, \h30DF, \hCFE9,
    \h6C1A, \h366D, \h9935, \hF97A,  \hE238, \hE3FD, \h79F7, \hD886,  \hA0C8, \h0216, \hD01D, \hEE15,
    \h67D9, \h202A, \h8A23, \hB591,  \h2529, \hC1C1, \h23C9, \h8302,  \h396C, \hFD08, \hA42C, \hF66D,
    \h7B9C, \h1CE3, \h0DC6, \hC0FE,  \hBC8D, \h3EDF, \h57F8, \h9B7A,  \hFE7D, \hDF34, \hFE12, \hADE9,
    \h705F, \h0AA4, \h1ED0, \h8C15,  \h32AF, \hEB4F, \hB73A, \hBA86,  \hF5BE, \hC973, \hED04, \h9102,
    \hB74E, \h2898, \h44EE, \h8791,  \h9A20, \hA0D1, \h591A, \h5F54,  \hD8D0, \h413A, \hF0F0, \h69C7,
    \h1FC1, \h6306, \hAACE, \h3241,  \h5D31, \h82ED, \h0324, \h04D2,  \hD313, \h577D, \hE3E6, \h252E,
    \h91E3, \hB696, \h4A0C, \h13BD,  \h56F2, \h94AA, \h1032, \h4839,  \h1402, \h7541, \hB9D8, \h7EAA,
    \h0847, \h4988, \hDE3D, \h0BC5,  \h4AB7, \hA863, \h77D7, \h3D56,  \h8DA6, \h8A5F, \h2DE9, \h66D0,
    \hCF56, \h6BB4, \h8403, \h5043,  \h4174, \hBE24, \h64C1, \h71BF,  \h0384, \h5FCF, \hCD2B, \h472C,
    \hC495, \h7DF3, \h9715, \h2CA8,  \h8665, \h9C18, \h3EFF, \h1A3B,  \hFC3B, \hE424, \h36EC, \h8210,
    \hBECB, \h05CF, \h9F06, \hB483,  \h79DA, \h27F3, \hC538, \hEF07,  \h3B2A, \hC618, \h6CD2, \hD994,
    \hB508, \h1388, \h8C10, \hF868,  \hF7F8, \hF263, \h25FA, \hCEFB,  \h30E9, \hD05F, \h7FC4, \h957D,
    \h7219, \h31B4, \hD62E, \hA3EE,  \h6E5C, \h0D7D, \hB1CB, \hD681,  \h2CAC, \hEC96, \h1821, \hE012,
    \hEBBD, \hCEAA, \h421F, \hBB96,  \hA94D, \h2F41, \hEBF5, \h8D05,  \h276F, \hFAD1, \h0B37, \hACF9,
    \h659F, \h1B3A, \hA2DD, \h9A6A,  \hA28E, \h3906, \hF8E3, \hC1EE,  \hE07E, \hD8ED, \h5109, \hF77D,
    \h57A3, \hF673, \h2BD7, \h45CF,  \h1553, \h1798, \h823D, \h735C,  \hD242, \h35A4, \hD803, \h28D8,
    \h90B2, \hD44F, \h71E9, \h1E4B,  \h1E90, \h01DF, \h912B, \h3FB7,  \h5C60, \hE034, \h38C1, \h0924,
    \h9B71, \hC208, \h62FF, \h52A0,  \hD981, \h23E3, \hCB15, \h6433,  \hC5C4, \h1F2A, \hACF0, \h115C,
    \h8734, \hFEC1, \h051A, \h27CF,  \h4025, \hDCFD, \h5F24, \h7C4B,  \h02D5, \h3D16, \hF6CE, \h4AD8,
    \h8CF7, \hE886, \h160C, \h6B24,  \hCE07, \h096D, \hBFE6, \h5DB7,  \h0916, \h2B51, \hE5D8, \h0631,
    \h4BE6, \hCABA, \h4C32, \h30A2,  \h31B8, \hB286, \h440C, \hA899,  \h0734, \h8536, \hDED5, \h0E0A,
    \hF059, \h7151, \hB77E, \h25CE,  \hB2A9, \h90BA, \h1E94, \h135D,  \h3C8B, \h452A, \hFE56, \h32A1,
    \h7E7B, \hA4C1, \h57BC, \h0432,  \hB96A, \h86FD, \h0D82, \h5FB6,  \hFB9A, \h6716, \hA468, \h6925,
    \hE7DF, \h5BDF, \hC38D, \h1C4A,  \hA52F, \hBA34, \h6A67, \h2AD9,  \h623E, \h9808, \h3059, \h715D,
    \h20CE, \h79E3, \h99B3, \h47CE,  \hAEEC, \hAC42, \h7971, \h6632,  \hEC1C, \h4DA9, \hD09B, \h50A1,
    \h2B0D, \h6F95, \h8AA5, \h0B25,  \h69FD, \h8E7E, \h234F, \h3DB6,  \hF420, \hA0E0, \h5991, \hCF04,
    \hB6D0, \h410B, \hF07B, \hF997,  \h71C1, \h6337, \hAA45, \hA213,  \h3331, \h82DC, \h03AF, \h9480,
    \hBD13, \h574C, \hE36D, \hB57C,  \hFFE3, \hB6A7, \h4A87, \h83EF,  \h38F2, \h949B, \h10B9, \hD86B,
    \h7A02, \h7570, \hB953, \hEEF8,  \h6647, \h69B9, \hDEB6, \h9B97,  \h24B7, \h8852, \h775C, \hAD04,
    \hE3A6, \hAA6E, \h2D62, \hF680,  \hA156, \h4B85, \h8488, \hC013,  \h2F74, \h9E15, \h644A, \hE1EF,
    \h6D84, \h7FFE, \h0DA0, \hD77C,  \hAA95, \h5DC2, \h579E, \h8CF8,  \hE865, \hBC29, \hFE74, \hBA6B,
    \h923B, \hC415, \hF667, \h2250,  \hD0CB, \h25FE, \h5F8D, \h14C3,  \h17DA, \h07C2, \h05B3, \h4F47,
    \h552A, \hE629, \hAC59, \h39D4,  \hDB08, \h33B9, \h4C9B, \h1828,  \h99F8, \hD252, \hE571, \h2EBB,
    \h5EE9, \hF06E, \hBF4F, \h753F,  \h1C19, \h1185, \h16A5, \h43AC,  \h005C, \h2D4C, \h7140, \h36C3,
    \h42AC, \hCCA7, \hD8AA, \h0050,  \h85BD, \hEE98, \h2294, \h5BD4,  \hC74D, \h0F73, \h8B7E, \h6D47,
    \h496F, \hDAE3, \h6BBC, \h4CBB,  \h0B9F, \h3B08, \hC256, \h7A28,  \hCC8E, \h1934, \h9868, \h21AC,
    \h8E7E, \hF8DF, \h3182, \h173F,  \h39A3, \hD641, \h4B5C, \hA58D,  \h7B53, \h37AA, \hE2B6, \h931E,
    \hBC42, \h1596, \hB888, \hC89A,  \hFEB2, \hF47D, \h1162, \hFE09,  \h7090, \h21ED, \hF1A0, \hDFF5,
    \h3260, \hC006, \h5810, \hE966,  \hF571, \hE23A, \h022E, \hB2E2,  \hB781, \h03D1, \hABC4, \h8471,
    \hABC4, \h3F18, \hCC21, \hF11E,  \hE934, \hDEF3, \h65CB, \hF78D,  \h2E25, \hFCCF, \h3FF5, \hAC09,
    \h6CD5, \h1D24, \h961F, \h9A9A,  \hE2F7, \hC8B4, \h76DD, \h8866,  \hA007, \h295F, \hDF37, \hBEF5,
    \h6716, \h0B63, \h8509, \hE571,  \h25E6, \hEA88, \h2CE3, \hD3E2,  \h5FB8, \h92B4, \h24F0, \h4BD9,
    \h1D48, \h735F, \h8D1A, \h7D4A,  \hDA59, \h5163, \hD724, \h26CE,  \h98A9, \hB088, \h7ECE, \h105D,
    \h168B, \h6518, \h9E0C, \h31A1,  \h547B, \h84F3, \h37E6, \h0732,  \h936A, \hA6CF, \h6DD8, \h5CB6,
    \hD19A, \h4724, \hC432, \h6A25,  \hCDDF, \h7BED, \hAFD7, \h1F4A,  \h8F2F, \h9A06, \h063D, \h29D9,
    \h483E, \hB83A, \h5C03, \h725D,  \h0ACE, \h59D1, \hF5E9, \h44CE,  \h84EC, \h8C41, \h152B, \h6532,
    \hC61C, \h4DAA, \hACC1, \h53A1,  \h010D, \h6F96, \hF6FF, \h0825,  \h43FD, \h8E7D, \h5F15, \h3EB6,
    \hD420, \hA0E3, \h25C9, \hCC04,  \h96D0, \h4108, \h8C23, \hFA97,  \h51C1, \h6334, \hD61D, \hA113,
    \h1331, \h82DF, \h7FF7, \h9780,  \h9D31, \h574F, \h9F35, \hB67C,  \hDFC1, \hB6A4, \h36DF, \h80EF,
    \h18D0, \h9498, \h6CE1, \hDB6B,  \h5A20, \h7573, \hC50B, \hEDF8,  \h4665, \h49BA, \hACEE, \h9897,
    \h0495, \hA851, \h0524, \hAE04,  \hC384, \h8A6D, \h5F1A, \hF580,  \h8174, \h6B86, \hF6F0, \hC313,
    \h0F56, \hBE16, \h1632, \hE2EF,  \h4DA6, \h5FFD, \h5FD8, \hD47C,  \h8AB7, \h7DC1, \h05E6, \h8FF8,
    \hC847, \h9C2A, \hAC0C, \hB96B,  \hB219, \hE416, \hA41F, \h21F0,  \hF0E9, \h05FD, \h0DF5, \h1763,
    \h37F8, \h27C1, \h57CB, \h4CE7,  \h7508, \hC62A, \hFE21, \h7A74,  \hFB2A, \h13BA, \h1EE3, \h5B88,
    \hB9DA, \hF251, \hB709, \h6D1B,  \h7ECB, \hD06D, \hED37, \h369F,  \h3C3B, \h3186, \h44DD, \h000C,
    \h207E, \h0D4F, \h2338, \h7563,  \h628E, \hECA4, \h8AD2, \h43F0,  \hA59F, \hCE98, \hD0EC, \h1874,
    \hE76F, \h2F73, \h7906, \h2EE7,  \h694D, \hFAE3, \h99C4, \h0F1B,  \h2BBD, \h1B08, \h302E, \h3988,
    \hECAC, \h3934, \h6A10, \h620C,  \hAE5C, \hD8DF, \hC3FA, \h549F,  \h1981, \hF641, \hB924, \hE62D,
    \h5B71, \h17AA, \h10CE, \hD0BE,  \h9C60, \h3596, \h4AF0, \h8B3A,  \hDE90, \hD47D, \hE31A, \hBDA9,
    \h50B2, \h01ED, \h03D8, \h9C55,  \h1242, \hE006, \hAA32, \hAAC6,  \hD553, \hC23A, \hF00C, \hF142,
    \h97A3, \h23D1, \h59E6, \hC7D1,  \h8BE6, \h1F18, \h3E03, \hB2BE,  \hC916, \hFEF3, \h97E9, \h842D,
    \h0E07, \hDCCF, \hCDD7, \hDFA9,  \h4CF7, \h3D24, \h643D, \hE93A,  \hC2D5, \hE8B4, \h84FF, \h84C6,
    \h8025, \h095F, \h2D15, \hB255,  \h4734, \h2B63, \h772B, \hE9D1,  \h05C4, \hCA88, \hDEC1, \hDF42,
    \h7F9A, \hB2B4, \hD6D2, \h4779,  \h3D6A, \h535F, \h7F38, \h71EA,  \hFA7B, \h7163, \h2506, \h3A6E,
    \hB88B, \h9088, \h8CEC, \h0CFD,  \h36A9, \h4518, \h6C2E, \h2D01,  \h7459, \hA4F3, \hC5C4, \h1B92,
    \hB348, \h86CF, \h9FFA, \h4016,  \hF1B8, \h6724, \h3610, \h76A5,  \hEDFD, \h5BED, \h51F5, \h03CA,
    \hAF0D, \hBA06, \hF81F, \h3559,  \h681C, \h983A, \hA221, \h6EDD,  \h2AEC, \h79D1, \h0BCB, \h584E,
    \hA4CE, \hAC41, \hEB09, \h79B2,  \hE63E, \h4DAA, \h42E3, \h4F21,  \h212F, \h6F96, \h18DD, \h14A5,
    \h63DF, \h8E7D, \hB137, \h2236 >>

Entry(i) == SubSeq(table, 4 * i + 1, 4 * i + 4)

Zero == <<0, 0, 0, 0>>

polynomial == <<\h42F0, \hE1EB, \hA9EA, \h3693>>

XorWords(a, b) == [i \in 1 .. 4 |-> a[i] ^^ b[i]]

\* a without its lowest bits; p is 2 to the power of their number.
Shifted(a, p) ==
  [i \in 1 .. 4 |-> a[i] \div p + (IF i = 1 THEN 0 ELSE (a[i - 1] % p) * (65536 \div p))]

\* The lowest byte of a, changed by v.
LowByte(a, v) == (a[4] % 256) ^^ v

calculate(data) ==
  FoldLeft(LAMBDA c, v : XorWords(Entry(LowByte(c, v)), Shifted(c, 256)), Zero, data)

\* One bit of update; the byte of data is shifted in step with the checksum.
UpdateBit(c, v) ==
  IF LowByte(c, v) % 2 = 1 THEN XorWords(Shifted(c, 2), polynomial) ELSE Shifted(c, 2)

UpdateByte(c, v) ==
  FoldLeft(LAMBDA d, bit : UpdateBit(d, shiftR(v, bit)), c, <<0, 1, 2, 3, 4, 5, 6, 7>>)

update(c, data) == FoldLeft(UpdateByte, c, data)

\* Crc64.hpp:89 and 105, both functions compute the CRC64.  They do not: they differ
\* for every file of one byte that is not zero, and for one of several bytes.
ASSUME DisagreementAssumption ==
  \A data \in {<<v>> : v \in 1 .. 255} \cup {<<72, 105>>, <<0, 255, 1>>} :
    update(Zero, data) # calculate(data)

=============================================================================
