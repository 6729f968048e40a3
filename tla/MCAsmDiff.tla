------------------------------- MODULE MCAsmDiff ------------------------------
EXTENDS AsmDiff

Loc(n, c) == [kind |-> "loc", line |-> n, column |-> c]
Instr(text, norm, seen, width) ==
  [kind |-> "instr", text |-> text, norm |-> norm, seen |-> seen, width |-> width]

\* Two texts of one normal form, an instruction of AVX and a scalar one.
Listing == {Loc(0, 0), Loc(1, 1), Loc(2, 1), [kind |-> "noise"], [kind |-> "label"],
            Instr("addps xmm0, xmm1", "addps XMM, XMM", FALSE, 4),
            Instr("addps xmm2, xmm3", "addps XMM, XMM", FALSE, 4),
            Instr("vaddps ymm0, ymm1, ymm2", "vaddps YMM, YMM, YMM", TRUE, 8),
            Instr("add eax, 1", "add eax, 1", FALSE, 1)}

Bounds == <<4, 3>>
===============================================================================
