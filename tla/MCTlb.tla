-------------------------------- MODULE MCTlb --------------------------------
(* Two entries per table and two address spaces that share their tables    *)
(* below the root.  The guest rewrites one path: with pointers, leaves     *)
(* that are aligned at every level, at some or at none, and garbage.       *)
EXTENDS Tlb

P(a, b, c) == [i \in Levels |-> <<a, b, c>>[i + 1]]

RootA == P(0, 0, 1)
RootB == P(1, 1, 1)
Mid   == P(1, 0, 1)
Low   == P(0, 1, 1)
MCTables == {RootA, RootB, Mid, Low}

Pte(f, p) == [flags |-> f, ppn |-> p]
ToMid   == Pte({"V"}, Mid)
ToLow   == Pte({"V"}, Low)
Astray  == Pte({"V"}, P(0, 0, 0))
Data    == Pte({"V", "R", "W", "A", "D"}, P(1, 0, 0))
Code    == Pte({"V", "X", "U", "A", "D"}, P(0, 0, 0))
CodeRsv == Pte({"V", "R", "X", "A", "RSV"}, P(0, 0, 0))
None    == Pte({}, P(0, 0, 0))

MCPtes == {ToMid, ToLow, Astray, Data, Code, CodeRsv}
MCSlots == {<<RootA, 0>>, <<Mid, 0>>, <<Low, 0>>}

Boot == [t \in MCTables |-> [i \in Idx |->
           IF t \in {RootA, RootB} THEN (IF i = 0 THEN ToMid ELSE None)
           ELSE IF t = Mid THEN (IF i = 0 THEN ToLow ELSE None)
           ELSE (IF i = 0 THEN Data ELSE Code)]]
MCInitMems == {Boot}

MCVas == {[canonical |-> TRUE, pn |-> P(0, 0, 0)], [canonical |-> TRUE, pn |-> P(1, 0, 0)],
          [canonical |-> FALSE, pn |-> P(0, 0, 0)]}

Sv39(a, r) == [sv39 |-> TRUE, asid |-> a, ppn |-> r]
MCSatps == {Bare, Sv39(0, RootA), Sv39(0, RootB)}

St(sum, mxr, mprv, mpp) == [SUM |-> sum, MXR |-> mxr, MPRV |-> mprv, MPP |-> mpp]
MCContexts == {<<"U", St(FALSE, TRUE, FALSE, "U")>>, <<"S", St(FALSE, FALSE, FALSE, "U")>>,
               <<"S", St(TRUE, FALSE, FALSE, "U")>>, <<"M", St(FALSE, FALSE, TRUE, "S")>>,
               <<"M", St(FALSE, FALSE, FALSE, "S")>>}
=============================================================================
