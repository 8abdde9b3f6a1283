---------------------------- MODULE MCFrameLayout ----------------------------
(***************************************************************************)
(* Small frames for FrameLayout: every mix of three objects among scalars, *)
(* arrays, dead objects, callee-saved slots and the stack protector's      *)
(* slot, of one or two words, with and without over-alignment.             *)
(***************************************************************************)
EXTENDS FrameLayoutProofs, TLC

\* adjustsStack, varSized and maxCallFrameSize of the frames.
CallInfo ==
    { <<FALSE, FALSE, 0>>, <<TRUE, FALSE, 0>>, <<TRUE, FALSE, 2>>, <<TRUE, TRUE, 2>> }

\* The largest alignment of the objects, as CreateStackObject keeps it.
MaxOf(align) ==
    CHOOSE m \in {align[k] : k \in Index} : \A k \in Index : align[k] <= m

Frames(sizes, aligns, protectors, calls) ==
    { f \in
        { [ size |-> size, align |-> align,
            fixedOffset |-> [k \in FixedIndex |-> IF k = -NumFixed THEN -1 ELSE 0],
            dead |-> dead, mayNeedSP |-> arrays, protector |-> prot,
            firstCS |-> cs, maxAlignment |-> MaxOf(align),
            varSized |-> call[2], adjustsStack |-> call[1],
            maxCallFrameSize |-> call[3] ] :
          size \in [Index -> sizes], align \in [Index -> aligns],
          dead \in {{}, {0}, {1}}, arrays \in SUBSET Index,
          prot \in protectors, cs \in 1 .. NumObjects,
          call \in calls } :
      /\ WellFormed(f)
      /\ \A k \in f.firstCS .. NumObjects - 1 : f.size[k] = 1 /\ f.align[k] = 1 }

MCFrameInfos ==
    Frames({1, 2}, {1, 2}, Index \cup {NoProtector}, CallInfo)
    \cup Frames({0, 2}, {1, 4}, {NoProtector, 1}, { <<TRUE, TRUE, 1>> })

ASSUME AlignmentHypothesis == PowersOfTwo
=============================================================================
