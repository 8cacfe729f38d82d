--------------------------- MODULE SequenceBuffer ---------------------------
(***************************************************************************)
(* SequenceBuffer of bitfold-protocol: a ring of slots that remembers      *)
(* which of the latest sequence numbers were received.  A buffer is        *)
(* [sequence_num, entry_sequences]; the entries themselves are empty       *)
(* markers in the code.                                                    *)
(***************************************************************************)
EXTENDS SequenceNumbers

CONSTANT Redundant \* REDUNDANT_PACKET_ACKS_SIZE, 32 in the code

ASSUME RedundantAssumption == Redundant \in 1 .. HalfRange - 1

Size == Redundant + 1

Empty == -1

NewBuffer == [sequence_num |-> 0, entry_sequences |-> [i \in 0 .. Size - 1 |-> Empty]]

Index(s) == s % Size

Exists(b, s) == b.entry_sequences[Index(s)] = s

(* remove_entries(finish): every number from sequence_num to finish, going  *)
(* round the circle, or all slots at once when these are Size or more.      *)
RemoveEntries(b, finish) ==
    LET distance == WrappingSub(finish, b.sequence_num)
        passed == {WrappingAdd(b.sequence_num, i) : i \in 0 .. distance}
    IN  [b EXCEPT !.entry_sequences =
            [i \in 0 .. Size - 1 |->
                IF distance >= Size \/ @[i] \in passed THEN Empty ELSE @[i]]]

(* advance_sequence.                                                        *)
AdvanceSequence(b, s) ==
    IF SequenceGreaterThan(WrappingAdd(s, 1), b.sequence_num)
    THEN [RemoveEntries(b, s) EXCEPT !.sequence_num = WrappingAdd(s, 1)]
    ELSE b

(* insert: a number Size or more behind the next one is refused.            *)
TooOld(b, s) == SequenceLessThan(s, WrappingSub(b.sequence_num, Size))

InsertAnyAge(b, s) == [AdvanceSequence(b, s) EXCEPT !.entry_sequences[Index(s)] = s]

Insert(b, s) ==
    IF TooOld(b, s) THEN b
    ELSE [AdvanceSequence(b, s) EXCEPT !.entry_sequences[Index(s)] = s]

=============================================================================
