---------------------------- MODULE EditorLists ----------------------------
(***************************************************************************)
(* The lists of the editor (editorModel.ts): a piece moved one place up or *)
(* down, replaced or taken out.                                            *)
(***************************************************************************)
EXTENDS Integers, Sequences, SequencesExt

move(items, i, step) ==
    IF i + step \in DOMAIN items
    THEN [items EXCEPT ![i] = items[i + step], ![i + step] = items[i]] ELSE items
replaceAt(items, i, item) == [items EXCEPT ![i] = item]
removeAt(items, i) == RemoveAt(items, i)

Least(a, b) == IF a < b THEN a ELSE b
Most(a, b) == IF a > b THEN a ELSE b
=============================================================================
