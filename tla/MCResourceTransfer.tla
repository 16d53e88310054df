------------------------- MODULE MCResourceTransfer -------------------------
(* Small instances of ResourceTransfer for TLC.                             *)
EXTENDS ResourceTransfer

Two == {1, 2}

(* The resources are copies of one file.                                    *)
OneFile == {1}
SameContent == [r \in Resource |-> 1]

(* Transfers for one device, its holder and one resource. Devices and       *)
(* resources are interchangeable, so it holds for the others as well.       *)
FirstTransfers == Transferred(1, 2, 1)
============================================================================
