---------------------------- MODULE EpochLedger ----------------------------
(***************************************************************************)
(* The epoch ledger of the Tide kernel (tide/ledger.rs) as pure operators: *)
(* one clock, one high-water mark per kind of semantic input, and stamps   *)
(* whose validity looks only at the marks of a declared footprint.         *)
(***************************************************************************)
EXTENDS Naturals

InputKind == {"documentText", "documentSet", "lockfileFingerprint",
              "packageManifest", "resolutionSettings", "diagnosticSettings",
              "workspaceFolders"}

Ledger == [epoch : Nat, marks : [InputKind -> Nat]]

FreshLedger == [epoch |-> 0, marks |-> [k \in InputKind |-> 0]]

\* One state mutation, stamped on every kind it touched.
Advance(ledger, kinds) ==
  [epoch |-> ledger.epoch + 1,
   marks |-> [k \in InputKind |-> IF k \in kinds THEN ledger.epoch + 1
                                  ELSE ledger.marks[k]]]

\* A stamp is the ledger as a job read it at dispatch.
IsCurrent(ledger, footprint, stamp) ==
  \A k \in footprint : ledger.marks[k] = stamp.marks[k]
=============================================================================
