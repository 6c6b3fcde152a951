---------------------------- MODULE MCRecordForm ----------------------------
(* A small instance of RecordForm.                                          *)
EXTENDS RecordForm
=============================================================================
