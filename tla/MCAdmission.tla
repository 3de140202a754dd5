----------------------------- MODULE MCAdmission -----------------------------
(* Instances of Admission for TLC. *)
EXTENDS Admission, TLC

(* Clients and threads are interchangeable; used by safety runs only. *)
Interchangeable == Permutations(Client) \cup Permutations(Thread)
=============================================================================
