------------------------------ MODULE MCAudioJob ------------------------------
(***************************************************************************)
(* Small instances of AudioJob.  In one, two messages ask for the same job, *)
(* beside a job that cannot be made and a message that cannot be read.  In  *)
(* the other, of which every behaviour is followed to its end, a job shares *)
(* batches with a message that breaks them and one that cannot be read.  In *)
(* both the backend may have lost a job (404).                              *)
(***************************************************************************)
EXTENDS AudioJob, TLC

CONSTANTS m1, m2, m3, m4, j1, j2

BatchJobOf == (m1 :> j1) @@ (m2 :> j1) @@ (m3 :> j2) @@ (m4 :> j2)
BatchForm  == (m1 :> "good") @@ (m2 :> "good") @@ (m3 :> "incomplete")
              @@ (m4 :> "unreadable")

EndsJobOf == (m1 :> j1) @@ (m2 :> j1) @@ (m3 :> j1)
EndsForm  == (m1 :> "good") @@ (m2 :> "bad_job_id") @@ (m3 :> "unreadable")

Symmetry == Permutations(Workers) \cup Permutations({m1, m2})
=============================================================================
