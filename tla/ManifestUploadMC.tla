-------------------------- MODULE ManifestUploadMC --------------------------
(* Four calls over two ports. *)
EXTENDS ManifestUpload, TLC

CONSTANTS capture, resume, other, again, left, right

MCPortOf == capture :> left @@ resume :> left @@ other :> right @@ again :> left
=============================================================================
