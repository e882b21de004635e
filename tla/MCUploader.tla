------------------------------ MODULE MCUploader ------------------------------
(* Instances of Uploader: key blocks that rotate the validator set and key     *)
(* blocks that do not.                                                         *)
EXTENDS Uploader

\* Two rotations, with a key block of the same epoch between them.
MCEpochs == <<1, 2, 2, 3>>

\* One rotation after another, for two uploaders.
MCEpochsPair == <<1, 2, 3>>
===============================================================================
