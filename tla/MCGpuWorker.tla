---------------------------- MODULE MCGpuWorker ----------------------------
(***************************************************************************)
(* Small workers for TLC: four models, of which OCR runs on the CPU and    *)
(* the embedder is pinned, and requests for each of them.                  *)
(***************************************************************************)
EXTENDS GpuWorker, TLC

CONSTANTS stt, embed, frames, ocr, c1, c2, c3, c4, c5

FourModels == {stt, embed, frames, ocr}
GpuModels == {stt, embed, frames}
OneResident == {embed}

FourCallers == {c1, c2, c3, c4}
FiveCallers == {c1, c2, c3, c4, c5}

\* One request for each model; the fifth asks for a model a second time.
Asked == (c1 :> stt) @@ (c2 :> embed) @@ (c3 :> frames) @@ (c4 :> ocr) @@ (c5 :> stt)
AskedByFour == [c \in FourCallers |-> Asked[c]]
=============================================================================
