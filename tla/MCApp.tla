------------------------------- MODULE MCApp -------------------------------
(***************************************************************************)
(* App for TLC: pictures of two and three pixel rows stand for the scaled  *)
(* images, and a MaxHeight that they can exceed for 1200.                  *)
(***************************************************************************)
EXTENDS App

CONSTANTS e1, e2, u1, u2

MCScaled == [s \in Source |-> IF s = u1 THEN 2 ELSE 3]
OneRow   == <<e1>>
TwoRows  == <<e1, e2>>

\* The marks and messages of the rows and the choice the user made last are
\* written only: no guard and no expression of the list or the preview reads
\* them.  States that differ in them alone are one state for a run whose
\* properties do not mention them.
SeenByPreview == <<life, pending, blob, img, imgEvent, previewVars, appVars>>
=============================================================================
