--------------------------- MODULE MCCmdDownlink ---------------------------
(***************************************************************************)
(* An instance of CmdDownlink with two cameras, one of which never wakes.  *)
(* The oldest command is for that one, the second is too big for a cell    *)
(* and the third for a frame: as long as neither the first nor the third   *)
(* expires they fill both cells.  The last names no camera.                *)
(***************************************************************************)
EXTENDS CmdDownlink

CONSTANTS a, b

MCOwner == <<b, a, a, None>>
=============================================================================
