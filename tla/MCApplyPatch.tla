------------------------------ MODULE MCApplyPatch ------------------------------
(* A script that patches recovery from boot, boot and radio in place, and     *)
(* flashes an image.                                                          *)
EXTENDS ApplyPatch

MCParts  == {"boot", "radio", "recovery", "misc"}
MCSource == [p \in MCParts |-> CASE p = "boot" -> <<"b1", "b2">>
                                 [] p = "radio" -> <<"r1", "r2">>
                                 [] OTHER -> <<"m1">>]
MCTarget == [p \in MCParts |-> CASE p = "boot" -> <<"B1", "b2", "B3">>
                                 [] p = "radio" -> <<"R1", "R2">>
                                 [] OTHER -> <<"F1">>]
MCDevice == [p \in MCParts |-> IF p = "boot" THEN <<"b1", "b2", "x">> ELSE MCSource[p]]
Op(o, s, t) == [op |-> o, src |-> s, tgt |-> t, sha1 |-> {}, bytes |-> 2]
Check(p, list) == [Op("check", p, p) EXCEPT !.sha1 = list]

(* The first check can be made again; the other two cannot.                   *)
MCScript == <<Check("boot", {MCSource["boot"], MCTarget["boot"]}), Check("radio", {}),
              Check("radio", {MCSource["radio"]}), Op("space", "boot", "boot"),
              Op("patch", "boot", "recovery"), Op("patch", "boot", "boot"),
              Op("patch", "radio", "radio"), Op("flash", "misc", "misc")>>
(* With both boot's source and the second file in /cache a restarted script   *)
(* deletes the first file, finds that too little, and gives up.               *)
MCFiles  == <<1, 2, 1>>
=============================================================================
