---------------------------- MODULE MCUpdateImage ----------------------------
(* Update images for TLC. *)
EXTENDS UpdateImage, ApplicationImage

CONSTANTS fw, app1, app2, oversized, resized, unsigned, list_fw, list_app, list_both, list_itself, list_none

AllContents == {fw, app1, app2, oversized, resized, unsigned, list_fw, list_app, list_both, list_itself, list_none}

Lists ==
  [ j \in {list_fw, list_app, list_both, list_itself, list_none} |->
      CASE j = list_fw -> [f \in {"update.fw"} |-> fw]
        [] j = list_app -> [f \in {"update.app"} |-> app1]
        [] j = list_both -> [f \in Payloads |-> IF f = "update.fw" THEN fw ELSE app2]
        [] j = list_itself -> [f \in {"fsupdate.json"} |-> unsigned]
        [] OTHER -> [f \in {} |-> fw] ]

Packed(json, payload) ==
  [header |-> TRUE,
   packed |-> [f \in {"fsupdate.json"} \cup DOMAIN payload |->
                 IF f = "fsupdate.json" THEN json ELSE payload[f]]]

(* Good images, images whose files differ from their manifest, without a   *)
(* manifest, with a bad one, and cut short.                                *)
SomeImages ==
  { Packed(list_app, Lists[list_app]),
    Packed(list_both, Lists[list_both]),
    Packed(list_app, [f \in {"update.app"} |-> app2]),
    Packed(list_app, [f \in {} |-> app2]),
    Packed(list_itself, [f \in {} |-> app1]),
    Packed(list_none, [f \in {} |-> app2]),
    [header |-> TRUE, packed |-> [f \in {"update.app"} |-> app2]],
    NoImage }
-----------------------------------------------------------------------------
(* Two applications, of whole and of broken buffers, and copies of the     *)
(* first whose size was changed: to one that wraps, and by one.            *)
Layout ==
  LET Image(signed, size) ==
        [ length |-> signed + 5, size |-> size, signed |-> signed, sound |-> TRUE,
          certs |-> {signed + 4} ]
  IN [ c \in AllContents |->
         CASE c = app1 -> Image(4, 4) [] c = app2 -> Image(3, 3)
           [] c = oversized -> Image(4, Modulus - HEADER_SIZE)
           [] c = resized -> Image(4, 3)
           [] OTHER -> [Image(4, 4) EXCEPT !.sound = FALSE] ]

ASSUME BundlesAreAccepted == Bundles = {c \in AllContents : Accepted(Layout[c])}

SignedContents ==
  {c \in AllContents : Genuine(Layout[c]) /\ copyImage(Layout[c]) = Content(Layout[c])}

(* Each slot holds an application as its signer made it, and all of it,    *)
(* because verification and copy agree on every offset of every file.      *)
InstalledAsSigned ==
  AcceptedIsCopied /\ \A s \in Slots : files[s] \in SignedContents
=============================================================================
