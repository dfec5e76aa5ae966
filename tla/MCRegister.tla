----------------------------- MODULE MCRegister -----------------------------
(***************************************************************************)
(* Four ids, pages of one item, and a ranking in which a due date, an age  *)
(* or a blocked edge changes the order within the days of one walk.  Three *)
(* people: the viewer, another persona, and a guest nobody knows.          *)
(***************************************************************************)
EXTENDS Gestures

MCDues == {None, 1}

MCHeld == {Record("edge", 0, due, 0, "proposed", FALSE, None) : due \in MCDues}
          \cup {Record("pending", 0, None, 0, "vault-local", TRUE, None)}

MCUser == {"me", "them", "guest"}
MCDirectory == [user \in MCUser |->
                  CASE user = "me" -> "viewer" [] user = "them" -> "other" [] OTHER -> "nobody"]

MCMessage == [user : MCUser, text : {TRUE}, mentions : {<<>>, <<"me", "them">>}]
             \cup [user : {"me"}, text : {FALSE}, mentions : {<<>>}]
MCComment == [user : {"me", "them"}, text : {TRUE}, author : {"me", "guest"}]
MCActionItem == [user : {"me", "them", "nobody"}, text : {TRUE}, owed_to : {"them", "nobody"}]
=============================================================================
