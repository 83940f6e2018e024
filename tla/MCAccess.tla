------------------------------ MODULE MCAccess ------------------------------
(* Constants for checking Access: three users of the default org and one of*)
(* another, whose address is that of a user of the first.  Two of the      *)
(* logins are those of one subject.                                        *)
EXTENDS Access, TLC

CONSTANTS u1, u2, u3, u4, k1, k2, l1, l2, l3, s1, s2

MCOrg == (u1 :> "default" @@ u2 :> "default" @@ u3 :> "default" @@ u4 :> "other" @@
          k1 :> "default" @@ k2 :> "default")
MCFirst == (u1 :> "owner" @@ u2 :> "owner" @@ u3 :> "none" @@ u4 :> "owner")
MCSubject == (l1 :> s1 @@ l2 :> s2 @@ l3 :> s1)
MCEmail == (u1 :> "ann" @@ u2 :> "bob" @@ u3 :> "eve" @@ u4 :> "ann")
=============================================================================
