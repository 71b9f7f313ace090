----------------------------- MODULE MCStaffAgent -----------------------------
(* Instances of StaffAgent, and with it of Customers, for TLC. *)
EXTENDS StaffAgent, TLC

CONSTANTS u1, u2, u3, t1, t2

(* Two customers with a ticket of the first; an identifier is left for a    *)
(* new user and for a new ticket.                                           *)
StartTables ==
  [life |-> (u1 :> "stored" @@ u2 :> "stored" @@ t1 :> "stored" @@ u3 :> "new" @@ t2 :> "new"),
   row |-> [i \in Id |-> [c \in Column |-> IF i = u2 THEN "b" ELSE "a"]],
   owner |-> (t1 :> u1 @@ t2 :> Null)]

Asked(kind, id, change) == [kind |-> kind, id |-> id, change |-> change]

Key(e) == ("key" :> e)
Rest(x) == ("rest" :> x)
Whole(x, y) == ("key" :> x @@ "rest" :> y)

(* Two customers swapping or fighting for addresses, one form with a        *)
(* column left as it was, an explicit null, and creations, deletions and    *)
(* reads around them.                                                       *)
Operations ==
  {Asked("create user", Null, Whole("c", "a")),
   Asked("create ticket", u1, Whole("a", "a")),
   Asked("patch", u1, Key("b")),
   Asked("patch", u2, Whole("a", "b")),
   Asked("patch", u2, Key("c")),
   Asked("patch", u1, Rest("b")),
   Asked("patch", u1, Key(Null)),
   Asked("patch", t1, Key("b")),
   Asked("patch", t1, Rest("b")),
   Asked("delete", u1, <<>>),
   Asked("delete", t1, <<>>),
   Asked("read", t1, <<>>),
   Asked("list", Null, <<>>)}

BuyerOf == ("o1" :> u1 @@ "o2" :> u2)
=============================================================================
