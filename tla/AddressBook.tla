---------------------------- MODULE AddressBook ----------------------------
(***************************************************************************)
(* The messages of addr_book.proto as the generated addr_book.pb code      *)
(* writes and reads them.  A message is a record of sequences: a field is  *)
(* set when its sequence is not empty.  On the wire it is a sequence of    *)
(* cells <<"field", <<number, value>>>>, the value of a nested message     *)
(* being its own cells.                                                    *)
(***************************************************************************)
EXTENDS Integers, Sequences, SequencesExt

Field(n, v) == <<"field", <<n, v>>>>

\* The cells of field n, one for each value
Fields(n, vs) == [i \in 1..Len(vs) |-> Field(n, vs[i])]

NoPhone == [number |-> << >>, type |-> << >>]
NoPerson == [name |-> << >>, id |-> << >>, email |-> << >>, phones |-> << >>]
NoBook == [people |-> << >>]

PhoneTypes == 0..2

-----------------------------------------------------------------------------
(* InternalSerializeWithCachedSizesToArray: in the order of the numbers *)

SerializePhone(p) == Fields(1, p.number) \o Fields(2, p.type)

SerializePerson(p) ==
    Fields(1, p.name) \o Fields(2, p.id) \o Fields(3, p.email)
        \o [i \in 1..Len(p.phones) |-> Field(4, SerializePhone(p.phones[i]))]

SerializeBook(b) == [i \in 1..Len(b.people) |-> Field(1, SerializePerson(b.people[i]))]

-----------------------------------------------------------------------------
(* _InternalParse: a field seen again replaces the value, or is added to a *)
(* repeated one; fields of other numbers, and phone types that are not     *)
(* known, go to the unknown fields, which nobody reads.                    *)

MergePhone(p, cell) ==
    LET n == cell[2][1]
        v == cell[2][2]
    IN  CASE n = 1 -> [p EXCEPT !.number = <<v>>]
          [] n = 2 -> IF v \in PhoneTypes THEN [p EXCEPT !.type = <<v>>] ELSE p
          [] OTHER -> p

ParsePhone(cells) == FoldLeft(MergePhone, NoPhone, cells)

MergePerson(p, cell) ==
    LET n == cell[2][1]
        v == cell[2][2]
    IN  CASE n = 1 -> [p EXCEPT !.name = <<v>>]
          [] n = 2 -> [p EXCEPT !.id = <<v>>]
          [] n = 3 -> [p EXCEPT !.email = <<v>>]
          [] n = 4 -> [p EXCEPT !.phones = Append(@, ParsePhone(v))]
          [] OTHER -> p

ParsePerson(cells) == FoldLeft(MergePerson, NoPerson, cells)

MergeBook(b, cell) ==
    IF cell[2][1] = 1 THEN [people |-> Append(b.people, ParsePerson(cell[2][2]))] ELSE b

ParseBook(cells) == FoldLeft(MergeBook, NoBook, cells)

-----------------------------------------------------------------------------
(* IsInitialized: the required fields are set, in nested messages too *)

PhoneInitialized(p) == p.number # << >>

PersonInitialized(p) ==
    /\ p.name # << >> /\ p.id # << >>
    /\ \A i \in 1..Len(p.phones) : PhoneInitialized(p.phones[i])

BookInitialized(b) == \A i \in 1..Len(b.people) : PersonInitialized(b.people[i])

-----------------------------------------------------------------------------
(* What the codec asks of a message, by the name of its type; the generated *)
(* pool knows these three.                                                  *)

Pool == {"Person", "PhoneNumber", "AddressBook"}

Serialize(m) ==
    CASE m.type = "PhoneNumber" -> SerializePhone(m.value)
      [] m.type = "Person" -> SerializePerson(m.value)
      [] m.type = "AddressBook" -> SerializeBook(m.value)

\* ParseFromArray into a new message of the type
ParseFromArray(type, cells) ==
    CASE type = "PhoneNumber" -> ParsePhone(cells)
      [] type = "Person" -> ParsePerson(cells)
      [] type = "AddressBook" -> ParseBook(cells)

\* ... which fails if a required field is missing
IsInitialized(type, value) ==
    CASE type = "PhoneNumber" -> PhoneInitialized(value)
      [] type = "Person" -> PersonInitialized(value)
      [] type = "AddressBook" -> BookInitialized(value)
=============================================================================
