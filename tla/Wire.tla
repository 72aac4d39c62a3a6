-------------------------------- MODULE Wire --------------------------------
(***************************************************************************)
(* One instruction built by a generated client and read back: by the       *)
(* parser of the same client, and by the retry guard, which takes the job  *)
(* account from a fixed position of the account list.                      *)
(***************************************************************************)
EXTENDS Instructions, RetryGates, JobProgram

VARIABLES
  call,   \* [program, name, builder, configured]: what is built, by which
          \* builder, and whether a program address is configured
  given,  \* the accounts the caller gives
  metas,  \* the account list built
  read,   \* what the parser returns
  pc

vars == <<call, given, metas, read, pc>>

Layout == Layouts[call.program][call.name]
Args == {"seed", "hook", "jobKey", "writer", "client", "provider", "packageId", "job"}

\* What the asynchronous builder can derive, from what it was given.
Inputs == [n \in Args |-> IF n \in DOMAIN given THEN given[n] ELSE Key(n)]
Derivable == Derives(call.program, Inputs)[call.name]

ProgramAddress == IF call.configured THEN Key(call.program) ELSE Generated

Give(names) == [n \in names |-> Key(n)]

HasAsync(c) == DOMAIN Derives(c[1], [n \in Args |-> Key(n)])[c[2]] # {}

Init ==
  /\ \E c \in Known, builder \in {"sync", "async"}, configured \in BOOLEAN :
       /\ builder = "async" => HasAsync(c)
       /\ call = [program |-> c[1], name |-> c[2], builder |-> builder, configured |-> configured]
  /\ given = Nothing /\ metas = <<>> /\ read = Nothing /\ pc = "give"

\* The type of the input: the synchronous builder must be given every
\* required account, the asynchronous one those it cannot derive.
GiveAccounts ==
  /\ pc = "give" /\ pc' = "build"
  /\ LET must == RequiredOf(Layout) \ IF call.builder = "async" THEN DOMAIN Derivable ELSE {}
     IN \E more \in SUBSET (NamesOf(Layout) \ must) : given' = Give(must \cup more)
  /\ UNCHANGED <<call, metas, read>>

BuildSync ==
  /\ pc = "build" /\ call.builder = "sync" /\ pc' = "read"
  /\ metas' = Build(Layout, given, ProgramAddress)
  /\ UNCHANGED <<call, given, read>>

BuildAsync ==
  /\ pc = "build" /\ call.builder = "async" /\ pc' = "read"
  /\ metas' = Build(Layout, Resolve(given, Derivable), ProgramAddress)
  /\ UNCHANGED <<call, given, read>>

ReadBack ==
  /\ pc = "read" /\ pc' = "done"
  /\ read' = Parse(Parsers[call.program][Identify(call.program, call.name)], metas)
  /\ UNCHANGED <<call, given, metas>>

Next == GiveAccounts \/ BuildSync \/ BuildAsync \/ ReadBack

Spec == Init /\ [][Next]_vars

-----------------------------------------------------------------------------
(* What the caller meant by an account: what it gave, what was derived for *)
(* it, the default, or that there is none.                                 *)
Meant(n) ==
  LET entry == Layout[CHOOSE i \in DOMAIN Layout : Layout[i].name = n]
  IN IF n \in DOMAIN given THEN given[n]
     ELSE IF call.builder = "async" /\ n \in DOMAIN Derivable THEN Derivable[n]
     ELSE entry.default

(* The parser gives every account back under its own name, and an account  *)
(* that was left out as absent, except that with a configured program the  *)
(* left-out account comes back as the program itself, because the parsers  *)
(* compare with the empty generated address.                               *)
ReadsBack ==
  pc = "done" =>
    /\ DOMAIN read = NamesOf(Layout)
    /\ \A n \in DOMAIN read :
         \/ read[n] = Meant(n)
         \/ Meant(n) = Absent /\ call.configured /\ read[n] = Key(call.program)

(* The retry guard asks for the job of every instruction it knows,         *)
(* whichever optional accounts were left out: where our RPC shows that job *)
(* and no other, the guard answers what the instruction's gate says of it. *)
GuardFindsJob ==
  LET gates == GatesOf(call.program, TRUE, TRUE)
      ix == [program |-> call.program, name |-> call.name, metas |-> metas]
  IN pc \in {"read", "done"} /\ call.name \in DOMAIN gates =>
       \A n \in {"job", "jobAccount"} \cap NamesOf(Layout), state \in JobStates, overdue \in BOOLEAN :
         Guard(<<ix>>, [address \in {Key(n)} |-> [state |-> state, overdue |-> overdue]])
           = (/\ state \in gates[call.name].allowedStates
              /\ ~(gates[call.name].expiryGated /\ overdue))
=============================================================================
