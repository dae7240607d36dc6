--------------------------- MODULE LifecycleProofs ---------------------------
(***************************************************************************)
(* Proofs about Lifecycle for any number of handlers at once.  The closer  *)
(* is right because of an order: what is registered is always a prefix of  *)
(* one list, and what is left to close is again a prefix of it, so while   *)
(* the server or the consumer group is still to be closed, everything      *)
(* registered before it is open.                                           *)
(***************************************************************************)
EXTENDS Lifecycle, TLAPS

\* Everything the service registers, in order.
All == [i \in 1 .. Len(Boot) + Len(Lazy) |-> IF i <= Len(Boot) THEN Boot[i] ELSE Lazy[i - Len(Boot)]]

\* s is the beginning of All.
Begins(s) == Len(s) <= Len(Boot) + Len(Lazy) /\ \A i \in 1 .. Len(s) : s[i] = All[i]

\* The slot serves something, or is idle altogether.
WholeWork == \A k \in Slots : work[k].kind = "none" => work[k] = Idle

Quiescent == server = "none" /\ consumer = "none" /\ \A k \in Slots : work[k] = Idle

\* Before the shutdown the closer's slice lists what has been created.
Registered ==
  stage \in {"init", "wait"} =>
    /\ Begins(funcs)
    /\ created = Range(funcs) /\ up = created
    /\ todo = <<>> /\ closing = None
    /\ stage = "init" => Len(funcs) <= Len(Boot) /\ Quiescent
    /\ stage = "wait" => Len(funcs) >= Len(Boot)

\* During the shutdown exactly what is left to close is open, and what the
\* consumer's goroutine has registered late.
Unwinding ==
  stage = "close" =>
    /\ Begins(todo)
    /\ closing # None => todo # <<>> /\ closing = Last(todo)
    /\ up = Range(funcs) \cup (Range(todo) \ {closing})
    /\ Range(funcs) \cap Range(todo) = {}
    /\ Range(funcs) \cup Range(todo) \subseteq created
    /\ signalled

\* Whoever counts on the server finds it open, or still to be closed.
ServerHeld ==
  /\ server = "serving" =>
       /\ service # "assembly" /\ stage \in {"wait", "close"}
       /\ stage = "close" => "Server" \in Range(todo) /\ closing # "Server"
  /\ \A k \in Slots : work[k].kind = "request" =>
       /\ service # "assembly" /\ stage \in {"wait", "close"}
       /\ stage = "close" => "Server" \in Range(todo) \/ (service = "order" /\ slow)

\* A running consumer had all its resources before the shutdown began, and
\* its group is open as long as it has a message in work.
GroupHeld ==
  /\ consumer # "none" => Lazy # <<>> /\ stage \in {"wait", "close"}
  /\ consumer = "consuming" => Range(Lazy) \subseteq created /\ (stage = "close" => funcs = <<>>)
  /\ \A k \in Slots : work[k].kind = "message" =>
       consumer = "consuming" /\ (stage = "close" => "Group" \in Range(todo))

Ended == stage \in {"returned", "exited"} => Quiescent

LInv ==
  /\ TypeOK /\ WholeWork
  /\ Registered /\ Unwinding
  /\ ServerHeld /\ GroupHeld
  /\ Ended
  /\ NoUseAfterClose
  /\ EverythingClosed
-----------------------------------------------------------------------------
(* What the lists of the five services have in common. *)

N == Len(Boot)

\* Boot and Lazy are lists of resources.
LEMMA Lists ==
  ASSUME service \in AllServices
  PROVE  /\ Boot \in Seq(Resources) /\ Lazy \in Seq(Resources)
         /\ N \in Nat \ {0} /\ Len(Lazy) \in Nat
         /\ Lazy # <<>> <=> service \in {"order", "assembly"}
<1>1. CASE service = "order"
  BY <1>1 DEF N, Boot, Lazy, OrderBoot, OrderLazy, Resources
<1>2. CASE service = "inventory"
  BY <1>2 DEF N, Boot, Lazy, InventoryBoot, Resources
<1>3. CASE service = "iam"
  BY <1>3 DEF N, Boot, Lazy, IamBoot, Resources
<1>4. CASE service = "payment"
  BY <1>4 DEF N, Boot, Lazy, PaymentBoot, Resources
<1>5. CASE service = "assembly"
  BY <1>5 DEF N, Boot, Lazy, AssemblyBoot, AssemblyLazy, Resources
<1> QED BY <1>1, <1>2, <1>3, <1>4, <1>5 DEF AllServices

\* The list of each service, written out: no resource twice, the server last
\* of what app.New creates, the consumer group first of what comes later, and
\* what a handler works with before the server (but for the assembly service).
LEMMA Layout ==
  ASSUME service \in AllServices
  PROVE  /\ \A i, j \in 1 .. N + Len(Lazy) : All[i] = All[j] => i = j
         /\ service # "assembly" => All[N] = "Server"
         /\ service = "assembly" => \A i \in 1 .. N + Len(Lazy) : All[i] # "Server"
         /\ Lazy # <<>> => Lazy[1] = "Group" /\ All[N + 1] = "Group"
         /\ service # "assembly" => \A r \in Needs("request") : \E i \in 1 .. N - 1 : All[i] = r
         /\ service = "order" => \A r \in Needs("message") : \E i \in 1 .. N - 1 : All[i] = r
         /\ service = "assembly" => Needs("message") = {"Producer"}
<1>1. CASE service = "order"
  <2>1. N = 10 /\ Len(Lazy) = 1 /\ Boot = OrderBoot /\ Lazy = OrderLazy
    BY <1>1 DEF N, Boot, Lazy, OrderBoot, OrderLazy
  <2>2. /\ All[1] = "Logger" /\ All[2] = "Metrics" /\ All[3] = "Tracer" /\ All[4] = "IAM"
        /\ All[5] = "Redis" /\ All[6] = "Pool" /\ All[7] = "Producer" /\ All[8] = "Inventory"
        /\ All[9] = "Payment" /\ All[10] = "Server" /\ All[11] = "Group"
    BY <2>1 DEF N, All, OrderBoot, OrderLazy
  <2>3. \A i, j \in 1 .. N + Len(Lazy) : All[i] = All[j] => i = j
    <3>1. \A i \in 1 .. N + Len(Lazy) :
            \/ (i = 1 /\ All[i] = "Logger") \/ (i = 2 /\ All[i] = "Metrics") \/ (i = 3 /\ All[i] = "Tracer")
            \/ (i = 4 /\ All[i] = "IAM") \/ (i = 5 /\ All[i] = "Redis") \/ (i = 6 /\ All[i] = "Pool")
            \/ (i = 7 /\ All[i] = "Producer") \/ (i = 8 /\ All[i] = "Inventory") \/ (i = 9 /\ All[i] = "Payment")
            \/ (i = 10 /\ All[i] = "Server") \/ (i = 11 /\ All[i] = "Group")
      <4>1. N + Len(Lazy) = 11
        BY <2>1
      <4>2. \A i \in 1 .. 11 : i \in {1, 2, 3, 4, 5, 6, 7, 8, 9, 10, 11}
        OBVIOUS
      <4> QED BY <2>2, <4>1, <4>2
    <3> QED BY <3>1
  <2>4. /\ Needs("request") = {"Redis", "IAM", "Pool", "Producer", "Inventory", "Payment"}
        /\ Needs("message") = {"Pool", "Inventory"}
    BY <1>1 DEF Needs
  <2>5. \A i \in {4, 5, 6, 7, 8, 9} : i \in 1 .. N - 1
    BY <2>1
  <2>6. \A r \in Needs("request") \cup Needs("message") : \E i \in 1 .. N - 1 : All[i] = r
    BY <2>2, <2>4, <2>5
  <2>7. Lazy[1] = "Group"
    BY <2>1 DEF OrderLazy
  <2> QED BY <1>1, <2>1, <2>2, <2>3, <2>6, <2>7
<1>2. CASE service = "inventory"
  <2>1. N = 5 /\ Len(Lazy) = 0 /\ Boot = InventoryBoot /\ Lazy = <<>>
    BY <1>2 DEF N, Boot, Lazy, InventoryBoot
  <2>2. All[1] = "Logger" /\ All[2] = "Tracer" /\ All[3] = "IAM" /\ All[4] = "Pool" /\ All[5] = "Server"
    BY <2>1 DEF N, All, InventoryBoot
  <2>3. \A i, j \in 1 .. N + Len(Lazy) : All[i] = All[j] => i = j
    BY <2>1, <2>2
  <2>4. Needs("request") = {"IAM", "Pool"}
    BY <1>2 DEF Needs
  <2>5. \A r \in Needs("request") : \E i \in 1 .. N - 1 : All[i] = r
    BY <2>1, <2>2, <2>4
  <2> QED BY <1>2, <2>1, <2>2, <2>3, <2>5
<1>3. CASE service = "iam"
  <2>1. N = 5 /\ Len(Lazy) = 0 /\ Boot = IamBoot /\ Lazy = <<>>
    BY <1>3 DEF N, Boot, Lazy, IamBoot
  <2>2. All[1] = "Logger" /\ All[2] = "Tracer" /\ All[3] = "Pool" /\ All[4] = "Redis" /\ All[5] = "Server"
    BY <2>1 DEF N, All, IamBoot
  <2>3. \A i, j \in 1 .. N + Len(Lazy) : All[i] = All[j] => i = j
    BY <2>1, <2>2
  <2>4. Needs("request") = {"Pool", "Redis"}
    BY <1>3 DEF Needs
  <2>5. \A r \in Needs("request") : \E i \in 1 .. N - 1 : All[i] = r
    BY <2>1, <2>2, <2>4
  <2> QED BY <1>3, <2>1, <2>2, <2>3, <2>5
<1>4. CASE service = "payment"
  <2>1. N = 3 /\ Len(Lazy) = 0 /\ Boot = PaymentBoot /\ Lazy = <<>>
    BY <1>4 DEF N, Boot, Lazy, PaymentBoot
  <2>2. All[1] = "Logger" /\ All[2] = "Tracer" /\ All[3] = "Server"
    BY <2>1 DEF N, All, PaymentBoot
  <2>3. \A i, j \in 1 .. N + Len(Lazy) : All[i] = All[j] => i = j
    BY <2>1, <2>2
  <2>4. Needs("request") = {}
    BY <1>4 DEF Needs
  <2> QED BY <1>4, <2>1, <2>2, <2>3, <2>4
<1>5. CASE service = "assembly"
  <2>1. N = 1 /\ Len(Lazy) = 2 /\ Boot = AssemblyBoot /\ Lazy = AssemblyLazy
    BY <1>5 DEF N, Boot, Lazy, AssemblyBoot, AssemblyLazy
  <2>2. All[1] = "Logger" /\ All[2] = "Group" /\ All[3] = "Producer"
    BY <2>1 DEF N, All, AssemblyBoot, AssemblyLazy
  <2>3. \A i, j \in 1 .. N + Len(Lazy) : All[i] = All[j] => i = j
    BY <2>1, <2>2
  <2>4. \A i \in 1 .. N + Len(Lazy) : All[i] # "Server"
    BY <2>1, <2>2
  <2>5. Lazy[1] = "Group" /\ Needs("message") = {"Producer"}
    BY <1>5, <2>1 DEF AssemblyLazy, Needs
  <2> QED BY <1>5, <2>1, <2>2, <2>3, <2>4, <2>5
<1> QED BY <1>1, <1>2, <1>3, <1>4, <1>5 DEF AllServices

\* All is Boot and then Lazy.
LEMMA AllIs ==
  ASSUME service \in AllServices
  PROVE  /\ \A i \in 1 .. N : All[i] = Boot[i] /\ All[i] \in Resources
         /\ \A i \in 1 .. Len(Lazy) : All[N + i] = Lazy[i] /\ All[N + i] \in Resources
         /\ \A i \in 1 .. N + Len(Lazy) : All[i] \in Resources
<1> USE Lists
<1>1. \A i \in 1 .. N : All[i] = Boot[i]
  BY DEF All, N
<1>2. \A i \in 1 .. Len(Lazy) : All[N + i] = Lazy[i]
  BY DEF All, N
<1>3. \A i \in 1 .. N : Boot[i] \in Resources
  BY DEF N
<1>4. \A i \in 1 .. Len(Lazy) : Lazy[i] \in Resources
  OBVIOUS
<1>5. \A i \in 1 .. N + Len(Lazy) : All[i] \in Resources
  <2> SUFFICES ASSUME NEW i \in 1 .. N + Len(Lazy) PROVE All[i] \in Resources
    OBVIOUS
  <2>1. CASE i \in 1 .. N
    BY <1>1, <1>3, <2>1
  <2>2. CASE i \notin 1 .. N
    <3>1. i - N \in 1 .. Len(Lazy) /\ N + (i - N) = i
      BY <2>2
    <3> QED BY <1>2, <1>4, <3>1
  <2> QED BY <2>1, <2>2
<1> QED BY <1>1, <1>2, <1>3, <1>4, <1>5
-----------------------------------------------------------------------------
(* The closer's slice. *)

\* Appending a resource that is not listed yet.
LEMMA AppendFacts ==
  ASSUME NEW s \in Seq(Resources), NEW r \in Resources
  PROVE  /\ Append(s, r) \in Seq(Resources)
         /\ Range(Append(s, r)) = Range(s) \cup {r}
         /\ IsInjective(s) /\ r \notin Range(s) => IsInjective(Append(s, r))
<1>1. /\ Append(s, r) \in Seq(Resources) /\ Len(Append(s, r)) = Len(s) + 1
      /\ \A i \in 1 .. Len(s) : Append(s, r)[i] = s[i]
      /\ Append(s, r)[Len(s) + 1] = r
      /\ DOMAIN Append(s, r) = 1 .. Len(s) + 1 /\ DOMAIN s = 1 .. Len(s) /\ Len(s) \in Nat
  OBVIOUS
<1>2. Range(Append(s, r)) = Range(s) \cup {r}
  <2>1. \A i \in 1 .. Len(s) + 1 : i \in 1 .. Len(s) \/ i = Len(s) + 1
    BY <1>1
  <2>2. 1 .. Len(s) \subseteq 1 .. Len(s) + 1 /\ Len(s) + 1 \in 1 .. Len(s) + 1
    BY <1>1
  <2> QED BY <1>1, <2>1, <2>2 DEF Range
<1>3. ASSUME IsInjective(s), r \notin Range(s) PROVE IsInjective(Append(s, r))
  BY <1>1, <1>3 DEF IsInjective, Range
<1> QED BY <1>1, <1>2, <1>3

\* Taking the last resource off the list.
LEMMA FrontFacts ==
  ASSUME NEW s \in Seq(Resources), s # <<>>, IsInjective(s)
  PROVE  /\ Front(s) \in Seq(Resources) /\ IsInjective(Front(s))
         /\ Len(Front(s)) = Len(s) - 1
         /\ \A i \in 1 .. Len(s) - 1 : Front(s)[i] = s[i]
         /\ Range(Front(s)) = Range(s) \ {Last(s)}
         /\ Last(s) \in Range(s)
<1>1. Len(s) \in Nat \ {0} /\ DOMAIN s = 1 .. Len(s)
  OBVIOUS
<1>2. /\ Front(s) \in Seq(Resources) /\ Len(Front(s)) = Len(s) - 1
      /\ \A i \in 1 .. Len(s) - 1 : Front(s)[i] = s[i]
      /\ DOMAIN Front(s) = 1 .. Len(s) - 1
  BY <1>1 DEF Front
<1>3. IsInjective(Front(s))
  BY <1>1, <1>2 DEF IsInjective
<1>4. Last(s) = s[Len(s)] /\ Last(s) \in Range(s)
  BY <1>1 DEF Last, Range
<1>5. ASSUME NEW i \in DOMAIN s, s[i] = s[Len(s)] PROVE i = Len(s)
  <2>1. Len(s) \in DOMAIN s
    BY <1>1
  <2> QED BY <1>5, <2>1 DEF IsInjective
<1>6. \A n \in Nat \ {0} : \A i \in 1 .. n : i \in 1 .. n - 1 <=> i # n
  OBVIOUS
<1>7. \A n \in Nat \ {0} : 1 .. n - 1 \subseteq 1 .. n
  OBVIOUS
<1>8. Range(Front(s)) = Range(s) \ {Last(s)}
  BY <1>1, <1>2, <1>4, <1>5, <1>6, <1>7 DEF Range
<1> QED BY <1>2, <1>3, <1>4, <1>8
-----------------------------------------------------------------------------
(* The steps. *)

\* A process stays the service it is.
LEMMA SameLists ==
  ASSUME service' = service
  PROVE  Boot' = Boot /\ Lazy' = Lazy /\ N' = N /\ All' = All
BY DEF Boot, Lazy, N, All

\* The checks of NoUseAfterClose look at nothing else.
LEMMA SameMisuse ==
  ASSUME NoUseAfterClose, UNCHANGED <<service, slow, misused>>
  PROVE  NoUseAfterClose'
BY DEF NoUseAfterClose

\* Only the five services are looked at (their app.New).
LEMMA Known == TypeOK => service \in AllServices
BY LifecycleAssumption DEF TypeOK

\* A process starts with nothing created.
LEMMA InitLInv == Init => LInv
<1> SUFFICES ASSUME Init PROVE LInv
  OBVIOUS
<1>0. service \in AllServices
  BY LifecycleAssumption DEF Init
<1>1. TypeOK
  <2>1. slow \in BOOLEAN /\ signalled \in BOOLEAN
    BY Zenon DEF Init
  <2>2. work \in [Slots -> [kind : {"none", "request", "message"}, conn : BOOLEAN]]
    BY DEF Init, Idle
  <2>3. funcs \in Seq(Resources) /\ IsInjective(funcs) /\ todo \in Seq(Resources) /\ IsInjective(todo)
    BY DEF Init, IsInjective
  <2> QED BY <2>1, <2>2, <2>3 DEF Init, TypeOK
<1>2. WholeWork /\ Quiescent
  BY DEF Init, WholeWork, Quiescent, Idle
<1>3. Registered
  <2>1. Range(funcs) = {}
    BY DEF Init, Range
  <2>2. Begins(funcs) /\ Len(funcs) <= Len(Boot)
    BY <1>0, Lists DEF Init, Begins, N
  <2> QED BY <1>2, <2>1, <2>2 DEF Init, Registered
<1>4. ServerHeld /\ GroupHeld
  BY DEF Init, ServerHeld, GroupHeld, Idle
<1>5. Unwinding /\ Ended /\ NoUseAfterClose /\ EverythingClosed
  BY DEF Init, Unwinding, Ended, NoUseAfterClose, EverythingClosed
<1> QED BY <1>1, <1>2, <1>3, <1>4, <1>5 DEF LInv

\* app.New creates the next resource and registers its close function.
LEMMA InitDepKeeps ==
  ASSUME LInv, InitDep
  PROVE  LInv'
<1> DEFINE r == All[Len(funcs) + 1]
<1>0. service \in AllServices /\ TypeOK
  BY Known DEF LInv
<1>1. /\ Begins(funcs) /\ created = Range(funcs) /\ up = created /\ todo = <<>> /\ closing = None
      /\ Quiescent /\ stage = "init"
      /\ funcs \in Seq(Resources) /\ IsInjective(funcs)
  BY DEF LInv, InitDep, Registered, TypeOK
<1>2. Len(funcs) \in Nat /\ N \in Nat /\ Len(Lazy) \in Nat /\ Len(funcs) < N
  BY <1>0, <1>1, Lists DEF InitDep, N
<1>3. Len(funcs) + 1 \in 1 .. N /\ Len(funcs) + 1 \in 1 .. N + Len(Lazy)
  BY <1>2
<1>4. r \in Resources /\ Boot[Len(funcs) + 1] = r
  BY <1>0, <1>3, AllIs
<1>5. r \notin Range(funcs)
  <2> SUFFICES ASSUME NEW i \in 1 .. Len(funcs), funcs[i] = r PROVE FALSE
    BY <1>1 DEF Range
  <2>1. All[i] = r /\ i \in 1 .. N + Len(Lazy)
    BY <1>1, <1>2 DEF Begins
  <2> QED BY <1>0, <1>2, <1>3, <2>1, Layout
<1>6. /\ funcs' = Append(funcs, r) /\ created' = created \cup {r} /\ up' = up \cup {r}
      /\ UNCHANGED <<service, slow, stage, todo, closing, server, consumer, signalled, work, misused>>
  BY <1>4 DEF InitDep, Add
<1>7. /\ funcs' \in Seq(Resources) /\ IsInjective(funcs') /\ Range(funcs') = Range(funcs) \cup {r}
  BY <1>1, <1>4, <1>5, <1>6, AppendFacts
<1>8. Boot' = Boot /\ Lazy' = Lazy /\ N' = N /\ All' = All
  BY <1>6, SameLists
<1>9. Len(funcs') = Len(funcs) + 1 /\ \A i \in 1 .. Len(funcs) + 1 : funcs'[i] = All[i]
  <2>1. Len(funcs') = Len(funcs) + 1 /\ funcs'[Len(funcs) + 1] = r
    BY <1>1, <1>4, <1>6
  <2>2. \A i \in 1 .. Len(funcs) : funcs'[i] = funcs[i] /\ funcs[i] = All[i]
    BY <1>1, <1>4, <1>6 DEF Begins
  <2> QED BY <1>2, <2>1, <2>2
<1>10. TypeOK'
  BY <1>0, <1>1, <1>4, <1>6, <1>7 DEF TypeOK
<1>11. Registered'
  BY <1>1, <1>2, <1>6, <1>7, <1>8, <1>9 DEF Registered, Begins, N, Quiescent
<1>12. /\ WholeWork' /\ Unwinding' /\ ServerHeld' /\ GroupHeld' /\ Ended' /\ EverythingClosed'
  BY <1>1, <1>6 DEF LInv, WholeWork, Unwinding, ServerHeld, GroupHeld, Ended, EverythingClosed, Quiescent, Idle
<1> QED BY <1>6, <1>10, <1>11, <1>12, SameMisuse DEF LInv

\* Run starts the server and the consumer.
LEMMA RunKeeps ==
  ASSUME LInv, Run
  PROVE  LInv'
<1>0. service \in AllServices /\ TypeOK
  BY Known DEF LInv
<1>1. /\ Begins(funcs) /\ created = Range(funcs) /\ up = created /\ todo = <<>> /\ closing = None
      /\ Quiescent /\ stage = "init" /\ funcs \in Seq(Resources)
      /\ Len(funcs) = Len(Boot)
  BY DEF LInv, Run, Registered, TypeOK
<1>2. /\ stage' = "wait" /\ consumer' = IF Lazy = <<>> THEN "none" ELSE "setup"
      /\ server' = IF "Server" \in up THEN "serving" ELSE "none"
      /\ UNCHANGED <<service, slow, funcs, todo, closing, created, up, signalled, work, misused>>
  BY DEF Run
<1>3. Boot' = Boot /\ Lazy' = Lazy /\ All' = All
  BY <1>2, SameLists
<1>4. "Server" \in up => service # "assembly"
  <2> SUFFICES ASSUME NEW i \in 1 .. Len(funcs), funcs[i] = "Server" PROVE service # "assembly"
    BY <1>1 DEF Range
  <2>1. All[i] = "Server" /\ i \in 1 .. N + Len(Lazy)
    BY <1>0, <1>1, Lists DEF Begins, N
  <2> QED BY <1>0, <2>1, Layout
<1>5. TypeOK'
  BY <1>0, <1>2 DEF TypeOK
<1>6. Registered'
  BY <1>0, <1>1, <1>2, <1>3, Lists DEF Registered, Begins, N
<1>7. ServerHeld' /\ GroupHeld'
  BY <1>1, <1>2, <1>3, <1>4 DEF ServerHeld, GroupHeld, Quiescent, Idle
<1>8. WholeWork' /\ Unwinding' /\ Ended' /\ EverythingClosed'
  BY <1>1, <1>2 DEF LInv, WholeWork, Unwinding, Ended, EverythingClosed, Quiescent
<1> QED BY <1>2, <1>5, <1>6, <1>7, <1>8, SameMisuse DEF LInv

\* The process ends: by os.Exit, by a second signal, or when Run returns.
LEMMA EndingKeeps ==
  ASSUME LInv, Exit \/ Killed \/ Return
  PROVE  LInv'
<1>1. /\ stage' \in {"returned", "exited"} /\ server' = "none" /\ consumer' = "none"
      /\ work' = [k \in Slots |-> Idle]
      /\ UNCHANGED <<service, slow, funcs, todo, closing, created, up, signalled, misused>>
  BY DEF Exit, Killed, Return
<1>2. TypeOK'
  <2>1. work' \in [Slots -> [kind : {"none", "request", "message"}, conn : BOOLEAN]]
    BY <1>1 DEF Idle
  <2> QED BY <1>1, <2>1 DEF LInv, TypeOK
<1>3. WholeWork' /\ Registered' /\ Unwinding' /\ ServerHeld' /\ GroupHeld' /\ Ended'
  BY <1>1 DEF WholeWork, Registered, Unwinding, ServerHeld, GroupHeld, Ended, Quiescent, Idle
<1>4. EverythingClosed'
  <2> SUFFICES ASSUME stage' = "returned" PROVE up = Range(funcs)
    BY <1>1 DEF EverythingClosed
  <2>1. stage = "close" /\ todo = <<>> /\ closing = None
    BY DEF Exit, Killed, Return
  <2>2. Range(todo) = {}
    BY <2>1 DEF Range
  <2> QED BY <2>1, <2>2 DEF LInv, Unwinding
<1> QED BY <1>1, <1>2, <1>3, <1>4, SameMisuse DEF LInv

\* The consumer's goroutine creates and registers the next of its resources,
\* next to a Run that waits or is closing already.
LEMMA SetupKeeps ==
  ASSUME LInv, SetupConsumer
  PROVE  LInv'
<1>0. service \in AllServices /\ TypeOK
  BY Known DEF LInv
<1>1. PICK i \in 1 .. Len(Lazy) :
        /\ Lazy[i] \notin created /\ \A j \in 1 .. i - 1 : Lazy[j] \in created
        /\ Add(Lazy[i])
  <2>1. DOMAIN Lazy = 1 .. Len(Lazy)
    BY <1>0, Lists
  <2> QED BY <2>1 DEF SetupConsumer
<1> DEFINE r == Lazy[i]
<1>2. /\ stage \in {"wait", "close"} /\ consumer = "setup"
      /\ funcs' = Append(funcs, r) /\ created' = created \cup {r} /\ up' = up \cup {r}
      /\ UNCHANGED <<service, slow, stage, todo, closing, server, consumer, signalled, work, misused>>
  BY <1>1 DEF SetupConsumer, Running, Add
<1>3. /\ N \in Nat /\ Len(Lazy) \in Nat /\ i \in Nat /\ N + i \in 1 .. N + Len(Lazy)
      /\ r = All[N + i] /\ r \in Resources /\ r \notin created
  BY <1>0, <1>1, Lists, AllIs
<1>4. funcs \in Seq(Resources) /\ IsInjective(funcs) /\ Len(funcs) \in Nat
  BY <1>0 DEF TypeOK
<1>5. r \notin Range(funcs) /\ r \notin Range(todo)
  <2>1. CASE stage = "wait"
    BY <1>3, <2>1 DEF LInv, Registered, Range
  <2>2. CASE stage = "close"
    BY <1>3, <2>2 DEF LInv, Unwinding
  <2> QED BY <1>2, <2>1, <2>2
<1>6. funcs' \in Seq(Resources) /\ IsInjective(funcs') /\ Range(funcs') = Range(funcs) \cup {r}
  BY <1>2, <1>3, <1>4, <1>5, AppendFacts
<1>7. Boot' = Boot /\ Lazy' = Lazy /\ N' = N /\ All' = All
  BY <1>2, SameLists
<1>8. TypeOK'
  BY <1>0, <1>2, <1>3, <1>6 DEF TypeOK
<1>9. Registered'
  <2> SUFFICES ASSUME stage = "wait" PROVE Registered'
    BY <1>2 DEF Registered
  <2>1. /\ Begins(funcs) /\ created = Range(funcs) /\ up = created /\ todo = <<>> /\ closing = None
        /\ Len(funcs) >= N
    BY DEF LInv, Registered, N
  <2>2. Len(funcs) = N + i - 1
    <3>1. ASSUME Len(funcs) >= N + i PROVE FALSE
      <4>1. N + i \in 1 .. Len(funcs)
        BY <1>3, <1>4, <3>1
      <4>2. funcs[N + i] = r
        BY <1>3, <2>1, <4>1 DEF Begins
      <4> QED BY <1>4, <1>5, <4>1, <4>2 DEF Range
    <3>2. ASSUME Len(funcs) < N + i - 1 PROVE FALSE
      <4> DEFINE j == i - 1
      <4>1. j \in 1 .. i - 1 /\ j \in 1 .. Len(Lazy) /\ N + j \in 1 .. N + Len(Lazy) /\ N + j > Len(funcs)
        BY <1>1, <1>3, <1>4, <2>1, <3>2
      <4>2. Lazy[j] \in Range(funcs) /\ Lazy[j] = All[N + j]
        BY <1>0, <1>1, <2>1, <4>1, AllIs
      <4>3. PICK x \in 1 .. Len(funcs) : funcs[x] = All[N + j]
        BY <1>4, <4>2 DEF Range
      <4>4. All[x] = All[N + j] /\ x \in 1 .. N + Len(Lazy)
        BY <1>3, <1>4, <2>1, <4>3 DEF Begins, N
      <4>5. x = N + j
        BY <1>0, <4>1, <4>4, Layout
      <4> QED BY <1>3, <1>4, <4>1, <4>3, <4>5
    <3> QED BY <1>3, <1>4, <3>1, <3>2
  <2>3. Len(funcs') = N + i /\ \A x \in 1 .. N + i : funcs'[x] = All[x]
    <3>1. Len(funcs') = Len(funcs) + 1 /\ funcs'[Len(funcs) + 1] = r
      BY <1>2, <1>3, <1>4
    <3>2. \A x \in 1 .. Len(funcs) : funcs'[x] = funcs[x] /\ funcs[x] = All[x]
      BY <1>2, <1>3, <1>4, <2>1 DEF Begins
    <3>3. \A x \in 1 .. N + i : x \in 1 .. Len(funcs) \/ x = N + i
      BY <1>3, <2>2
    <3> QED BY <1>3, <2>2, <3>1, <3>2, <3>3
  <2>4. N + i <= N + Len(Lazy) /\ N + i >= N
    BY <1>3
  <2>5. Begins(funcs)'
    BY <1>7, <2>3, <2>4 DEF Begins, N
  <2> QED BY <1>2, <1>6, <1>7, <2>1, <2>3, <2>4, <2>5 DEF Registered, N
<1>10. Unwinding'
  BY <1>2, <1>5, <1>6, <1>7 DEF LInv, Unwinding, Begins
<1>11. ServerHeld' /\ GroupHeld'
  BY <1>2, <1>7 DEF LInv, ServerHeld, GroupHeld
<1>12. WholeWork' /\ Ended' /\ EverythingClosed'
  BY <1>2 DEF LInv, WholeWork, Ended, EverythingClosed, Quiescent
<1> QED BY <1>2, <1>8, <1>9, <1>10, <1>11, <1>12, SameMisuse DEF LInv

\* The consumer starts or returns, the server fails, the signal comes.
LEMMA EventKeeps ==
  ASSUME LInv, Consume \/ ConsumeReturns \/ ServerFails \/ Signal
  PROVE  LInv'
<1>1. /\ stage \in {"wait", "close"}
      /\ UNCHANGED <<service, slow, stage, funcs, todo, closing, created, up, work, misused>>
  BY DEF Consume, ConsumeReturns, ServerFails, Signal, Running
<1>2. Boot' = Boot /\ Lazy' = Lazy /\ All' = All
  BY <1>1, SameLists
<1>3. /\ server' \in {server, "failed"}
      /\ signalled => signalled'
      /\ \/ consumer' = consumer
         \/ /\ consumer = "setup" /\ consumer' = IF signalled THEN "returned" ELSE "consuming"
            /\ Range(Lazy) \subseteq created
         \/ /\ consumer = "consuming" /\ consumer' = "returned"
            /\ \A k \in Slots : work[k].kind # "message"
  BY DEF Consume, ConsumeReturns, ServerFails, Signal
<1>4. TypeOK'
  <2>1. signalled' \in BOOLEAN
    BY Zenon DEF LInv, TypeOK, Consume, ConsumeReturns, ServerFails, Signal
  <2> QED BY <1>1, <1>3, <2>1 DEF LInv, TypeOK
<1>5. Registered' /\ Unwinding'
  BY <1>1, <1>2, <1>3 DEF LInv, Registered, Unwinding, Begins
<1>6. ServerHeld'
  BY <1>1, <1>3 DEF LInv, ServerHeld
<1>7. GroupHeld'
  BY <1>1, <1>2, <1>3 DEF LInv, GroupHeld, Unwinding
<1>8. WholeWork' /\ Ended' /\ EverythingClosed'
  BY <1>1 DEF LInv, WholeWork, Ended, EverythingClosed
<1> QED BY <1>1, <1>4, <1>5, <1>6, <1>7, <1>8, SameMisuse DEF LInv

\* CloseAll takes the slice.
LEMMA ShutDownKeeps ==
  ASSUME LInv, ShutDown
  PROVE  LInv'
<1>0. service \in AllServices /\ TypeOK
  BY Known DEF LInv
<1>1. /\ stage = "wait" /\ stage' = "close" /\ signalled' = TRUE
      /\ todo' = funcs /\ funcs' = <<>>
      /\ UNCHANGED <<service, slow, closing, created, up, server, consumer, work, misused>>
  BY DEF ShutDown
<1>2. /\ Begins(funcs) /\ created = Range(funcs) /\ up = created /\ closing = None
      /\ Len(funcs) >= N /\ funcs \in Seq(Resources) /\ Len(funcs) \in Nat
  BY <1>0, <1>1 DEF LInv, Registered, TypeOK, N
<1>3. Boot' = Boot /\ Lazy' = Lazy /\ All' = All
  BY <1>1, SameLists
<1>4. Range(funcs') = {} /\ None \notin Range(funcs)
  BY <1>1, <1>2, LifecycleAssumption DEF Range
<1>5. TypeOK'
  <2>1. signalled' \in BOOLEAN
    BY <1>1, Zenon
  <2>2. funcs' \in Seq(Resources) /\ IsInjective(funcs')
    BY <1>1 DEF IsInjective
  <2> QED BY <1>0, <1>1, <2>1, <2>2 DEF TypeOK
<1>6. Registered'
  BY <1>1 DEF Registered
<1>7. Unwinding'
  <2>1. Begins(todo)'
    BY <1>1, <1>2, <1>3 DEF Begins
  <2>2. up' = Range(funcs') \cup (Range(todo') \ {closing'})
    BY <1>1, <1>2, <1>4
  <2>3. /\ Range(funcs') \cap Range(todo') = {}
        /\ Range(funcs') \cup Range(todo') \subseteq created'
    BY <1>1, <1>2, <1>4
  <2> QED BY <1>1, <1>2, <2>1, <2>2, <2>3 DEF Unwinding
<1>8. service # "assembly" => "Server" \in Range(todo')
  <2>1. N \in 1 .. Len(funcs)
    BY <1>0, <1>2, Lists
  <2>2. funcs[N] = All[N]
    BY <1>2, <2>1 DEF Begins
  <2> QED BY <1>0, <1>1, <1>2, <2>1, <2>2, Layout DEF Range
<1>9. ServerHeld'
  BY <1>1, <1>2, <1>8, LifecycleAssumption DEF LInv, ServerHeld, Resources
<1>10. GroupHeld'
  <2>1. consumer = "consuming" => "Group" \in Range(todo')
    <3> SUFFICES ASSUME consumer = "consuming" PROVE "Group" \in Range(todo')
      OBVIOUS
    <3>1. Lazy # <<>> /\ Range(Lazy) \subseteq Range(funcs)
      BY <1>2 DEF LInv, GroupHeld
    <3>2. 1 \in DOMAIN Lazy /\ Lazy[1] = "Group"
      BY <1>0, <3>1, Lists, Layout
    <3> QED BY <1>1, <3>1, <3>2 DEF Range
  <2> QED BY <1>1, <1>3, <2>1 DEF LInv, GroupHeld
<1>11. WholeWork' /\ Ended' /\ EverythingClosed'
  BY <1>1 DEF LInv, WholeWork, Ended, EverythingClosed
<1> QED BY <1>1, <1>5, <1>6, <1>7, <1>9, <1>10, <1>11, SameMisuse DEF LInv

\* CloseAll calls the close function of the last resource.
LEMMA BeginKeeps ==
  ASSUME LInv, BeginClose
  PROVE  LInv'
<1>0. service \in AllServices /\ TypeOK
  BY Known DEF LInv
<1>1. /\ stage = "close" /\ closing = None /\ todo # <<>>
      /\ closing' = Last(todo) /\ up' = up \ {Last(todo)}
      /\ server' = IF Last(todo) = "Server" THEN "stopped" ELSE server
      /\ UNCHANGED <<service, slow, stage, funcs, todo, consumer, signalled, work, misused, created>>
  BY DEF BeginClose
<1>2. Boot' = Boot /\ Lazy' = Lazy /\ All' = All
  BY <1>1, SameLists
<1>3. Last(todo) \in Range(todo) /\ Last(todo) \in Resources /\ None \notin Range(todo)
  <2>1. todo \in Seq(Resources) /\ IsInjective(todo)
    BY <1>0 DEF TypeOK
  <2>2. Range(todo) \subseteq Resources
    BY <2>1 DEF Range
  <2>3. Last(todo) \in Range(todo)
    BY <1>1, <2>1, FrontFacts
  <2> QED BY <2>2, <2>3, LifecycleAssumption
<1>4. TypeOK'
  BY <1>0, <1>1, <1>3 DEF TypeOK
<1>5. Unwinding'
  BY <1>1, <1>2, <1>3 DEF LInv, Unwinding, Begins
<1>6. ServerHeld'
  BY <1>1 DEF LInv, ServerHeld
<1>7. GroupHeld'
  BY <1>1, <1>2 DEF LInv, GroupHeld
<1>8. Registered' /\ WholeWork' /\ Ended' /\ EverythingClosed'
  BY <1>1 DEF LInv, Registered, WholeWork, Ended, EverythingClosed
<1> QED BY <1>1, <1>4, <1>5, <1>6, <1>7, <1>8, SameMisuse DEF LInv

\* The close function has waited for whom it waits for, and returns.
LEMMA EndCloseKeeps ==
  ASSUME LInv, EndClose
  PROVE  LInv'
<1>0. service \in AllServices /\ TypeOK
  BY Known DEF LInv
<1>1. /\ stage = "close" /\ closing # None /\ Drained(closing)
      /\ todo' = Front(todo) /\ closing' = None
      /\ UNCHANGED <<service, slow, stage, funcs, created, up, server, consumer, signalled, work, misused>>
  BY DEF EndClose
<1>2. todo # <<>> /\ closing = Last(todo) /\ todo \in Seq(Resources) /\ IsInjective(todo)
  BY <1>0, <1>1 DEF LInv, Unwinding, TypeOK
<1>3. Boot' = Boot /\ Lazy' = Lazy /\ All' = All
  BY <1>1, SameLists
<1>4. /\ todo' \in Seq(Resources) /\ IsInjective(todo') /\ Len(todo') = Len(todo) - 1
      /\ \A i \in 1 .. Len(todo) - 1 : todo'[i] = todo[i]
      /\ Range(todo') = Range(todo) \ {closing}
  BY <1>1, <1>2, FrontFacts
<1>5. TypeOK'
  BY <1>0, <1>1, <1>4 DEF TypeOK
<1>6. Unwinding'
  <2>1. Begins(todo)'
    <3>1. Len(todo) \in Nat /\ Len(Boot) \in Nat /\ Len(Lazy) \in Nat
      BY <1>0, <1>2, Lists DEF N
    <3>2. Begins(todo)
      BY <1>1 DEF LInv, Unwinding
    <3> QED BY <1>3, <1>4, <3>1, <3>2 DEF Begins
  <2>2. None \notin Range(todo')
    BY <1>4, LifecycleAssumption DEF Range
  <2> QED BY <1>1, <1>4, <2>1, <2>2 DEF LInv, Unwinding
<1>7. ServerHeld'
  <2>1. \A k \in Slots : work[k].kind = "request" /\ ~(service = "order" /\ slow) => closing # "Server"
    BY <1>1 DEF Drained
  <2>2. None # "Server"
    BY LifecycleAssumption DEF Resources
  <2> QED BY <1>1, <1>4, <2>1, <2>2 DEF LInv, ServerHeld
<1>8. GroupHeld'
  <2>1. \A k \in Slots : work[k].kind = "message" => closing # "Group"
    BY <1>1 DEF Drained
  <2> QED BY <1>1, <1>3, <1>4, <2>1 DEF LInv, GroupHeld
<1>9. Registered' /\ WholeWork' /\ Ended' /\ EverythingClosed'
  BY <1>1 DEF LInv, Registered, WholeWork, Ended, EverythingClosed
<1> QED BY <1>1, <1>5, <1>6, <1>7, <1>8, <1>9, SameMisuse DEF LInv

\* What comes before something that is still to be closed is open.
LEMMA OpenBefore ==
  ASSUME LInv, stage = "close", NEW j \in 1 .. N + Len(Lazy), All[j] \in Range(todo),
         NEW i \in 1 .. j - 1
  PROVE  All[i] \in up
<1>0. service \in AllServices /\ TypeOK
  BY Known DEF LInv
<1>1. /\ todo \in Seq(Resources) /\ Len(todo) \in Nat /\ DOMAIN todo = 1 .. Len(todo)
      /\ N \in Nat /\ Len(Lazy) \in Nat
  BY <1>0, Lists DEF TypeOK
<1>2. /\ Len(todo) <= N + Len(Lazy) /\ \A x \in 1 .. Len(todo) : todo[x] = All[x]
      /\ up = Range(funcs) \cup (Range(todo) \ {closing})
      /\ closing # None => closing = Last(todo)
  BY DEF LInv, Unwinding, Begins, N
<1>3. PICK x \in 1 .. Len(todo) : todo[x] = All[j]
  BY <1>1 DEF Range
<1>4. x = j
  <2>1. x \in 1 .. N + Len(Lazy) /\ All[x] = All[j]
    BY <1>1, <1>2, <1>3
  <2> QED BY <1>0, <2>1, Layout
<1>5. /\ i \in 1 .. Len(todo) /\ i \in 1 .. N + Len(Lazy) /\ i # Len(todo)
      /\ Len(todo) \in 1 .. Len(todo) /\ Len(todo) \in 1 .. N + Len(Lazy)
  <2>1. j \in 1 .. Len(todo) /\ Len(todo) <= N + Len(Lazy)
    BY <1>2, <1>4
  <2>2. \A n, m, a, b \in Nat : b \in 1 .. n /\ n <= m /\ a \in 1 .. b - 1 =>
          a \in 1 .. n /\ a \in 1 .. m /\ a # n /\ n \in 1 .. n /\ n \in 1 .. m
    OBVIOUS
  <2>3. N + Len(Lazy) \in Nat /\ i \in Nat /\ j \in Nat
    BY <1>1
  <2> QED BY <1>1, <2>1, <2>2, <2>3
<1>6. All[i] \in Range(todo)
  BY <1>1, <1>2, <1>5 DEF Range
<1>7. All[i] # closing
  <2>1. CASE closing = None
    BY <1>0, <1>5, <2>1, AllIs, LifecycleAssumption
  <2>2. CASE closing # None
    <3>1. closing = All[Len(todo)]
      BY <1>2, <1>5, <2>2 DEF Last
    <3> QED BY <1>0, <1>5, <3>1, Layout
  <2> QED BY <2>1, <2>2
<1> QED BY <1>2, <1>6, <1>7

\* A handler finds open what it works with, but for the two the property
\* excepts.
LEMMA NeedsOpen ==
  ASSUME LInv, NEW k \in Slots, work[k].kind \in {"request", "message"},
         NEW r \in Needs(work[k].kind), r \notin up
  PROVE  \/ service = "order" /\ slow /\ work[k].kind = "request"
         \/ service = "assembly" /\ work[k].kind = "message" /\ r = "Producer"
<1> SUFFICES ASSUME ~(service = "order" /\ slow /\ work[k].kind = "request"),
                    ~(service = "assembly" /\ work[k].kind = "message" /\ r = "Producer")
             PROVE  FALSE
  OBVIOUS
<1>0. service \in AllServices /\ TypeOK /\ N \in Nat \ {0} /\ Len(Lazy) \in Nat
  BY Known, Lists DEF LInv
<1>1. stage \in {"wait", "close"}
  BY DEF LInv, ServerHeld, GroupHeld
<1>2. PICK i \in 1 .. N - 1 : All[i] = r
  <2>1. CASE work[k].kind = "request"
    <3>1. service # "assembly"
      BY <2>1 DEF LInv, ServerHeld
    <3> QED BY <1>0, <2>1, <3>1, Layout
  <2>2. CASE work[k].kind = "message"
    <3>1. Lazy # <<>>
      BY <2>2 DEF LInv, GroupHeld
    <3>2. service = "order"
      BY <1>0, <2>2, <3>1, Lists, Layout
    <3> QED BY <1>0, <2>2, <3>2, Layout
  <2> QED BY <2>1, <2>2
<1>3. CASE stage = "wait"
  <2>1. /\ \A x \in 1 .. Len(funcs) : funcs[x] = All[x]
        /\ up = Range(funcs) /\ Len(funcs) >= N /\ funcs \in Seq(Resources)
    BY <1>0, <1>3 DEF LInv, Registered, Begins, TypeOK, N
  <2>2. i \in DOMAIN funcs /\ i \in 1 .. Len(funcs)
    BY <1>0, <2>1
  <2> QED BY <1>2, <2>1, <2>2 DEF Range
<1>4. CASE stage = "close"
  <2>1. CASE work[k].kind = "request"
    <3>1. service # "assembly" /\ "Server" \in Range(todo)
      BY <1>4, <2>1 DEF LInv, ServerHeld
    <3>2. All[N] \in Range(todo) /\ N \in 1 .. N + Len(Lazy)
      BY <1>0, <3>1, Layout
    <3> QED BY <1>2, <1>4, <3>2, OpenBefore
  <2>2. CASE work[k].kind = "message"
    <3>1. Lazy # <<>> /\ "Group" \in Range(todo)
      BY <1>4, <2>2 DEF LInv, GroupHeld
    <3>2. Lazy \in Seq(Resources)
      BY <1>0, Lists
    <3>3. Len(Lazy) # 0
      BY <3>1, <3>2
    <3>4. All[N + 1] \in Range(todo) /\ N + 1 \in 1 .. N + Len(Lazy) /\ i \in 1 .. (N + 1) - 1
      BY <1>0, <3>1, <3>3, Layout
    <3> QED BY <1>2, <1>4, <3>4, OpenBefore
  <2> QED BY <2>1, <2>2
<1> QED BY <1>1, <1>3, <1>4

\* A request or a message is taken up.
LEMMA AcceptKeeps ==
  ASSUME LInv, NEW k \in Slots, NEW kind \in {"request", "message"}, Accept(k, kind)
  PROVE  LInv'
<1>1. /\ stage \in {"wait", "close"}
      /\ \/ kind = "request" /\ server = "serving"
         \/ kind = "message" /\ consumer = "consuming" /\ "Group" \in up
      /\ work' = [work EXCEPT ![k] = [kind |-> kind, conn |-> FALSE]]
      /\ UNCHANGED <<service, slow, stage, funcs, todo, closing, created, up, server, consumer, signalled, misused>>
  BY DEF Accept, Running
<1>2. Boot' = Boot /\ Lazy' = Lazy /\ All' = All
  BY <1>1, SameLists
<1>3. /\ work'[k] = [kind |-> kind, conn |-> FALSE]
      /\ \A l \in Slots : l # k => work'[l] = work[l]
  BY <1>1 DEF LInv, TypeOK
<1>4. TypeOK'
  <2>1. work' \in [Slots -> [kind : {"none", "request", "message"}, conn : BOOLEAN]]
    BY <1>1 DEF LInv, TypeOK
  <2> QED BY <1>1, <2>1 DEF LInv, TypeOK
<1>5. WholeWork'
  BY <1>3 DEF LInv, WholeWork
<1>6. Registered' /\ Unwinding'
  BY <1>1, <1>2 DEF LInv, Registered, Unwinding, Begins
<1>7. ServerHeld'
  BY <1>1, <1>3 DEF LInv, ServerHeld
<1>8. GroupHeld'
  <2>1. kind = "message" /\ stage = "close" => "Group" \in Range(todo)
    <3> SUFFICES ASSUME kind = "message", stage = "close" PROVE "Group" \in Range(todo)
      OBVIOUS
    <3>1. Range(funcs) = {}
      BY <1>1 DEF LInv, GroupHeld, Range
    <3> QED BY <1>1, <3>1 DEF LInv, Unwinding
  <2> QED BY <1>1, <1>2, <1>3, <2>1 DEF LInv, GroupHeld
<1>9. Ended' /\ EverythingClosed'
  BY <1>1 DEF LInv, Ended, EverythingClosed
<1> QED BY <1>1, <1>4, <1>5, <1>6, <1>7, <1>8, <1>9, SameMisuse DEF LInv

\* A handler takes a connection, returns, or fails on a closed resource.
LEMMA WorkKeeps ==
  ASSUME LInv, NEW k \in Slots,
         Acquire(k) \/ Finish(k) \/ \E r \in Resources : FindClosed(k, r)
  PROVE  LInv'
<1>1. /\ work[k] # Idle
      /\ work' \in {[work EXCEPT ![k] = Idle], [work EXCEPT ![k] = [kind |-> @.kind, conn |-> TRUE]]}
      /\ UNCHANGED <<service, slow, stage, funcs, todo, closing, created, up, server, consumer, signalled>>
  BY DEF Acquire, Finish, FindClosed
<1>2. Boot' = Boot /\ Lazy' = Lazy /\ All' = All
  BY <1>1, SameLists
<1>3. /\ work'[k] = Idle \/ work'[k] = [kind |-> work[k].kind, conn |-> TRUE]
      /\ \A l \in Slots : l # k => work'[l] = work[l]
      /\ work[k].kind \in {"request", "message"}
  <2>1. work[k] \in [kind : {"none", "request", "message"}, conn : BOOLEAN]
    BY DEF LInv, TypeOK
  <2>2. work[k].kind # "none"
    BY <1>1 DEF LInv, WholeWork
  <2> QED BY <1>1, <2>1, <2>2 DEF LInv, TypeOK
<1>4. work' \in [Slots -> [kind : {"none", "request", "message"}, conn : BOOLEAN]]
  <2> DEFINE W == [kind : {"none", "request", "message"}, conn : BOOLEAN]
  <2>1. work \in [Slots -> W]
    BY DEF LInv, TypeOK
  <2>2. Idle \in W /\ [kind |-> work[k].kind, conn |-> TRUE] \in W
    BY <1>3 DEF Idle
  <2> HIDE DEF W
  <2>3. /\ [work EXCEPT ![k] = Idle] \in [Slots -> W]
        /\ [work EXCEPT ![k] = [kind |-> @.kind, conn |-> TRUE]] \in [Slots -> W]
    BY <2>1, <2>2
  <2>4. work' \in [Slots -> W]
    BY <1>1, <2>3
  <2> QED BY <2>4 DEF W
<1>5. \A m \in misused' \ misused :
           /\ m \in [kind : {"request", "message"}, resource : Resources]
           /\ \/ service = "order" /\ slow /\ m.kind = "request"
              \/ service = "assembly" /\ m.kind = "message" /\ m.resource = "Producer"
  <2>1. CASE misused' = misused
    BY <2>1
  <2>2. ASSUME NEW r \in Resources, FindClosed(k, r)
        PROVE  \A m \in misused' \ misused :
                 /\ m \in [kind : {"request", "message"}, resource : Resources]
                 /\ \/ service = "order" /\ slow /\ m.kind = "request"
                    \/ service = "assembly" /\ m.kind = "message" /\ m.resource = "Producer"
    <3>1. r \in Needs(work[k].kind) /\ r \notin up
      BY <2>2 DEF FindClosed
    <3>2. \A m \in misused' \ misused : m = [kind |-> work[k].kind, resource |-> r]
      BY <2>2 DEF FindClosed
    <3>3. \/ service = "order" /\ slow /\ work[k].kind = "request"
          \/ service = "assembly" /\ work[k].kind = "message" /\ r = "Producer"
      BY <1>3, <3>1, NeedsOpen
    <3> QED BY <1>3, <3>2, <3>3
  <2> QED BY <2>1, <2>2 DEF Acquire, Finish
<1>6. TypeOK' /\ NoUseAfterClose'
  BY <1>1, <1>4, <1>5 DEF LInv, TypeOK, NoUseAfterClose
<1>7. WholeWork'
  BY <1>3 DEF LInv, WholeWork
<1>8. stage \in {"wait", "close"}
  BY <1>3 DEF LInv, ServerHeld, GroupHeld
<1>9. Registered' /\ Unwinding'
  BY <1>1, <1>2, <1>8 DEF LInv, Registered, Unwinding, Begins
<1>10. ServerHeld'
  BY <1>1, <1>3 DEF LInv, ServerHeld, Idle
<1>11. GroupHeld'
  BY <1>1, <1>2, <1>3 DEF LInv, GroupHeld, Idle
<1>12. Ended' /\ EverythingClosed'
  BY <1>1, <1>8 DEF LInv, Ended, EverythingClosed
<1> QED BY <1>6, <1>7, <1>9, <1>10, <1>11, <1>12 DEF LInv

\* Every step keeps the invariant.
LEMMA LInvStep == LInv /\ [Next]_vars => LInv'
<1>1. ASSUME LInv, UNCHANGED vars PROVE LInv'
  <2>1. Boot' = Boot /\ Lazy' = Lazy /\ All' = All
    BY <1>1, SameLists DEF vars
  <2> QED BY <1>1, <2>1 DEF vars, LInv, TypeOK, WholeWork, Registered, Unwinding, ServerHeld, GroupHeld, Ended,
        Quiescent, Begins, NoUseAfterClose, EverythingClosed
<1>2. ASSUME LInv, Main PROVE LInv'
  BY <1>2, InitDepKeeps, RunKeeps, ShutDownKeeps, BeginKeeps, EndCloseKeeps, EndingKeeps DEF Main
<1> QED BY <1>1, <1>2, EndingKeeps, EventKeeps, SetupKeeps, AcceptKeeps, WorkKeeps DEF Next

\* The invariant holds in every state of a process.
THEOREM LifecycleInvariance == Spec => []LInv
BY InitLInv, LInvStep, PTL DEF Spec

\* The lists, the handlers and the goroutines keep their types, and no close
\* function is registered twice (di.go and closer.go).
THEOREM TypeCorrect == Spec => []TypeOK
<1>1. LInv => TypeOK
  BY DEF LInv
<1> QED BY <1>1, LifecycleInvariance, PTL

\* With any number of handlers, none works with a closed resource, but for a
\* request that outlasts Shutdown and a message of the assembly service
\* (closer.go, app.go).
THEOREM NoUseAfterCloseHolds == Spec => []NoUseAfterClose
<1>1. LInv => NoUseAfterClose
  BY DEF LInv
<1> QED BY <1>1, LifecycleInvariance, PTL

\* CloseAll leaves open only what was registered after it took the list
\* (closer.go).
THEOREM EverythingClosedHolds == Spec => []EverythingClosed
<1>1. LInv => EverythingClosed
  BY DEF LInv
<1> QED BY <1>1, LifecycleInvariance, PTL
=============================================================================
