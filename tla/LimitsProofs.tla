---------------------------- MODULE LimitsProofs ----------------------------
(***************************************************************************)
(* What Limits keeps for any word size, any environment and any bodies.    *)
(***************************************************************************)
EXTENDS Limits, TLAPS

-----------------------------------------------------------------------------
(* Machine words.                                                          *)

\* A product of sizes is a size.
LEMMA ProductNat == \A a, b \in Nat : a * b \in Nat
OBVIOUS

\* Multiplying by a size keeps the order.
LEMMA ProductMonotone ==
  ASSUME NEW a \in Nat, NEW b \in Nat, NEW c \in Nat, a <= b
  PROVE  a * c <= b * c
OBVIOUS

\* What is less than the modulus is its own remainder.
LEMMA SmallRemainder ==
  ASSUME NEW n \in Nat \ {0}, NEW a \in 0..(n - 1)
  PROVE  a % n = a
OBVIOUS

\* A representable number is its own word.
LEMMA WordOfRepresentable ==
  ASSUME NEW x \in Int, Representable(x)
  PROVE  Int64(x) = x
<1> DEFINE half == WordSize \div 2
<1>1. WordSize \in Nat \ {0}
  BY WordAssumption
<1>2. half \in Nat /\ 2 * half <= WordSize /\ WordSize <= 2 * half + 1
  BY <1>1
<1>3. x + half \in 0..(WordSize - 1)
  BY <1>1, <1>2 DEF Representable
<1>4. (x + half) % WordSize = x + half
  BY <1>1, <1>3, SmallRemainder
<1> QED BY <1>2, <1>4 DEF Int64

\* Every word is an integer.
LEMMA WordIsInt == ASSUME NEW x \in Int PROVE Int64(x) \in Int
<1> DEFINE half == WordSize \div 2
<1>1. WordSize \in Nat \ {0} /\ half \in Nat
  BY WordAssumption
<1>2. (x + half) % WordSize \in Int
  BY <1>1
<1> QED BY <1>1, <1>2 DEF Int64

\* The seconds of a body become the duration they mean, if it fits a word.
LEMMA SecondsConverted ==
  ASSUME NEW t \in Nat, Representable(t * Second)
  PROVE  Int64(Int64(t) * Second) = t * Second
<1>1. Second \in Nat \ {0} /\ WordSize \in Nat
  BY WordAssumption
<1>2. t * Second \in Nat
  BY <1>1, ProductNat
<1>3. t <= t * Second
  <2>1. 1 * t <= Second * t
    BY <1>1, ProductMonotone
  <2> QED BY <1>1, <2>1
<1>4. Representable(t)
  BY <1>1, <1>2, <1>3 DEF Representable
<1>5. Int64(t) = t
  BY <1>4, WordOfRepresentable
<1> QED BY <1>2, <1>5, WordOfRepresentable

-----------------------------------------------------------------------------
(* The inductive invariant.                                                *)

\* Between the route and Dispatch the duration is the one asked for.
BoundTimeout ==
  stage = "bound" /\ Representable(asked.timeout * asked.unit)
    => req.timeout = asked.timeout * asked.unit

\* Between the route and Dispatch the memory is the one asked for.
BoundMemory == stage = "bound" => req.memory = asked.memory

\* What is reserved is the memory limit of the request.
ReservedMemory == stage \in {"reserved", "confined"} => reserved = req.memory

\* What every step keeps.
IInv == /\ TypeOK
        /\ WithinMaxima
        /\ CgroupMatchesReservation
        /\ HonoursTimeout
        /\ BoundTimeout /\ BoundMemory
        /\ ReservedMemory

\* normalizeRequest gives limits in their ranges, and the timeout meant.
LEMMA Normalized ==
  ASSUME Config \in ConfigType,
         NEW r \in [timeout : Int, memory : Nat], NEW n,
         n = normalizeRequest(r)
  PROVE  /\ n \in [timeout : Int, memory : Nat]
         /\ n.timeout = Effective(r.timeout)
         /\ n.timeout > Config.MaxTimeout => n.timeout = Config.DefaultTimeout
         /\ n.timeout = 0 => 0 \in {Config.DefaultTimeout, Config.MaxTimeout}
         /\ r.memory # 0 => /\ n.memory <= Config.MaxMemoryLimit
                            /\ n.memory <= r.memory
         /\ r.memory = 0 => n.memory = Config.DefaultMemoryLimit
         /\ n.memory = 0
              => 0 \in {Config.DefaultMemoryLimit, Config.MaxMemoryLimit}
<1>1. /\ Config.MaxTimeout \in Int /\ Config.DefaultTimeout \in Int
      /\ Config.MaxMemoryLimit \in Nat /\ Config.DefaultMemoryLimit \in Nat
  BY DEF ConfigType
<1>2. /\ n = [timeout |-> normalizeTimeout(r.timeout),
              memory  |-> normalizeMemory(r.memory)]
      /\ n.timeout = normalizeTimeout(r.timeout)
      /\ n.memory = normalizeMemory(r.memory)
  BY DEF normalizeRequest
<1>3. r.timeout \in Int /\ r.memory \in Nat
  OBVIOUS
<1>4. normalizeTimeout(r.timeout) \in Int /\ normalizeMemory(r.memory) \in Nat
  BY ONLY <1>1, <1>3 DEF normalizeTimeout, normalizeMemory
<1>5. /\ n.timeout = Effective(r.timeout)
      /\ n.timeout > Config.MaxTimeout => n.timeout = Config.DefaultTimeout
      /\ n.timeout = 0 => 0 \in {Config.DefaultTimeout, Config.MaxTimeout}
  BY ONLY <1>1, <1>2, <1>3 DEF normalizeTimeout, Effective
<1>6. /\ r.memory # 0 => /\ n.memory <= Config.MaxMemoryLimit
                         /\ n.memory <= r.memory
      /\ r.memory = 0 => n.memory = Config.DefaultMemoryLimit
      /\ n.memory = 0
           => 0 \in {Config.DefaultMemoryLimit, Config.MaxMemoryLimit}
  BY ONLY <1>1, <1>2, <1>3 DEF normalizeMemory
<1> QED BY <1>2, <1>4, <1>5, <1>6

\* Nothing was asked for at the start.
LEMMA InitInvariant == Init => IInv
<1> SUFFICES ASSUME Init PROVE IInv
  OBVIOUS
<1>1. Second \in Nat /\ Config \in Configs /\ Config.RAM_LIMIT \in Nat
  BY WordAssumption, ConfigAssumption DEF Init, ConfigType
<1> QED BY <1>1 DEF Init, IInv, TypeOK, WithinMaxima, BoundMemory, Nothing,
       CgroupMatchesReservation, HonoursTimeout, BoundTimeout,
       ReservedMemory, Unlimited

\* The control group gets the amount, in bytes.
LEMMA BytesOfLimit ==
  ASSUME NEW m \in Nat \ {0}
  PROVE  /\ memoryLimitBytes(m) \in Nat
         /\ m * KB < WordSize => memoryLimitBytes(m) = m * KB /\ m * KB > 0
<1>1. WordSize \in Nat \ {0} /\ KB \in Nat \ {0}
  BY WordAssumption
<1>2. m * KB \in Nat
  BY <1>1, ProductNat
<1>3. 1 * KB <= m * KB
  BY <1>1, ProductMonotone
<1>4. m * KB > 0
  BY <1>1, <1>2, <1>3
<1>5. m * KB < WordSize => (m * KB) % WordSize = m * KB
  BY <1>1, <1>2, SmallRemainder
<1>6. (m * KB) % WordSize \in Nat
  BY <1>1, <1>2
<1> QED BY <1>4, <1>5, <1>6 DEF memoryLimitBytes

\* Every step keeps the invariant.
LEMMA NextInvariant ==
  ASSUME IInv, [Next]_vars
  PROVE  IInv'
<1>1. Second \in Nat \ {0} /\ KB \in Nat \ {0} /\ WordSize \in Nat \ {0}
  BY WordAssumption
<1>c. Config \in Configs /\ Config \in ConfigType /\ Config.RAM_LIMIT \in Nat
  BY ConfigAssumption DEF IInv, TypeOK, ConfigType
<1>2. CASE SimpleDispatcher
  <2> PICK t \in AskedSeconds, m \in AskedMemory :
        asked' = [timeout |-> t, memory |-> m, unit |-> Second]
    BY <1>2 DEF SimpleDispatcher
  <2>1. t \in Nat /\ m \in Nat
    BY InputAssumption
  <2>2. req' = [timeout |-> Int64(Int64(t) * Second), memory |-> m]
    BY <1>2 DEF SimpleDispatcher, ToRequest
  <2>3. Int64(Int64(t) * Second) \in Int
    <3>1. Int64(t) \in Int
      BY <2>1, WordIsInt
    <3>2. Int64(t) * Second \in Int
      BY <1>1, <3>1
    <3> QED BY <3>2, WordIsInt
  <2>4. Representable(t * Second) => req'.timeout = t * Second
    BY <2>1, <2>2, SecondsConverted
  <2>5. /\ stage' = "bound" /\ reserved' = reserved
        /\ memoryMax' = memoryMax /\ Config' = Config
    BY <1>2 DEF SimpleDispatcher
  <2>6. TypeOK'
    BY <1>c, <2>1, <2>2, <2>3, <2>5 DEF IInv, TypeOK
  <2>7. BoundMemory' /\ BoundTimeout'
    BY <2>2, <2>4 DEF BoundMemory, BoundTimeout
  <2> QED BY <2>5, <2>6, <2>7 DEF IInv, WithinMaxima, HonoursTimeout,
         CgroupMatchesReservation, BoundTimeout, BoundMemory, ReservedMemory
<1>3. CASE CallDispatcher
  <2> PICK t \in AskedDurations, m \in AskedMemory :
        asked' = [timeout |-> t, memory |-> m, unit |-> 1]
    BY <1>3 DEF CallDispatcher
  <2>1. t \in Int /\ m \in Nat
    BY InputAssumption
  <2>2. req' = [timeout |-> t, memory |-> m]
    BY <1>3 DEF CallDispatcher
  <2>3. /\ stage' = "bound" /\ reserved' = reserved
        /\ memoryMax' = memoryMax /\ Config' = Config
    BY <1>3 DEF CallDispatcher
  <2>4. TypeOK'
    BY <2>1, <2>2, <2>3 DEF IInv, TypeOK
  <2>5. /\ req'.timeout = asked'.timeout * asked'.unit
        /\ req'.memory = asked'.memory
    BY <2>1, <2>2
  <2> QED BY <2>3, <2>4, <2>5 DEF IInv, WithinMaxima, HonoursTimeout,
         CgroupMatchesReservation, BoundTimeout, BoundMemory, ReservedMemory
<1>4. CASE Dispatch
  <2>1. req \in [timeout : Int, memory : Nat] /\ req' = normalizeRequest(req)
    BY <1>4 DEF Dispatch, IInv, TypeOK
  <2>2. /\ req' \in [timeout : Int, memory : Nat]
        /\ req'.timeout = Effective(req.timeout)
        /\ req'.timeout > Config.MaxTimeout
             => req'.timeout = Config.DefaultTimeout
        /\ req'.timeout = 0
             => 0 \in {Config.DefaultTimeout, Config.MaxTimeout}
        /\ req.memory # 0 => /\ req'.memory <= Config.MaxMemoryLimit
                             /\ req'.memory <= req.memory
        /\ req.memory = 0 => req'.memory = Config.DefaultMemoryLimit
        /\ req'.memory = 0
             => 0 \in {Config.DefaultMemoryLimit, Config.MaxMemoryLimit}
    BY <1>c, <2>1, Normalized
  <2>3. /\ asked' = asked /\ memoryMax' = memoryMax /\ stage = "bound"
        /\ Config' = Config
        /\ \/ stage' = "refused" /\ reserved' = reserved
           \/ /\ stage' = "reserved" /\ reserved' = req'.memory
              /\ ~(req'.memory > Config.RAM_LIMIT)
    BY <1>4 DEF Dispatch, OverCapacity
  <2>4. stage' = "reserved" => req'.memory <= Config.RAM_LIMIT
    BY <1>c, <2>2, <2>3
  <2>5. TypeOK'
    BY <1>c, <2>2, <2>3, <2>4 DEF IInv, TypeOK
  <2>6. HonoursTimeout'
    BY <2>2, <2>3 DEF IInv, BoundTimeout, HonoursTimeout, Representable,
       Effective
  <2>7. WithinMaxima'
    BY <2>2, <2>3, <2>4 DEF IInv, BoundMemory, WithinMaxima
  <2> QED BY <2>3, <2>5, <2>6, <2>7 DEF IInv, CgroupMatchesReservation,
         BoundTimeout, BoundMemory, ReservedMemory
<1>5. CASE NewCgroupV2
  <2>1. /\ stage = "reserved" /\ stage' = "confined"
        /\ memoryMax' = memoryLimitBytes(req.memory)
        /\ asked' = asked /\ req' = req /\ reserved' = reserved
        /\ Config' = Config
    BY <1>5 DEF NewCgroupV2
  <2>2. /\ req.memory \in Nat /\ reserved = req.memory
        /\ asked.memory \in Nat /\ Config.MaxMemoryLimit \in Nat
    BY <1>c, <2>1 DEF IInv, TypeOK, ReservedMemory, ConfigType
  <2>3. ASSUME req.memory = 0
        PROVE  memoryMax' = Unlimited /\ CgroupMatchesReservation'
    <3>1. memoryMax' = Unlimited
      BY <2>1, <2>3 DEF memoryLimitBytes
    <3>2. 0 \in {Config.DefaultMemoryLimit, Config.MaxMemoryLimit}
      BY <2>1, <2>3 DEF IInv, WithinMaxima
    <3>3. CgroupMatchesReservation'
      BY <2>1, <3>1, <3>2 DEF CgroupMatchesReservation
    <3> QED BY <3>1, <3>3
  <2>4. ASSUME req.memory # 0
        PROVE  memoryMax' \in Nat /\ CgroupMatchesReservation'
    <3>1. req.memory \in Nat \ {0}
      BY <2>2, <2>4
    <3>2. /\ memoryMax' \in Nat
          /\ req.memory * KB < WordSize
               => memoryMax' = req.memory * KB /\ req.memory * KB > 0
      BY <2>1, <3>1, BytesOfLimit
    <3>3. memoryMax' # Unlimited
      BY <3>2 DEF Unlimited
    <3>4. CgroupMatchesReservation'
      BY <2>1, <2>2, <3>2, <3>3 DEF CgroupMatchesReservation
    <3> QED BY <3>2, <3>4
  <2>5. TypeOK' /\ CgroupMatchesReservation'
    BY <2>1, <2>3, <2>4 DEF IInv, TypeOK
  <2> QED BY <2>1, <2>5 DEF IInv, WithinMaxima, HonoursTimeout, Representable,
         Effective, BoundTimeout, BoundMemory, ReservedMemory
<1>6. CASE Served \/ UNCHANGED vars
  BY <1>6 DEF Served, vars, IInv, TypeOK, WithinMaxima, BoundTimeout,
     BoundMemory, CgroupMatchesReservation, HonoursTimeout, ReservedMemory,
     Representable, Effective
<1> QED BY <1>2, <1>3, <1>4, <1>5, <1>6 DEF Next

\* The invariant holds at the start, and every step keeps it.
LEMMA Inductive == Spec => []IInv
BY InitInvariant, NextInvariant, PTL DEF Spec

-----------------------------------------------------------------------------
(* The theorems.                                                           *)

\* What is reserved never exceeds the capacity (dispatcher, Dispatch).
THEOREM TypeCorrect == Spec => []TypeOK
<1>1. IInv => TypeOK
  BY DEF IInv
<1> QED BY <1>1, Inductive, PTL

\* Whatever a body holds on either route, for any word size and any values in
\* the environment, related or not: nothing asked for goes over a maximum or
\* over the capacity, and only a configured default may
\* (dispatcher, normalizeRequest).
THEOREM Clamped == Spec => []WithinMaxima
<1>1. IInv => WithinMaxima
  BY DEF IInv
<1> QED BY <1>1, Inductive, PTL

\* The control group is limited to exactly what the ledger gave, as long as
\* that fits a word in bytes, and unlimited only by a zero in the environment
\* (resourcemanager/cgroup_limits.go).
THEOREM LedgerAndKernelAgree == Spec => []CgroupMatchesReservation
<1>1. IInv => CgroupMatchesReservation
  BY DEF IInv
<1> QED BY <1>1, Inductive, PTL

\* A timeout that fits a word is honoured, whichever unit it came in
\* (models.ToRequest, dispatcher.normalizeRequest).
THEOREM TimeoutHonoured == Spec => []HonoursTimeout
<1>1. IInv => HonoursTimeout
  BY DEF IInv
<1> QED BY <1>1, Inductive, PTL
=============================================================================
