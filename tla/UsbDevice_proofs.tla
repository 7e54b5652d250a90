-------------------------- MODULE UsbDevice_proofs --------------------------
(***************************************************************************)
(* Proofs about UsbDevice, for devices with any descriptors and reports,   *)
(* and rings of every size.                                                *)
(***************************************************************************)
EXTENDS UsbDevice, TLAPS, WellFoundedInduction, FiniteSetTheorems

-----------------------------------------------------------------------------
(* The inductive invariant *)

Setups ==
  [ request : {"none", "GetDescriptor", "SetConfiguration", "SetProtocol"},
    value   : {"none", "Device", "Configuration", "TheValue", "Boot"} ]
Types  == {"Reserved", "Link", "Normal", "SetupStage", "DataStage", "StatusStage"}
Trbs   == [type : Types, setup : Setups, ioc : BOOLEAN, cycle : BOOLEAN]
Places == 1..RingSize - 1
Rings  == [ trbs : [1..RingSize -> Trbs], write : Places, cycle : BOOLEAN,
            active : BOOLEAN, deq : Places, ccs : BOOLEAN, halted : BOOLEAN ]
Events == [dci : Nat, at : Places, code : {"Success", "Error"}, of : Setups]

NoNormal(ring) == \A i \in 1..RingSize : ring.trbs[i].type # "Normal"

IsControl(c) ==
  /\ c = [ring |-> c.ring, setups |-> c.setups, waiters |-> c.waiters, serving |-> c.serving]
  /\ c.ring \in Rings /\ c.serving \in Setups
  /\ NoNormal(c.ring)

EndpointPlaces == {i \in 2..Len(descriptors) : descriptors[i].type = "Endpoint"}
Devices ==
  [ phase : 0..4, initialized : BOOLEAN,
    buf : {"none", "Device", "Configuration", "TheValue", "Boot"},
    endpoints : SUBSET EndpointPlaces,
    drivers : [1..15 -> {Free, "keyboard", "mouse"}] ]

IsKeys(report) == report \in Seq(0..255) /\ Len(report) = 2 + KeySlots /\ report[2] = 0

IsDriver(h) ==
  /\ h = [kind |-> h.kind, phase |-> h.phase, in |-> h.in, buf |-> h.buf, previous |-> h.previous]
  /\ h.kind \in {"unknown", "keyboard", "mouse"} /\ h.phase \in 0..2
  /\ h.kind = "keyboard" => IsKeys(h.buf) /\ IsKeys(h.previous)

Shapes ==
  /\ descriptors \in Configurations
  /\ IsControl(control) /\ dev \in Devices /\ IsDriver(hid)
  /\ DOMAIN rings \subseteq 2..31 /\ rings = [d \in DOMAIN rings |-> rings[d]]
  /\ \A d \in DOMAIN rings : rings[d] \in Rings
  /\ events \in Seq(Events)

(* The drivers have asked for the boot protocol.                           *)
Configured == port = "Configured" \/ (port = "Undefined" /\ dev.phase = 4)

(* The port, the device and the driver get on in step.                     *)
Phases ==
  /\ port \in { "AddressingDevice", "InitializingDevice", "ConfiguringEndpoints",
                "Configured", "Undefined" }
  /\ port = "AddressingDevice" => dev.phase = 0
  /\ dev.phase <= 2 <=> hid.kind = "unknown"
  /\ dev.phase <= 3 => port \in {"AddressingDevice", "InitializingDevice", "Undefined"}
  /\ ~Configured => hid.phase = 0
  /\ dev.phase <= 3 => DOMAIN rings = {}

(* Only the ring of the driver's endpoint is ever used, and not before the *)
(* boot protocol is set.                                                   *)
OthersQuiet ==
  \A d \in DOMAIN rings :
    /\ d # hid.in => ~rings[d].active
    /\ hid.phase < 2 => rings[d] = NewRing

IsReport(event)  == event.dci # 1 /\ event.code # "Error"
NoReport(es) == \A i \in DOMAIN es : ~IsReport(es[i])
OneReport(es, ring, dci) ==
  \E i \in DOMAIN es :
    /\ IsReport(es[i]) /\ es[i].dci = dci /\ ring.trbs[es[i].at].type = "Normal"
    /\ \A j \in DOMAIN es : IsReport(es[j]) => j = i

(* What the driver wrote in this round has its cycle bit.                  *)
Marked(ring) ==
  \A i \in Places : ring.trbs[i].cycle = (IF i < ring.write THEN ring.cycle ELSE ~ring.cycle)

Outstanding(ring) ==
  /\ ~ring.halted /\ ring.trbs[ring.deq].type = "Normal"
  /\ IF ring.write = 1 THEN ring.deq = RingSize - 1 /\ ring.ccs = ~ring.cycle
     ELSE ring.deq = ring.write - 1 /\ ring.ccs = ring.cycle
CaughtUp(ring) == ~ring.halted /\ ring.deq = ring.write /\ ring.ccs = ring.cycle

(* There is one TRB to be carried out, or one report to be taken.          *)
Token(h, rs, es) ==
  IF h.phase = 2 /\ h.in \in DOMAIN rs
  THEN /\ Marked(rs[h.in])
       /\ \/ rs[h.in].halted /\ NoReport(es)
          \/ Outstanding(rs[h.in]) /\ NoReport(es)
          \/ CaughtUp(rs[h.in]) /\ OneReport(es, rs[h.in], h.in)
  ELSE NoReport(es)

(* What has been sent is a report.                                         *)
Genuine(h, es) == NoReport(es) \/ h.buf # Nothing

IInv == Shapes /\ Phases /\ OthersQuiet /\ Token(hid, rings, events) /\ Genuine(hid, events)

-----------------------------------------------------------------------------
(* Rings *)

LEMMA Size == RingSize \in Nat /\ RingSize >= 6 /\ KeySlots \in 1..6
  BY UsbDeviceAssumption

LEMMA TrbShape ==
  ASSUME NEW type \in Types, NEW setup \in Setups, NEW ioc \in BOOLEAN
  PROVE  Trb(type, setup, ioc) \in Trbs /\ Trb(type, setup, ioc).type = type
  BY DEF Trb, Trbs

(* The same but for the cycle bit.                                         *)
SameStage(t, trb) == t.type = trb.type /\ t.setup = trb.setup /\ t.ioc = trb.ioc

LEMMA NoSetupShape == NoSetup \in Setups
  BY DEF NoSetup, Setups

LEMMA NewRingShape ==
  /\ NewRing \in Rings /\ ~NewRing.active
  /\ NewRing.write = 1 /\ NewRing.cycle = TRUE /\ NewRing.deq = 1 /\ NewRing.ccs = TRUE
  /\ ~NewRing.halted
  /\ \A i \in 1..RingSize :
       NewRing.trbs[i].type = "Reserved" /\ NewRing.trbs[i].cycle = FALSE
<1>1. Zero \in Trbs /\ Zero.type = "Reserved" /\ Zero.cycle = FALSE
  BY NoSetupShape DEF Zero, Trb, Trbs, Types
<1> HIDE DEF Trbs
<1> QED
  BY <1>1, Size DEF NewRing, Rings, Places

(* The rest of a ring stays when something is stored.                      *)
SameBut(r, ring) ==
  /\ r.write = ring.write /\ r.cycle = ring.cycle /\ r.active = ring.active
  /\ r.deq = ring.deq /\ r.ccs = ring.ccs /\ r.halted = ring.halted

LEMMA StoreFacts ==
  ASSUME NEW ring \in Rings, NEW i \in 1..RingSize, NEW trb \in Trbs
  PROVE  /\ Store(ring, i, trb) \in Rings
         /\ SameBut(Store(ring, i, trb), ring)
         /\ \A k \in 1..RingSize : k # i => Store(ring, i, trb).trbs[k] = ring.trbs[k]
         /\ Store(ring, i, trb).trbs[i].type = trb.type
         /\ SameStage(Store(ring, i, trb).trbs[i], trb)
         /\ Store(ring, i, trb).trbs[i].cycle = ring.cycle
<1> DEFINE stored == [trb EXCEPT !.cycle = ring.cycle]
<1>1. /\ stored \in Trbs /\ stored.type = trb.type /\ stored.cycle = ring.cycle
      /\ SameStage(stored, trb)
  BY DEF Trbs, Rings, SameStage
<1>2. Store(ring, i, trb) = [ring EXCEPT !.trbs = [ring.trbs EXCEPT ![i] = stored]]
  BY DEF Store, Rings
<1> HIDE DEF stored
<1> DEFINE r == Store(ring, i, trb)
<1>3. r.trbs = [ring.trbs EXCEPT ![i] = stored] /\ SameBut(r, ring)
  BY <1>2 DEF Rings, SameBut
<1>4. ring.trbs \in [1..RingSize -> Trbs]
  BY DEF Rings
<1>5. r.trbs \in [1..RingSize -> Trbs] /\ r \in Rings
  BY <1>1, <1>2, <1>3, <1>4 DEF Rings
<1> QED
  BY <1>1, <1>3, <1>4, <1>5

(* What is pushed is at the write position, and marked; the rest stays.    *)
LEMMA PushFacts ==
  ASSUME NEW ring \in Rings, NEW trb \in Trbs, NEW r, r = Push(ring, trb)
  PROVE  /\ r \in Rings
         /\ r.active = ring.active /\ r.halted = ring.halted
         /\ r.deq = ring.deq /\ r.ccs = ring.ccs
         /\ IF ring.write + 1 = RingSize THEN r.write = 1 /\ r.cycle = ~ring.cycle
            ELSE r.write = ring.write + 1 /\ r.cycle = ring.cycle
         /\ r.trbs[ring.write].type = trb.type /\ r.trbs[ring.write].cycle = ring.cycle
         /\ SameStage(r.trbs[ring.write], trb)
         /\ \A i \in Places : i # ring.write => r.trbs[i] = ring.trbs[i]
         /\ \A i \in 1..RingSize : r.trbs[i].type \in {ring.trbs[i].type, trb.type, "Link"}
<1> DEFINE s == Store(ring, ring.write, trb)
<1>0. ring.write \in 1..RingSize /\ RingSize \in 1..RingSize /\ ring.write # RingSize
  BY Size DEF Rings, Places
<1>1. /\ s \in Rings /\ SameBut(s, ring)
      /\ \A k \in 1..RingSize : k # ring.write => s.trbs[k] = ring.trbs[k]
      /\ s.trbs[ring.write].type = trb.type /\ s.trbs[ring.write].cycle = ring.cycle
      /\ SameStage(s.trbs[ring.write], trb)
  BY <1>0, StoreFacts
<1>2. CASE ring.write + 1 = RingSize
  <2> DEFINE t == Store(s, RingSize, Link)
  <2>1. Link \in Trbs /\ Link.type = "Link"
    BY NoSetupShape DEF Link, Trb, Trbs, Types
  <2> DEFINE flipped == ~ring.cycle
  <2>3. r = [t EXCEPT !.write = 1, !.cycle = flipped]
    BY <1>2 DEF Push
  <2>8. flipped \in BOOLEAN
    OBVIOUS
  <2> HIDE DEF s, flipped
  <2>2. /\ t \in Rings /\ SameBut(t, s)
        /\ \A k \in 1..RingSize : k # RingSize => t.trbs[k] = s.trbs[k]
        /\ t.trbs[RingSize].type = "Link"
    BY <1>0, <1>1, <2>1, StoreFacts
  <2> HIDE DEF t
  <2>4. t.active = ring.active /\ t.halted = ring.halted /\ t.deq = ring.deq /\ t.ccs = ring.ccs
    BY <1>1, <2>2 DEF SameBut
  <2>5. /\ r \in Rings /\ r.write = 1 /\ r.cycle = flipped /\ r.trbs = t.trbs
        /\ r.active = t.active /\ r.halted = t.halted /\ r.deq = t.deq /\ r.ccs = t.ccs
    <3>1. 1 \in Places
      BY Size DEF Places
    <3>2. r \in Rings
      BY <2>2, <2>3, <2>8, <3>1 DEF Rings
    <3> QED
      BY <2>2, <2>3, <3>2 DEF Rings
  <2>9. r.cycle = ~ring.cycle
    BY <2>5 DEF flipped
  <2>6. \A i \in Places : i \in 1..RingSize /\ i # RingSize
    BY Size DEF Places
  <2>7. \A i \in 1..RingSize : t.trbs[i].type \in {ring.trbs[i].type, trb.type, "Link"}
    BY <1>0, <1>1, <2>2
  <2> QED
    BY <1>0, <1>1, <1>2, <2>2, <2>4, <2>5, <2>6, <2>7, <2>9
<1>3. CASE ring.write + 1 # RingSize
  <2>1. r = [s EXCEPT !.write = s.write + 1]
    BY <1>3, <1>1 DEF Push, Rings
  <2> HIDE DEF s
  <2>2. /\ s.active = ring.active /\ s.halted = ring.halted /\ s.deq = ring.deq
        /\ s.ccs = ring.ccs /\ s.write = ring.write /\ s.cycle = ring.cycle
    BY <1>1 DEF SameBut
  <2>3. s.write + 1 \in Places
    BY <1>0, <1>3, <2>2, Size DEF Places, Rings
  <2>4. /\ r \in Rings /\ r.write = s.write + 1 /\ r.cycle = s.cycle /\ r.trbs = s.trbs
        /\ r.active = s.active /\ r.halted = s.halted /\ r.deq = s.deq /\ r.ccs = s.ccs
    BY <1>1, <2>1, <2>3 DEF Rings
  <2>5. \A i \in Places : i \in 1..RingSize
    BY Size DEF Places
  <2> QED
    BY <1>0, <1>1, <1>3, <2>2, <2>4, <2>5
<1> QED
  BY <1>2, <1>3

LEMMA PushMarked ==
  ASSUME NEW ring \in Rings, Marked(ring), NEW trb \in Trbs, NEW r, r = Push(ring, trb)
  PROVE  Marked(r)
<1>1. /\ r \in Rings
      /\ IF ring.write + 1 = RingSize THEN r.write = 1 /\ r.cycle = ~ring.cycle
         ELSE r.write = ring.write + 1 /\ r.cycle = ring.cycle
      /\ r.trbs[ring.write].cycle = ring.cycle
      /\ \A i \in Places : i # ring.write => r.trbs[i] = ring.trbs[i]
  BY PushFacts
<1>2. ring.write \in Places /\ {ring.cycle, r.cycle} \subseteq BOOLEAN
  BY <1>1 DEF Rings
<1> SUFFICES ASSUME NEW i \in Places
             PROVE  r.trbs[i].cycle = (IF i < r.write THEN r.cycle ELSE ~r.cycle)
  BY DEF Marked
<1>3. r.trbs[i].cycle = (IF i <= ring.write THEN ring.cycle ELSE ~ring.cycle)
  BY <1>1, <1>2, Size DEF Marked, Places
<1>4. CASE ring.write + 1 = RingSize
  <2>1. i <= ring.write /\ ~(i < r.write)
    BY <1>1, <1>2, <1>4, Size DEF Places
  <2> QED
    BY <1>1, <1>2, <1>3, <1>4, <2>1
<1>5. CASE ring.write + 1 # RingSize
  <2>1. i <= ring.write <=> i < r.write
    BY <1>1, <1>2, <1>5 DEF Places
  <2> QED
    BY <1>1, <1>2, <1>3, <1>5, <2>1
<1> QED
  BY <1>4, <1>5

LEMMA AdvanceFacts ==
  ASSUME NEW ring \in Rings, NEW r, r = Advance(ring)
  PROVE  /\ r \in Rings /\ r.trbs = ring.trbs /\ r.write = ring.write /\ r.cycle = ring.cycle
         /\ r.active = ring.active /\ r.halted = ring.halted
         /\ IF ring.deq + 1 = RingSize THEN r.deq = 1 /\ r.ccs = ~ring.ccs
            ELSE r.deq = ring.deq + 1 /\ r.ccs = ring.ccs
<1>1. CASE ring.deq + 1 = RingSize
  <2> DEFINE flipped == ~ring.ccs
  <2>1. r = [ring EXCEPT !.deq = 1, !.ccs = flipped]
    BY <1>1 DEF Advance, Rings
  <2>2. flipped \in BOOLEAN
    OBVIOUS
  <2> HIDE DEF flipped
  <2>3. /\ r \in Rings /\ r.trbs = ring.trbs /\ r.write = ring.write /\ r.cycle = ring.cycle
        /\ r.active = ring.active /\ r.halted = ring.halted /\ r.deq = 1 /\ r.ccs = flipped
    <3>1. 1 \in Places
      BY Size DEF Places
    <3>2. r \in Rings
      BY <2>1, <2>2, <3>1 DEF Rings
    <3> QED
      BY <2>1, <3>2 DEF Rings
  <2> QED
    BY <1>1, <2>3 DEF flipped
<1>2. CASE ring.deq + 1 # RingSize
  <2>1. r = [ring EXCEPT !.deq = ring.deq + 1] /\ ring.deq + 1 \in Places
    BY <1>2, Size DEF Advance, Rings, Places
  <2> QED
    BY <1>2, <2>1 DEF Rings
<1> QED
  BY <1>1, <1>2

LEMMA DoorbellFacts ==
  ASSUME NEW ring \in Rings, NEW r, r = RingDoorbell(ring)
  PROVE  /\ r \in Rings /\ r.trbs = ring.trbs /\ r.write = ring.write /\ r.cycle = ring.cycle
         /\ r.active = TRUE /\ r.deq = ring.deq /\ r.ccs = ring.ccs /\ r.halted = ring.halted
  BY DEF RingDoorbell, Rings

-----------------------------------------------------------------------------
(* Requests on the control pipe *)

LEMMA PushStage ==
  ASSUME NEW ring \in Rings, NoNormal(ring), NEW setup \in Setups, NEW ioc \in BOOLEAN,
         NEW type \in {"SetupStage", "DataStage", "StatusStage"}
  PROVE  /\ Push(ring, Trb(type, setup, ioc)) \in Rings /\ NoNormal(Push(ring, Trb(type, setup, ioc)))
         /\ Push(ring, Trb(type, setup, ioc)).halted = ring.halted
<1>1. Trb(type, setup, ioc) \in Trbs /\ Trb(type, setup, ioc).type = type
  BY TrbShape DEF Types
<1>2. Push(ring, Trb(type, setup, ioc)) \in Rings /\ Push(ring, Trb(type, setup, ioc)).halted = ring.halted
  BY <1>1, PushFacts
<1>3. \A i \in 1..RingSize :
        Push(ring, Trb(type, setup, ioc)).trbs[i].type \in {ring.trbs[i].type, type, "Link"}
  BY <1>1, PushFacts
<1> QED
  BY <1>2, <1>3 DEF NoNormal

LEMMA RequestShape ==
  ASSUME NEW c, IsControl(c), NEW setup \in Setups, NEW data \in BOOLEAN, NEW issuer
  PROVE  /\ IsControl(ControlTransfer(c, setup, data, issuer))
         /\ ControlTransfer(c, setup, data, issuer).ring.halted = c.ring.halted
<1> DEFINE first  == Push(c.ring, Trb("SetupStage", setup, FALSE))
           second == Push(first, Trb("DataStage", NoSetup, TRUE))
           last   == IF data THEN Push(second, Trb("StatusStage", NoSetup, FALSE))
                     ELSE Push(first, Trb("StatusStage", NoSetup, TRUE))
           setups == Put(c.setups, first.write, c.ring.write)
           w      == Wait(c, setup, issuer)
           rung   == RingDoorbell(last)
<1>1. c.ring \in Rings /\ NoNormal(c.ring) /\ c.serving \in Setups
  BY DEF IsControl
<1>2. first \in Rings /\ NoNormal(first) /\ first.halted = c.ring.halted
  BY <1>1, PushStage
<1> HIDE DEF first
<1>3. second \in Rings /\ NoNormal(second) /\ second.halted = c.ring.halted
  BY <1>2, PushStage, NoSetupShape
<1> HIDE DEF second
<1>4. last \in Rings /\ NoNormal(last) /\ last.halted = c.ring.halted
  BY <1>2, <1>3, PushStage, NoSetupShape
<1> HIDE DEF last
<1>5. rung \in Rings /\ NoNormal(rung) /\ rung.halted = c.ring.halted
  BY <1>4, DoorbellFacts DEF NoNormal
<1>6. /\ w = [ring |-> w.ring, setups |-> w.setups, waiters |-> w.waiters, serving |-> w.serving]
      /\ w.serving = c.serving /\ w.setups = c.setups
  BY DEF Wait, IsControl
<1>7. ControlTransfer(c, setup, data, issuer) = [w EXCEPT !.ring = rung, !.setups = setups]
  BY <1>6 DEF ControlTransfer, first, second, last
<1> HIDE DEF rung, w, setups
<1> QED
  BY <1>1, <1>5, <1>6, <1>7 DEF IsControl

LEMMA LowestMember ==
  ASSUME NEW S \in SUBSET Nat, S # {}
  PROVE  \E x \in S : \A y \in S : x <= y
<1>0. PICK R : R = OpToRel(<, Nat)
  OBVIOUS
<1>1. IsWellFoundedOn(R, Nat)
  BY <1>0, NatLessThanWellFounded, Zenon
<1>2. PICK x \in S : \A y \in S : ~ (<<y, x>> \in R)
  BY <1>1, WFMin
<1>3. ASSUME NEW y \in S, y < x PROVE FALSE
  <2>1. <<y, x>> \in R
    BY <1>0, <1>3, Zenon DEF OpToRel
  <2> QED
    BY <1>2, <2>1
<1> QED
  BY <1>2, <1>3

(* Induction, for the set of numbers of which something holds.             *)
LEMMA Induction ==
  ASSUME NEW S, 0 \in S, \A n \in Nat : n \in S => n + 1 \in S
  PROVE  \A n \in Nat : n \in S
<1> SUFFICES ASSUME NEW n \in Nat, n \notin S PROVE FALSE
  OBVIOUS
<1>1. PICK x \in Nat \ S : \A y \in Nat \ S : x <= y
  BY LowestMember
<1>2. x - 1 \in Nat /\ x - 1 \in S
  BY <1>1
<1>3. (x - 1) + 1 \in S
  BY <1>2
<1> QED
  BY <1>1, <1>3

(* The requests up to any endpoint number are a function.                  *)
AsksUpTo(f, n) ==
  f = [k \in 0..n |-> IF k = 0 THEN control ELSE Ask(f[k - 1], k)]

LEMMA AskedDefined == AsksUpTo(Asked, 15)
<1> DEFINE S == {n \in Nat : \E f : AsksUpTo(f, n)}
<1>1. 0 \in S
  <2>1. AsksUpTo([k \in 0..0 |-> control], 0)
    BY DEF AsksUpTo
  <2> QED
    BY <2>1
<1>2. ASSUME NEW n \in Nat, n \in S PROVE n + 1 \in S
  <2>1. PICK f : AsksUpTo(f, n)
    BY <1>2
  <2> DEFINE g == [k \in 0..n + 1 |-> IF k <= n THEN f[k] ELSE Ask(f[n], n + 1)]
  <2>2. /\ DOMAIN f = 0..n /\ f[0] = control
        /\ \A k \in 1..n : f[k] = Ask(f[k - 1], k)
    BY <2>1 DEF AsksUpTo
  <2>3. g[0] = control
    BY <2>2
  <2>4. ASSUME NEW k \in 1..n + 1 PROVE g[k] = Ask(g[k - 1], k)
    <3>1. k - 1 \in 0..n /\ g[k - 1] = f[k - 1]
      OBVIOUS
    <3>2. CASE k <= n
      BY <2>2, <3>1, <3>2
    <3>3. CASE k = n + 1
      BY <3>1, <3>3
    <3> QED
      BY <3>2, <3>3
  <2>5. g = [k \in 0..n + 1 |-> g[k]]
    OBVIOUS
  <2> HIDE DEF g
  <2>6. AsksUpTo(g, n + 1)
    BY <2>3, <2>4, <2>5 DEF AsksUpTo
  <2> QED
    BY <2>6
<1> HIDE DEF S
<1>3. 15 \in S
  BY <1>1, <1>2, Induction
<1>4. \E f : AsksUpTo(f, 15)
  BY <1>3 DEF S
<1>5. Asked = CHOOSE f : f = [k \in 0..15 |-> IF k = 0 THEN control ELSE Ask(f[k - 1], k)]
  BY DEF Asked
<1> QED
  BY <1>4, <1>5, Zenon DEF AsksUpTo

LEMMA AskedShape ==
  ASSUME IsControl(control)
  PROVE  IsControl(Asked[15]) /\ Asked[15].ring.halted = control.ring.halted
<1> DEFINE S == {n \in Nat : n <= 15 => IsControl(Asked[n]) /\ Asked[n].ring.halted = control.ring.halted}
<1>1. /\ Asked[0] = control
      /\ \A n \in 1..15 : Asked[n] = Ask(Asked[n - 1], n)
  BY AskedDefined DEF AsksUpTo
<1>2. 0 \in S
  BY <1>1
<1>3. ASSUME NEW n \in Nat, n \in S PROVE n + 1 \in S
  <2> SUFFICES ASSUME n + 1 <= 15
               PROVE  IsControl(Asked[n + 1]) /\ Asked[n + 1].ring.halted = control.ring.halted
    OBVIOUS
  <2>1. n + 1 \in 1..15 /\ (n + 1) - 1 = n
    OBVIOUS
  <2>2. /\ IsControl(Asked[n]) /\ Asked[n].ring.halted = control.ring.halted
        /\ Asked[n + 1] = Ask(Asked[n], n + 1)
    BY <1>1, <1>3, <2>1
  <2>3. PICK setup \in Setups : setup = Setup("SetProtocol", "Boot")
    BY DEF Setup, Setups
  <2>4. PICK data \in BOOLEAN : data = FALSE
    OBVIOUS
  <2>5. PICK c : c = Asked[n]
    OBVIOUS
  <2>6. Asked[n + 1] \in {c, ControlTransfer(c, setup, data, dev.drivers[n + 1])}
    BY <2>2, <2>3, <2>4, <2>5 DEF Ask
  <2> QED
    BY <2>2, <2>5, <2>6, RequestShape
<1> HIDE DEF S
<1>4. 15 \in S
  BY <1>2, <1>3, Induction
<1> QED
  BY <1>4 DEF S

LEMMA FirstFacts ==
  ASSUME NEW S \in SUBSET Nat, S # {}
  PROVE  First(S) \in S
  BY LowestMember, Zenon DEF First

-----------------------------------------------------------------------------
(* Events *)

LEMMA PopFacts ==
  ASSUME NEW es \in Seq(Events), es # <<>>
  PROVE  /\ Head(es) \in Events /\ Tail(es) \in Seq(Events)
         /\ ~IsReport(Head(es)) => (NoReport(Tail(es)) <=> NoReport(es))
         /\ \A ring, dci : ~IsReport(Head(es)) /\ OneReport(es, ring, dci) => OneReport(Tail(es), ring, dci)
         /\ \A ring, dci : IsReport(Head(es)) /\ OneReport(es, ring, dci) => NoReport(Tail(es))
<1>1. /\ Len(es) \in Nat \ {0} /\ DOMAIN es = 1..Len(es) /\ Head(es) = es[1]
      /\ DOMAIN Tail(es) = 1..Len(es) - 1
      /\ \A i \in DOMAIN Tail(es) : Tail(es)[i] = es[i + 1]
  OBVIOUS
<1>2. Head(es) \in Events /\ Tail(es) \in Seq(Events)
  OBVIOUS
<1>3. ASSUME ~IsReport(Head(es)) PROVE NoReport(Tail(es)) <=> NoReport(es)
  <2>1. ASSUME NoReport(Tail(es)), NEW i \in DOMAIN es PROVE ~IsReport(es[i])
    <3>1. CASE i = 1
      BY <1>1, <1>3, <3>1
    <3>2. CASE i # 1
      <4>1. i - 1 \in DOMAIN Tail(es) /\ Tail(es)[i - 1] = es[i]
        BY <1>1, <3>2
      <4> QED
        BY <2>1, <4>1 DEF NoReport
    <3> QED
      BY <3>1, <3>2
  <2>2. ASSUME NoReport(es), NEW i \in DOMAIN Tail(es) PROVE ~IsReport(Tail(es)[i])
    <3>1. i + 1 \in DOMAIN es /\ Tail(es)[i] = es[i + 1]
      BY <1>1
    <3> QED
      BY <2>2, <3>1 DEF NoReport
  <2> QED
    BY <2>1, <2>2 DEF NoReport
<1>4. ASSUME NEW ring, NEW dci, ~IsReport(Head(es)), OneReport(es, ring, dci) PROVE OneReport(Tail(es), ring, dci)
  <2>1. PICK i \in DOMAIN es :
          /\ IsReport(es[i]) /\ es[i].dci = dci /\ ring.trbs[es[i].at].type = "Normal"
          /\ \A j \in DOMAIN es : IsReport(es[j]) => j = i
    BY <1>4 DEF OneReport
  <2>2. i # 1 /\ i - 1 \in DOMAIN Tail(es) /\ Tail(es)[i - 1] = es[i]
    <3>1. i # 1
      BY <1>1, <1>4, <2>1
    <3> QED
      BY <1>1, <3>1
  <2>3. ASSUME NEW j \in DOMAIN Tail(es), IsReport(Tail(es)[j]) PROVE j = i - 1
    <3>1. j + 1 \in DOMAIN es /\ Tail(es)[j] = es[j + 1] /\ i \in Int /\ j \in Int
      BY <1>1
    <3>2. j + 1 = i
      BY <2>1, <2>3, <3>1
    <3> QED
      BY <3>1, <3>2
  <2> QED
    BY <2>1, <2>2, <2>3 DEF OneReport
<1>5. ASSUME NEW ring, NEW dci, IsReport(Head(es)), OneReport(es, ring, dci) PROVE NoReport(Tail(es))
  <2>1. PICK i \in DOMAIN es : \A j \in DOMAIN es : IsReport(es[j]) => j = i
    BY <1>5, Zenon DEF OneReport
  <2>2. i = 1
    BY <1>1, <1>5, <2>1
  <2>3. ASSUME NEW j \in DOMAIN Tail(es), IsReport(Tail(es)[j]) PROVE FALSE
    <3>1. j + 1 \in DOMAIN es /\ Tail(es)[j] = es[j + 1] /\ j \in Int /\ j + 1 # 1
      BY <1>1
    <3> QED
      BY <2>1, <2>2, <2>3, <3>1
  <2> QED
    BY <2>3 DEF NoReport
<1> QED
  BY <1>2, <1>3, <1>4, <1>5

LEMMA PostFacts ==
  ASSUME NEW es \in Seq(Events), NEW e \in Events
  PROVE  /\ Append(es, e) \in Seq(Events)
         /\ ~IsReport(e) => (NoReport(Append(es, e)) <=> NoReport(es))
         /\ \A ring, dci : ~IsReport(e) /\ OneReport(es, ring, dci) => OneReport(Append(es, e), ring, dci)
         /\ \A ring, dci : /\ IsReport(e) /\ NoReport(es)
                     /\ e.dci = dci /\ ring.trbs[e.at].type = "Normal"
                     => OneReport(Append(es, e), ring, dci)
<1> DEFINE n == Len(es) + 1
<1>1. /\ Len(es) \in Nat /\ DOMAIN es = 1..Len(es)
      /\ DOMAIN Append(es, e) = 1..n /\ Append(es, e)[n] = e
      /\ \A i \in DOMAIN es : i # n /\ Append(es, e)[i] = es[i]
      /\ \A i \in 1..n : i # n => i \in DOMAIN es
      /\ DOMAIN es \subseteq 1..n /\ n \in 1..n
  OBVIOUS
<1>2. Append(es, e) \in Seq(Events)
  OBVIOUS
<1> HIDE DEF n
<1>3. ASSUME ~IsReport(e) PROVE NoReport(Append(es, e)) <=> NoReport(es)
  BY <1>1, <1>3 DEF NoReport
<1>4. ASSUME NEW ring, NEW dci, ~IsReport(e), OneReport(es, ring, dci) PROVE OneReport(Append(es, e), ring, dci)
  <2>1. PICK i \in DOMAIN es :
          /\ IsReport(es[i]) /\ es[i].dci = dci /\ ring.trbs[es[i].at].type = "Normal"
          /\ \A j \in DOMAIN es : IsReport(es[j]) => j = i
    BY <1>4 DEF OneReport
  <2>2. i \in DOMAIN Append(es, e) /\ Append(es, e)[i] = es[i]
    BY <1>1
  <2>3. ASSUME NEW j \in DOMAIN Append(es, e), IsReport(Append(es, e)[j]) PROVE j = i
    BY <1>1, <1>4, <2>1, <2>3
  <2> QED
    BY <2>1, <2>2, <2>3 DEF OneReport
<1>5. ASSUME NEW ring, NEW dci, IsReport(e), NoReport(es),
             e.dci = dci, ring.trbs[e.at].type = "Normal"
      PROVE  OneReport(Append(es, e), ring, dci)
  <2>1. ASSUME NEW j \in DOMAIN Append(es, e), IsReport(Append(es, e)[j]) PROVE j = n
    BY <1>1, <1>5, <2>1 DEF NoReport
  <2> QED
    BY <1>1, <1>5, <2>1 DEF OneReport
<1> QED
  BY <1>2, <1>3, <1>4, <1>5

-----------------------------------------------------------------------------
(* The ring of the driver's endpoint *)

Armed(ring) == RingDoorbell(Push(ring, Trb("Normal", NoSetup, TRUE)))

LEMMA NewRingCaughtUp == Marked(NewRing) /\ CaughtUp(NewRing)
<1>1. Marked(NewRing)
  <2> SUFFICES ASSUME NEW i \in Places
               PROVE  NewRing.trbs[i].cycle = (IF i < 1 THEN TRUE ELSE ~TRUE)
    BY NewRingShape DEF Marked
  <2>1. i \in 1..RingSize /\ ~(i < 1)
    BY Size DEF Places
  <2> QED
    BY <2>1, NewRingShape
<1>2. CaughtUp(NewRing)
  BY NewRingShape DEF CaughtUp
<1> QED
  BY <1>1, <1>2

LEMMA ArmedFacts ==
  ASSUME NEW ring \in Rings, Marked(ring), CaughtUp(ring)
  PROVE  Armed(ring) \in Rings /\ Marked(Armed(ring)) /\ Outstanding(Armed(ring))
<1> DEFINE trb == Trb("Normal", NoSetup, TRUE)
           r   == Push(ring, trb)
<1>1. trb \in Trbs /\ trb.type = "Normal"
  BY TrbShape, NoSetupShape DEF Types
<1> HIDE DEF trb
<1>2. /\ r \in Rings /\ r.halted = ring.halted /\ r.deq = ring.deq /\ r.ccs = ring.ccs
      /\ IF ring.write + 1 = RingSize THEN r.write = 1 /\ r.cycle = ~ring.cycle
         ELSE r.write = ring.write + 1 /\ r.cycle = ring.cycle
      /\ r.trbs[ring.write].type = "Normal" /\ r.trbs[ring.write].cycle = ring.cycle
      /\ \A i \in Places : i # ring.write => r.trbs[i] = ring.trbs[i]
  BY <1>1, PushFacts
<1> HIDE DEF r
<1>3. ring.write \in Places /\ {ring.cycle, r.cycle, ring.ccs} \subseteq BOOLEAN
  BY <1>2 DEF Rings
<1>4. Marked(r)
  BY <1>1, PushMarked DEF r
<1>5. Outstanding(r)
  <2>1. ~r.halted /\ r.trbs[r.deq].type = "Normal"
    BY <1>2 DEF CaughtUp
  <2>2. CASE ring.write + 1 = RingSize
    <3>1. r.write = 1 /\ r.deq = RingSize - 1
      BY <1>2, <1>3, <2>2, Size DEF CaughtUp, Places
    <3>2. r.ccs = ~r.cycle
      BY <1>2, <1>3, <2>2 DEF CaughtUp
    <3> QED
      BY <2>1, <3>1, <3>2 DEF Outstanding
  <2>3. CASE ring.write + 1 # RingSize
    <3>1. r.write # 1 /\ r.deq = r.write - 1
      BY <1>2, <1>3, <2>3, Size DEF CaughtUp, Places
    <3>2. r.ccs = r.cycle
      BY <1>2, <2>3 DEF CaughtUp
    <3> QED
      BY <2>1, <3>1, <3>2 DEF Outstanding
  <2> QED
    BY <2>2, <2>3
<1>6. Armed(ring) = RingDoorbell(r)
  BY DEF Armed, r, trb
<1> QED
  <2> DEFINE a == RingDoorbell(r)
  <2>1. /\ a \in Rings /\ a.trbs = r.trbs /\ a.write = r.write /\ a.cycle = r.cycle
        /\ a.deq = r.deq /\ a.ccs = r.ccs /\ a.halted = r.halted
    BY <1>2, DoorbellFacts
  <2> HIDE DEF a
  <2>2. Marked(a)
    BY <1>4, <2>1 DEF Marked
  <2>3. Outstanding(a)
    BY <1>5, <2>1 DEF Outstanding
  <2> QED
    BY <1>6, <2>1, <2>2, <2>3 DEF a

LEMMA ReadyFacts ==
  ASSUME NEW ring \in Rings, Marked(ring), CaughtUp(ring)
  PROVE  ~Ready(ring)
<1>1. ring.deq \in Places /\ ring.trbs[ring.deq].cycle = ~ring.cycle /\ ring.cycle \in BOOLEAN
  BY DEF Marked, CaughtUp, Rings, Places
<1> QED
  BY <1>1 DEF Ready, CaughtUp

LEMMA CarriedOut ==
  ASSUME NEW ring \in Rings, Marked(ring), Outstanding(ring)
  PROVE  Marked(Advance(ring)) /\ CaughtUp(Advance(ring))
<1> DEFINE r == Advance(ring)
<1>1. /\ r.trbs = ring.trbs /\ r.write = ring.write /\ r.cycle = ring.cycle
      /\ r.halted = ring.halted
      /\ IF ring.deq + 1 = RingSize THEN r.deq = 1 /\ r.ccs = ~ring.ccs
         ELSE r.deq = ring.deq + 1 /\ r.ccs = ring.ccs
  BY AdvanceFacts
<1> HIDE DEF r
<1>2. ring.write \in Places /\ {ring.cycle, ring.ccs} \subseteq BOOLEAN
  BY DEF Rings
<1>3. Marked(r)
  BY <1>1 DEF Marked
<1>4. CaughtUp(r)
  <2>1. CASE ring.write = 1
    <3>1. r.deq = 1 /\ r.ccs = ~ring.ccs /\ ring.ccs = ~ring.cycle
      BY <1>1, <2>1, Size DEF Outstanding
    <3> QED
      BY <1>1, <1>2, <2>1, <3>1 DEF Outstanding, CaughtUp
  <2>2. CASE ring.write # 1
    BY <1>1, <1>2, <2>2, Size DEF Outstanding, CaughtUp, Places
  <2> QED
    BY <2>1, <2>2
<1> QED
  BY <1>3, <1>4 DEF r

-----------------------------------------------------------------------------
(* What is told *)

LEMMA FreshSame == \A keys, old : Fresh(keys, old) = Stream!Fresh(keys, old)
  BY DEF Fresh, Stream!Fresh

LEMMA KeysFacts ==
  ASSUME NEW report, IsKeys(report)
  PROVE  {0} \cup ToSet(report) = {0, report[1]} \cup ToSet(SubSeq(report, 3, Len(report)))
<1> DEFINE n == Len(report)
           keys == SubSeq(report, 3, n)
<1>1. n \in 3..8 /\ report \in Seq(0..255) /\ DOMAIN report = 1..n /\ report[2] = 0
  BY Size DEF IsKeys
<1>2. DOMAIN keys = 1..n - 2 /\ \A i \in 1..n - 2 : keys[i] = report[i + 2]
  BY <1>1
<1> HIDE DEF n, keys
<1>3. ASSUME NEW i \in 1..n PROVE report[i] \in {0, report[1]} \cup ToSet(keys)
  <2>1. CASE i >= 3
    <3>1. i - 2 \in DOMAIN keys /\ keys[i - 2] = report[i]
      BY <1>1, <1>2, <2>1
    <3> QED
      BY <3>1 DEF ToSet
  <2>2. CASE i \in {1, 2}
    BY <1>1, <2>2
  <2> QED
    BY <2>1, <2>2, <1>1
<1>4. ASSUME NEW i \in DOMAIN keys PROVE keys[i] \in ToSet(report)
  <2>1. i + 2 \in DOMAIN report /\ keys[i] = report[i + 2]
    BY <1>1, <1>2
  <2> QED
    BY <2>1 DEF ToSet
<1>5. report[1] \in ToSet(report)
  BY <1>1 DEF ToSet
<1> QED
  BY <1>1, <1>3, <1>4, <1>5 DEF ToSet, n, keys

LEMMA ToldFacts ==
  ASSUME IsDriver(hid)
  PROVE  DataReceived(hid) = IF hid.kind = "keyboard" THEN Stream!NewKeys(hid.buf)
                             ELSE Stream!Movement(hid.buf)
<1>1. CASE hid.kind = "keyboard"
  <2>1. IsKeys(hid.previous) /\ Len(hid.buf) = 2 + KeySlots
    BY <1>1 DEF IsDriver, IsKeys
  <2>2. {0} \cup ToSet(hid.previous)
          = {0, hid.previous[1]} \cup ToSet(SubSeq(hid.previous, 3, Len(hid.previous)))
    BY <2>1, KeysFacts
  <2>3. Stream!NewKeys(hid.buf)
          = Stream!Fresh(SubSeq(hid.buf, 3, 2 + KeySlots), {0} \cup ToSet(hid.previous))
    BY <2>1, <2>2, Zenon DEF Stream!NewKeys, Stream!Keys, ToSet, Stream!ToSet
  <2>4. DataReceived(hid) = Fresh(SubSeq(hid.buf, 3, 2 + KeySlots), {0} \cup ToSet(hid.previous))
    BY <1>1, Zenon DEF DataReceived
  <2> QED
    BY <1>1, <2>3, <2>4, FreshSame, Zenon
<1>2. CASE hid.kind # "keyboard"
  <2>1. \A byte : Stream!Int8(byte) = Int8(byte)
    BY Zenon DEF Int8, Stream!Int8
  <2> QED
    BY <1>2, <2>1, Zenon DEF DataReceived, Stream!Movement
<1> QED
  BY <1>1, <1>2, Zenon

-----------------------------------------------------------------------------
(* Moves *)

StreamVars == <<hid.kind, Pending, hid.previous, told>>

LEMMA PendingFacts ==
  /\ Pending = IF NoReport(events) THEN Nothing ELSE hid.buf
  /\ Pending' = IF NoReport(events') THEN Nothing ELSE hid'.buf
  BY DEF Pending, NoReport, IsReport

(* The reports on their way are left alone.                                *)
KeepsReports ==
  /\ events' \in Seq(Events)
  /\ NoReport(events') <=> NoReport(events)
  /\ \A ring, dci : OneReport(events, ring, dci) => OneReport(events', ring, dci)

LEMMA PopKeeps ==
  ASSUME Shapes, events # <<>>, ~IsReport(Event), PopEvent
  PROVE  KeepsReports
<1>1. events \in Seq(Events)
  BY DEF Shapes
<1>2. ~IsReport(Head(events)) /\ events' = Tail(events)
  BY DEF Event, PopEvent
<1> QED
  BY <1>1, <1>2, PopFacts DEF KeepsReports

LEMMA PostKeeps ==
  ASSUME Shapes, NEW dci \in Nat, NEW at \in Places, NEW code \in {"Success", "Error"},
         Post(dci, at, code), dci = 1 \/ code = "Error"
  PROVE  KeepsReports
<1> DEFINE e == [dci |-> dci, at |-> at, code |-> code, of |-> control.serving]
<1>1. events \in Seq(Events) /\ control.serving \in Setups
  BY DEF Shapes, IsControl
<1>2. e \in Events /\ ~IsReport(e)
  BY <1>1 DEF Events, IsReport
<1>3. events' = Append(events, e)
  BY DEF Post
<1> HIDE DEF e
<1> QED
  BY <1>1, <1>2, <1>3, PostFacts DEF KeepsReports

LEMMA StayKeeps ==
  ASSUME Shapes, UNCHANGED events
  PROVE  KeepsReports
  BY DEF Shapes, KeepsReports

LEMMA TokenKept ==
  ASSUME Token(hid, rings, events), KeepsReports, UNCHANGED <<hid, rings>>
  PROVE  Token(hid', rings', events')
  BY Zenon DEF Token, KeepsReports

(* A step that leaves the driver and its ring alone.                       *)
LEMMA QuietStep ==
  ASSUME IInv, UNCHANGED <<descriptors, hid, rings, told>>, KeepsReports,
         IsControl(control'), dev' \in Devices, Phases'
  PROVE  IInv' /\ UNCHANGED StreamVars
<1>1. Shapes'
  BY DEF IInv, Shapes, KeepsReports, Devices, EndpointPlaces
<1>2. OthersQuiet'
  BY DEF IInv, OthersQuiet
<1>3. Token(hid', rings', events')
  BY TokenKept DEF IInv
<1>4. Genuine(hid', events')
  BY DEF IInv, Genuine, KeepsReports
<1>5. UNCHANGED StreamVars
  BY PendingFacts DEF StreamVars, KeepsReports
<1> QED
  BY <1>1, <1>2, <1>3, <1>4, <1>5 DEF IInv

(* A report at the head of the events is the one there is, of the TRB that *)
(* the driver's endpoint was given.                                        *)
LEMMA HeadReport ==
  ASSUME IInv, events # <<>>, IsReport(Event)
  PROVE  /\ hid.phase = 2 /\ hid.in \in DOMAIN rings /\ IssuerTrb.type = "Normal"
         /\ Marked(rings[hid.in]) /\ CaughtUp(rings[hid.in])
         /\ OneReport(events, rings[hid.in], hid.in)
<1>1. events \in Seq(Events) /\ Event = events[1] /\ 1 \in DOMAIN events
  BY DEF IInv, Shapes, Event
<1>2. ~NoReport(events)
  BY <1>1 DEF NoReport
<1>3. /\ hid.phase = 2 /\ hid.in \in DOMAIN rings
      /\ Marked(rings[hid.in]) /\ CaughtUp(rings[hid.in])
      /\ OneReport(events, rings[hid.in], hid.in)
  BY <1>2, Zenon DEF IInv, Token
<1>4. Event.dci = hid.in /\ rings[hid.in].trbs[Event.at].type = "Normal"
  BY <1>1, <1>3 DEF OneReport
<1>5. Event.dci # 1
  BY DEF IsReport
<1> QED
  BY <1>3, <1>4, <1>5 DEF IssuerTrb

LEMMA AnswerKeeps ==
  ASSUME IInv, events # <<>>, IssuerTrb.type # "Normal" \/ Event.code = "Error", PopEvent
  PROVE  KeepsReports
<1>1. ~IsReport(Event)
  BY HeadReport DEF IsReport
<1> QED
  BY <1>1, PopKeeps DEF IInv

LEMMA AnsweredShape ==
  ASSUME IInv
  PROVE  IsControl(Answered)
  BY DEF IInv, Shapes, IsControl, Answered

LEMMA RequestsShape ==
  ASSUME NEW c, IsControl(c)
  PROVE  /\ IsControl(GetDescriptor(c, "Device")) /\ IsControl(GetDescriptor(c, "Configuration"))
         /\ IsControl(SetConfiguration(c, "TheValue"))
         /\ GetDescriptor(c, "Device").ring.halted = c.ring.halted
         /\ GetDescriptor(c, "Configuration").ring.halted = c.ring.halted
         /\ SetConfiguration(c, "TheValue").ring.halted = c.ring.halted
<1>1. /\ Setup("GetDescriptor", "Device") \in Setups
      /\ Setup("GetDescriptor", "Configuration") \in Setups
      /\ Setup("SetConfiguration", "TheValue") \in Setups
  BY DEF Setup, Setups
<1> QED
  BY <1>1, RequestShape DEF GetDescriptor, SetConfiguration

(* What every step keeps or does.                                          *)
Good == IInv' /\ [Stream!Next]_StreamVars

LEMMA InitializeDeviceGood ==
  ASSUME IInv, InitializeDevice
  PROVE  Good
<1>1. IsControl(control')
  BY RequestsShape DEF IInv, Shapes, InitializeDevice
<1>2. dev' \in Devices /\ dev'.phase = 1 /\ dev.phase = 0
  <2>1. dev \in Devices /\ dev.phase = 0 /\ dev' = [dev EXCEPT !.initialized = FALSE, !.phase = 1]
    BY DEF IInv, Shapes, Phases, Configured, InitializeDevice
  <2>2. PICK no \in BOOLEAN : no = FALSE
    OBVIOUS
  <2>3. dev' = [dev EXCEPT !.initialized = no, !.phase = 1]
    BY <2>1, <2>2
  <2>4. dev' = [ phase |-> 1, initialized |-> no, buf |-> dev.buf,
                 endpoints |-> dev.endpoints, drivers |-> dev.drivers ]
    BY <2>1, <2>3 DEF Devices
  <2>5. dev' \in Devices
    BY <2>1, <2>2, <2>4 DEF Devices
  <2> QED
    BY <2>1, <2>4, <2>5
<1>3. Phases'
  BY <1>2 DEF IInv, Phases, Configured, InitializeDevice
<1>4. KeepsReports
  BY StayKeeps DEF IInv, InitializeDevice
<1> QED
  BY <1>1, <1>2, <1>3, <1>4, QuietStep DEF Good, InitializeDevice

LEMMA PassOverGood ==
  ASSUME IInv, PassOver
  PROVE  Good
<1>1. IsControl(control')
  BY AnsweredShape DEF IInv, Shapes, PassOver
<1>2. dev' \in Devices /\ Phases'
  BY DEF IInv, Shapes, Phases, Configured, Devices, PassOver
<1>3. KeepsReports
  BY AnswerKeeps DEF PassOver
<1> QED
  BY <1>1, <1>2, <1>3, QuietStep DEF Good, PassOver

LEMMA InitializePhase1Good ==
  ASSUME IInv, InitializePhase1
  PROVE  Good
<1>1. IsControl(control')
  BY AnsweredShape, RequestsShape DEF InitializePhase1
<1>2. dev' \in Devices /\ dev'.phase = 2 /\ dev.phase = 1
  <2>1. dev \in Devices /\ dev.phase = 1 /\ dev' = [dev EXCEPT !.phase = 2]
    BY DEF IInv, Shapes, InitializePhase1, Answer
  <2> QED
    BY <2>1 DEF Devices
<1>3. Phases'
  BY <1>2 DEF IInv, Phases, Configured, InitializePhase1
<1>4. KeepsReports
  BY AnswerKeeps DEF InitializePhase1, Answer, Completed
<1> QED
  BY <1>1, <1>2, <1>3, <1>4, QuietStep DEF Good, InitializePhase1

(* A supported interface is one of a keyboard or a mouse; its endpoints    *)
(* are descriptors of endpoints.                                           *)
LEMMA InterfaceFacts ==
  ASSUME Supported # {}
  PROVE  /\ DriverFor(descriptors[Interface]) \in {"keyboard", "mouse"}
         /\ Endpoints \subseteq EndpointPlaces
<1>1. Supported \in SUBSET Nat
  BY DEF Supported, Seen
<1>2. Interface \in Supported
  BY <1>1, FirstFacts DEF Interface
<1>3. DriverFor(descriptors[Interface]) # Free
  BY <1>2 DEF Supported
<1>4. DriverFor(descriptors[Interface]) \in {"keyboard", "mouse"}
  BY <1>3 DEF DriverFor
<1>5. Endpoints \subseteq EndpointPlaces
  BY DEF EndpointPlaces, Endpoints, EndpointsAfter, Seen
<1> QED
  BY <1>4, <1>5

(* No report has been sent before the boot protocol is set.                *)
LEMMA NoReportBefore ==
  ASSUME IInv, hid.phase < 2
  PROVE  NoReport(events)
<1>1. hid.phase # 2
  BY DEF IInv, Shapes, IsDriver
<1> QED
  BY <1>1 DEF IInv, Token

LEMMA InitializePhase2Good ==
  ASSUME IInv, InitializePhase2
  PROVE  Good
<1>0. dev \in Devices /\ dev.phase = 2 /\ KeepsReports
  BY AnswerKeeps DEF IInv, Shapes, InitializePhase2, Answer, Completed
<1>1. CASE /\ GoesWrong
           /\ port' = "Undefined" /\ control' = Answered
           /\ UNCHANGED <<dev, hid>>
  <2>1. IsControl(control')
    BY <1>1, AnsweredShape
  <2>2. Phases'
    BY <1>0, <1>1 DEF IInv, Phases, Configured, InitializePhase2
  <2> QED
    BY <1>0, <1>1, <2>1, <2>2, QuietStep DEF Good, InitializePhase2
<1>2. CASE /\ ~GoesWrong /\ Supported = {}
           /\ control' = Answered
           /\ UNCHANGED <<port, dev, hid>>
  <2>1. IsControl(control')
    BY <1>2, AnsweredShape
  <2>2. Phases'
    BY <1>0, <1>2 DEF IInv, Phases, Configured, InitializePhase2
  <2> QED
    BY <1>0, <1>2, <2>1, <2>2, QuietStep DEF Good, InitializePhase2
<1>3. CASE Supported # {} /\ control' = SetConfiguration(Answered, "TheValue") /\ port' = port /\
           LET kind    == DriverFor(descriptors[Interface])
               numbers == {descriptors[j].number : j \in Endpoints}
               bytes   == IF kind = "keyboard" THEN 2 + KeySlots ELSE 3
           IN  /\ dev' = [dev EXCEPT
                            !.phase = 3, !.endpoints = Endpoints,
                            !.drivers = [n \in DOMAIN @ |-> IF n \in numbers THEN kind ELSE @[n]]]
               /\ hid' = [ kind |-> kind, phase |-> 0, in |-> 0,
                           buf  |-> [i \in 1..bytes |-> 0], previous |-> [i \in 1..bytes |-> 0] ]
  <2> DEFINE kind    == DriverFor(descriptors[Interface])
             numbers == {descriptors[j].number : j \in Endpoints}
             drivers == [n \in DOMAIN dev.drivers |-> IF n \in numbers THEN kind ELSE dev.drivers[n]]
             bytes   == IF kind = "keyboard" THEN 2 + KeySlots ELSE 3
             zeros   == [i \in 1..bytes |-> 0]
  <2>1. /\ dev' = [dev EXCEPT !.phase = 3, !.endpoints = Endpoints, !.drivers = drivers]
        /\ hid' = [kind |-> kind, phase |-> 0, in |-> 0, buf |-> zeros, previous |-> zeros]
    BY <1>0, <1>3 DEF Devices
  <2>2. /\ kind \in {"keyboard", "mouse"}
        /\ Endpoints \subseteq EndpointPlaces
    BY <1>3, InterfaceFacts
  <2>3. drivers \in [1..15 -> {Free, "keyboard", "mouse"}]
    <3> HIDE DEF kind, numbers
    <3> QED
      BY <1>0, <2>2 DEF Devices
  <2>4. bytes \in 3..8 /\ (kind = "keyboard" => bytes = 2 + KeySlots)
    BY Size
  <2>5. zeros \in Seq(0..255) /\ Len(zeros) = bytes /\ zeros[2] = 0
    <3> HIDE DEF bytes
    <3> QED
      BY <2>4
  <2> HIDE DEF kind, numbers, drivers
  <2>6. dev' \in Devices /\ dev'.phase = 3
    <3>1. dev' = [ phase |-> 3, initialized |-> dev.initialized, buf |-> dev.buf,
                   endpoints |-> Endpoints, drivers |-> drivers ]
      BY <1>0, <2>1 DEF Devices
    <3> QED
      BY <1>0, <2>2, <2>3, <3>1 DEF Devices
  <2>7. port \in {"InitializingDevice", "Undefined"} /\ DOMAIN rings = {} /\ hid.kind = "unknown" /\ hid.phase = 0
    BY <1>0 DEF IInv, Phases, Configured
  <2>8. NoReport(events) /\ NoReport(events')
    BY <1>0, <2>7, NoReportBefore DEF KeepsReports
  <2>9. IsDriver(hid')
    <3> HIDE DEF bytes, zeros
    <3> QED
      BY <2>1, <2>2, <2>4, <2>5 DEF IsDriver, IsKeys
  <2>10. IsControl(control')
    BY <1>3, AnsweredShape, RequestsShape
  <2>11. UNCHANGED <<descriptors, rings, told>>
    BY DEF InitializePhase2
  <2> HIDE DEF bytes, zeros
  <2>12. Shapes'
    BY <1>0, <2>6, <2>9, <2>10, <2>11 DEF IInv, Shapes, KeepsReports, Devices, EndpointPlaces
  <2>13. Phases'
    BY <1>3, <2>1, <2>2, <2>6, <2>7, <2>11 DEF Phases, Configured
  <2>14. OthersQuiet'
    BY <2>7, <2>11 DEF OthersQuiet
  <2>15. Token(hid', rings', events') /\ Genuine(hid', events')
    BY <2>1, <2>8 DEF Token, Genuine
  <2>16. IInv'
    BY <2>12, <2>13, <2>14, <2>15 DEF IInv
  <2>17. Stream!Recognize
    <3>1. Pending = Nothing /\ Pending' = Nothing
      BY <2>8, PendingFacts
    <3>2. \E n \in 3..8 : hid'.previous = [i \in 1..n |-> 0]
      BY <2>1, <2>4 DEF zeros
    <3> QED
      BY <2>1, <2>2, <2>7, <2>11, <3>1, <3>2 DEF Stream!Recognize
  <2> QED
    BY <2>16, <2>17 DEF Good, Stream!Next
<1> QED
  BY <1>1, <1>2, <1>3, Zenon DEF InitializePhase2

(* The rings belong to the endpoints 1 to 15, so none is the control pipe. *)
LEMMA DciFacts ==
  ASSUME descriptors \in Configurations, NEW i \in EndpointPlaces
  PROVE  Dci(i) \in 2..31
<1>1. descriptors[i].number \in 1..15 /\ descriptors[i].in \in BOOLEAN
  BY ConfigurationsAssumption DEF EndpointPlaces
<1>2. CASE descriptors[i].in
  BY <1>1, <1>2 DEF Dci
<1>3. CASE ~descriptors[i].in
  BY <1>1, <1>3 DEF Dci
<1> QED
  BY <1>2, <1>3

LEMMA InitializePhase3Good ==
  ASSUME IInv, InitializePhase3, port # "Undefined"
  PROVE  Good
<1>1. dev \in Devices /\ dev.phase = 3 /\ KeepsReports
  BY AnswerKeeps DEF IInv, Shapes, InitializePhase3, Answer, Completed
<1>2. /\ port = "InitializingDevice"
      /\ DOMAIN rings = {} /\ hid.kind # "unknown" /\ hid.phase = 0
  BY <1>1 DEF IInv, Phases, Configured
<1>3. NoReport(events) /\ NoReport(events')
  BY <1>1, <1>2, NoReportBefore DEF KeepsReports
<1>4. dev' \in Devices /\ dev'.phase = 4
  <2>1. PICK yes \in BOOLEAN : yes = TRUE
    OBVIOUS
  <2>2. dev' = [dev EXCEPT !.phase = 4, !.initialized = yes]
    BY <2>1 DEF InitializePhase3
  <2>3. dev' = [ phase |-> 4, initialized |-> yes, buf |-> dev.buf,
                 endpoints |-> dev.endpoints, drivers |-> dev.drivers ]
    BY <1>1, <2>2 DEF Devices
  <2>4. dev' \in Devices
    BY <1>1, <2>1, <2>3 DEF Devices
  <2> QED
    BY <2>3, <2>4
<1>5. /\ IsDriver(hid') /\ hid'.phase = 0 /\ hid'.kind = hid.kind
      /\ hid'.buf = hid.buf /\ hid'.previous = hid.previous
  <2>1. IsDriver(hid) /\ hid' = [hid EXCEPT !.in = InterruptInDci]
    BY DEF IInv, Shapes, InitializePhase3
  <2>2. hid' = [ kind |-> hid.kind, phase |-> hid.phase, in |-> InterruptInDci,
                 buf |-> hid.buf, previous |-> hid.previous ]
    BY <2>1 DEF IsDriver
  <2> QED
    BY <1>2, <2>1, <2>2 DEF IsDriver
<1>6. IsControl(control')
  BY AnsweredShape DEF InitializePhase3
<1>7. UNCHANGED <<descriptors, told>>
  BY DEF InitializePhase3
<1>8. /\ port' = "ConfiguringEndpoints"
      /\ DOMAIN rings' \subseteq 2..31 /\ rings' = [d \in DOMAIN rings' |-> rings'[d]]
      /\ \A d \in DOMAIN rings' : rings'[d] = NewRing
  <2> DEFINE dcis == {Dci(i) : i \in dev.endpoints}
  <2>1. port' = "ConfiguringEndpoints" /\ rings' = [d \in dcis |-> NewRing]
    BY <1>2 DEF InitializePhase3
  <2>2. dcis \subseteq 2..31
    <3>1. dev.endpoints \subseteq EndpointPlaces
      BY <1>1 DEF Devices
    <3>2. \A i \in dev.endpoints : Dci(i) \in 2..31
      BY <3>1, DciFacts DEF IInv, Shapes
    <3> QED
      BY <3>2
  <2> HIDE DEF dcis
  <2> QED
    BY <2>1, <2>2
<1>9. \A d \in DOMAIN rings' : rings'[d] \in Rings /\ ~rings'[d].active
  BY <1>8, NewRingShape
<1>10. Shapes'
  BY <1>1, <1>4, <1>5, <1>6, <1>7, <1>8, <1>9
     DEF IInv, Shapes, KeepsReports, Devices, EndpointPlaces
<1>11. Phases'
  BY <1>2, <1>4, <1>5, <1>8 DEF Phases, Configured
<1>12. OthersQuiet'
  BY <1>8, <1>9 DEF OthersQuiet
<1>13. Token(hid', rings', events') /\ Genuine(hid', events')
  BY <1>3, <1>5 DEF Token, Genuine
<1>14. UNCHANGED StreamVars
  BY <1>3, <1>5, <1>7, PendingFacts DEF StreamVars
<1> QED
  BY <1>10, <1>11, <1>12, <1>13, <1>14 DEF IInv, Good

LEMMA OnEndpointsConfiguredGood ==
  ASSUME IInv, OnEndpointsConfigured
  PROVE  Good
<1>1. /\ port = "ConfiguringEndpoints" /\ port' = "Configured" /\ control' = Asked[15]
      /\ hid' = [hid EXCEPT !.phase = 1] /\ IsDriver(hid)
      /\ UNCHANGED <<descriptors, dev, rings, events, told>>
  BY DEF OnEndpointsConfigured, IInv, Shapes
<1>2. hid.phase = 0 /\ ~(dev.phase <= 3) /\ (dev.phase <= 2 <=> hid.kind = "unknown")
  BY <1>1 DEF IInv, Phases, Configured
<1>3. NoReport(events)
  BY <1>2, NoReportBefore
<1>4. /\ IsDriver(hid') /\ hid'.phase = 1 /\ hid'.kind = hid.kind /\ hid'.in = hid.in
      /\ hid'.buf = hid.buf /\ hid'.previous = hid.previous
  <2>1. hid' = [ kind |-> hid.kind, phase |-> 1, in |-> hid.in,
                 buf |-> hid.buf, previous |-> hid.previous ]
    BY <1>1 DEF IsDriver
  <2> QED
    BY <1>1, <2>1 DEF IsDriver
<1>5. IsControl(control')
  BY <1>1, AskedShape DEF IInv, Shapes
<1>6. Shapes'
  BY <1>1, <1>4, <1>5 DEF IInv, Shapes, Devices, EndpointPlaces
<1>7. Phases'
  <2>1. Configured'
    BY <1>1 DEF Configured
  <2>2. dev.phase # 0 /\ ~(dev.phase <= 3) /\ (dev.phase <= 2 <=> hid'.kind = "unknown")
    BY <1>1, <1>2, <1>4 DEF IInv, Phases
  <2> QED
    BY <1>1, <2>1, <2>2 DEF Phases
<1>8. OthersQuiet'
  BY <1>1, <1>2, <1>4 DEF IInv, OthersQuiet
<1>9. Token(hid', rings', events') /\ Genuine(hid', events')
  BY <1>1, <1>3, <1>4 DEF Token, Genuine
<1>10. UNCHANGED StreamVars
  BY <1>1, <1>4, PendingFacts DEF StreamVars
<1> QED
  BY <1>6, <1>7, <1>8, <1>9, <1>10 DEF IInv, Good

(* Asking for a report arms the ring of the endpoint, if there is one.     *)
LEMMA InterruptInFacts ==
  ASSUME Shapes, NEW rs, rs = InterruptIn(rings, hid.in)
  PROVE  /\ DOMAIN rs = DOMAIN rings /\ rs = [d \in DOMAIN rings |-> rs[d]]
         /\ \A d \in DOMAIN rings : d # hid.in => rs[d] = rings[d]
         /\ hid.in \in DOMAIN rings => rs[hid.in] = Armed(rings[hid.in])
  BY DEF Shapes, InterruptIn, Armed

LEMMA ProtocolSetGood ==
  ASSUME IInv, ProtocolSet
  PROVE  Good
<1>1. KeepsReports /\ dev.phase = 4 /\ UNCHANGED <<descriptors, dev, told>>
  BY AnswerKeeps DEF ProtocolSet, Answer, Completed
<1>2. IsControl(control')
  BY AnsweredShape DEF ProtocolSet
<1>3. CASE hid.phase = 1
  <2>1. /\ hid' = [hid EXCEPT !.phase = 2] /\ IsDriver(hid)
        /\ rings' = InterruptIn(rings, hid.in) /\ port' \in {port, "Undefined"}
    BY <1>3 DEF ProtocolSet, IInv, Shapes
  <2>2. /\ IsDriver(hid') /\ hid'.phase = 2 /\ hid'.kind = hid.kind /\ hid'.in = hid.in
        /\ hid'.buf = hid.buf /\ hid'.previous = hid.previous
    <3>1. hid' = [ kind |-> hid.kind, phase |-> 2, in |-> hid.in,
                   buf |-> hid.buf, previous |-> hid.previous ]
      BY <2>1 DEF IsDriver
    <3> QED
      BY <2>1, <3>1 DEF IsDriver
  <2>3. NoReport(events) /\ NoReport(events')
    BY <1>1, <1>3, NoReportBefore DEF KeepsReports
  <2>4. \A d \in DOMAIN rings : rings[d] = NewRing
    BY <1>3 DEF IInv, OthersQuiet
  <2>5. /\ DOMAIN rings' = DOMAIN rings /\ rings' = [d \in DOMAIN rings |-> rings'[d]]
        /\ \A d \in DOMAIN rings : d # hid.in => rings'[d] = NewRing
        /\ hid.in \in DOMAIN rings => rings'[hid.in] = Armed(NewRing)
    BY <2>1, <2>4, InterruptInFacts DEF IInv
  <2>6. Armed(NewRing) \in Rings /\ Marked(Armed(NewRing)) /\ Outstanding(Armed(NewRing))
    BY ArmedFacts, NewRingCaughtUp, NewRingShape
  <2>7. \A d \in DOMAIN rings : rings'[d] \in Rings
    BY <2>5, <2>6, NewRingShape
  <2>8. Shapes'
    BY <1>1, <1>2, <2>2, <2>5, <2>7 DEF IInv, Shapes, KeepsReports, Devices, EndpointPlaces
  <2>9. Phases'
    <3>1. Configured /\ (dev.phase <= 2 <=> hid.kind = "unknown")
      BY <1>3 DEF IInv, Phases
    <3>2. port' \in {"Configured", "Undefined"} /\ Configured'
      BY <1>1, <2>1, <3>1 DEF Configured
    <3> QED
      BY <1>1, <2>2, <3>1, <3>2 DEF Phases
  <2>10. OthersQuiet'
    BY <2>2, <2>5, NewRingShape DEF OthersQuiet
  <2>11. Token(hid', rings', events') /\ Genuine(hid', events')
    BY <2>2, <2>3, <2>5, <2>6 DEF Token, Genuine
  <2>12. UNCHANGED StreamVars
    BY <1>1, <2>2, <2>3, PendingFacts DEF StreamVars
  <2> QED
    BY <2>8, <2>9, <2>10, <2>11, <2>12 DEF IInv, Good
<1>4. CASE hid.phase # 1
  <2>1. UNCHANGED <<hid, rings, port>>
    BY <1>4 DEF ProtocolSet
  <2>2. dev' \in Devices /\ Phases'
    BY <1>1, <2>1 DEF IInv, Shapes, Phases, Configured
  <2> QED
    BY <1>1, <1>2, <2>1, <2>2, QuietStep DEF Good
<1> QED
  BY <1>3, <1>4

LEMMA OnInterruptCompletedGood ==
  ASSUME IInv, OnInterruptCompleted
  PROVE  Good
<1>1. /\ events # <<>> /\ Event.code # "Error" /\ IssuerTrb.type = "Normal" /\ events' = Tail(events)
      /\ told' = DataReceived(hid) /\ hid' = [hid EXCEPT !.previous = hid.buf]
      /\ rings' = InterruptIn(rings, hid.in)
      /\ UNCHANGED <<descriptors, port, dev, control>>
  BY DEF OnInterruptCompleted, Completed, PopEvent
<1>2. events \in Seq(Events) /\ Event \in Events
  BY <1>1, PopFacts DEF IInv, Shapes, Event
<1>3. IsReport(Event)
  <2> SUFFICES ASSUME Event.dci = 1 PROVE FALSE
    BY <1>1 DEF IsReport
  <2>1. control.ring.trbs[Event.at].type = "Normal" /\ Event.at \in 1..RingSize
    BY <1>1, <1>2, Size DEF IssuerTrb, Events, Places
  <2> QED
    BY <2>1 DEF IInv, Shapes, IsControl, NoNormal
<1>4. /\ hid.phase = 2 /\ hid.in \in DOMAIN rings
      /\ Marked(rings[hid.in]) /\ CaughtUp(rings[hid.in])
      /\ OneReport(events, rings[hid.in], hid.in)
  BY <1>1, <1>3, HeadReport
<1>5. events' \in Seq(Events) /\ NoReport(events')
  BY <1>1, <1>2, <1>3, <1>4, PopFacts DEF Event
<1>6. /\ IsDriver(hid') /\ hid'.phase = 2 /\ hid'.kind = hid.kind /\ hid'.in = hid.in
      /\ hid'.buf = hid.buf /\ hid'.previous = hid.buf
  <2>1. IsDriver(hid)
    BY DEF IInv, Shapes
  <2>2. hid' = [ kind |-> hid.kind, phase |-> hid.phase, in |-> hid.in,
                 buf |-> hid.buf, previous |-> hid.buf ]
    BY <1>1, <2>1 DEF IsDriver
  <2> QED
    BY <1>4, <2>1, <2>2 DEF IsDriver
<1>7. /\ DOMAIN rings' = DOMAIN rings /\ rings' = [d \in DOMAIN rings |-> rings'[d]]
      /\ \A d \in DOMAIN rings : d # hid.in => rings'[d] = rings[d]
      /\ rings'[hid.in] = Armed(rings[hid.in])
  BY <1>1, <1>4, InterruptInFacts DEF IInv
<1>8. \A d \in DOMAIN rings : rings[d] \in Rings
  BY DEF IInv, Shapes
<1>9. /\ Armed(rings[hid.in]) \in Rings /\ Marked(Armed(rings[hid.in]))
      /\ Outstanding(Armed(rings[hid.in]))
  BY <1>4, <1>8, ArmedFacts
<1>10. \A d \in DOMAIN rings : rings'[d] \in Rings
  BY <1>7, <1>8, <1>9
<1>11. Shapes'
  BY <1>1, <1>5, <1>6, <1>7, <1>10 DEF IInv, Shapes, Devices, EndpointPlaces
<1>12. Phases'
  BY <1>1, <1>4, <1>6, <1>7 DEF IInv, Phases, Configured
<1>13. OthersQuiet'
  BY <1>6, <1>7 DEF IInv, OthersQuiet
<1>14. Token(hid', rings', events') /\ Genuine(hid', events')
  BY <1>4, <1>5, <1>6, <1>7, <1>9 DEF Token, Genuine
<1>15. Stream!Take
  <2>1. ~NoReport(events)
    BY <1>2, <1>1, <1>3 DEF NoReport, Event
  <2>2. Pending = hid.buf /\ hid.buf # Nothing /\ Pending' = Nothing
    BY <1>5, <2>1, PendingFacts DEF IInv, Genuine
  <2>3. told' = IF hid.kind = "keyboard" THEN Stream!NewKeys(hid.buf) ELSE Stream!Movement(hid.buf)
    BY <1>1, ToldFacts DEF IInv, Shapes
  <2> QED
    BY <1>6, <2>2, <2>3, Zenon DEF Stream!Take
<1> QED
  BY <1>11, <1>12, <1>13, <1>14, <1>15, Zenon DEF IInv, Good, Stream!Next

LEMMA CarryOutStageGood ==
  ASSUME IInv, CarryOutStage
  PROVE  Good
<1> DEFINE trb     == NextTrb(control.ring)
           ring    == Advance(control.ring)
           serving == IF trb.type = "SetupStage" THEN trb.setup ELSE control.serving
           buf     == IF trb.type = "DataStage" THEN control.serving.value ELSE dev.buf
<1>1. /\ IsControl(control) /\ control.ring.deq \in Places /\ dev \in Devices
      /\ control.ring \in Rings /\ control.serving \in Setups
  BY DEF IInv, Shapes, IsControl, Rings
<1>2. /\ control' = [control EXCEPT !.ring = ring, !.serving = serving]
      /\ dev' = [dev EXCEPT !.buf = buf]
      /\ IF trb.ioc THEN Post(1, control.ring.deq, "Success") ELSE UNCHANGED events
      /\ UNCHANGED <<descriptors, port, rings, hid, told>>
  BY <1>1 DEF CarryOutStage, IsControl, Devices
<1>3. trb \in Trbs
  BY <1>1, Size DEF NextTrb, Rings, Places
<1>4. serving \in Setups /\ buf \in {"none", "Device", "Configuration", "TheValue", "Boot"}
  BY <1>1, <1>3 DEF Trbs, Setups, Devices
<1>5. ring \in Rings /\ NoNormal(ring)
  BY <1>1, AdvanceFacts DEF IsControl, NoNormal
<1>6. KeepsReports
  BY <1>1, <1>2, PostKeeps, StayKeeps DEF IInv
<1> HIDE DEF ring, serving, buf, trb
<1>7. IsControl(control')
  BY <1>1, <1>2, <1>4, <1>5 DEF IsControl
<1>8. dev' \in Devices /\ dev'.phase = dev.phase
  BY <1>1, <1>2, <1>4 DEF Devices
<1>9. Phases'
  BY <1>2, <1>8 DEF IInv, Phases, Configured
<1> QED
  BY <1>2, <1>6, <1>7, <1>8, <1>9, QuietStep DEF Good

LEMMA FailStageGood ==
  ASSUME IInv, FailStage
  PROVE  Good
<1>1. /\ IsControl(control) /\ control.ring.deq \in Places /\ control.ring \in Rings
      /\ dev \in Devices
  BY DEF IInv, Shapes, IsControl, Rings
<1>2. KeepsReports
  BY <1>1, PostKeeps DEF IInv, FailStage
<1> DEFINE ring == [control.ring EXCEPT !.halted = TRUE]
<1>3. ring \in Rings /\ ring.trbs = control.ring.trbs
  BY <1>1 DEF Rings
<1>4. control' = [control EXCEPT !.ring = ring] /\ UNCHANGED <<descriptors, port, dev, rings, hid, told>>
  BY <1>1 DEF FailStage, IsControl
<1> HIDE DEF ring
<1>5. IsControl(control')
  BY <1>1, <1>3, <1>4 DEF IsControl, NoNormal
<1>6. dev' \in Devices /\ Phases'
  BY <1>1, <1>4 DEF IInv, Phases, Configured
<1> QED
  BY <1>2, <1>4, <1>5, <1>6, QuietStep DEF Good

(* A ring that is ready is that of the driver's endpoint, and no report is *)
(* on its way.                                                             *)
LEMMA ReadyRing ==
  ASSUME IInv, NEW d \in DOMAIN rings, Ready(rings[d])
  PROVE  /\ d = hid.in /\ d \in 2..31 /\ hid.phase = 2
         /\ rings[d] \in Rings /\ Marked(rings[d]) /\ Outstanding(rings[d])
         /\ NoReport(events) /\ hid.kind # "unknown"
<1>1. rings[d].active /\ ~rings[d].halted
  BY DEF Ready
<1>2. rings[d] \in Rings /\ hid.phase \in 0..2 /\ d \in 2..31 /\ dev.phase \in 0..4
  BY DEF IInv, Shapes, IsDriver, Devices
<1>3. d = hid.in
  BY <1>1 DEF IInv, OthersQuiet
<1>4. hid.phase = 2
  BY <1>1, <1>2, NewRingShape DEF IInv, OthersQuiet
<1>5. Marked(rings[d]) /\ ((Outstanding(rings[d]) /\ NoReport(events)) \/ CaughtUp(rings[d]))
  BY <1>1, <1>3, <1>4, Zenon DEF IInv, Token
<1>6. Outstanding(rings[d]) /\ NoReport(events)
  BY <1>2, <1>5, ReadyFacts
<1>7. hid.kind # "unknown"
  BY <1>2 DEF IInv, Phases, Configured
<1> QED
  BY <1>2, <1>3, <1>4, <1>5, <1>6, <1>7

LEMMA SendReportGood ==
  ASSUME IInv, SendReport
  PROVE  Good
<1>1. PICK d \in DOMAIN rings, report \in Reports(hid.kind) :
        /\ Ready(rings[d])
        /\ rings' = [rings EXCEPT ![d] = Advance(@)]
        /\ hid' = [hid EXCEPT !.buf = report]
        /\ Post(d, rings[d].deq, "Success")
        /\ UNCHANGED <<descriptors, port, dev, control, told>>
  BY DEF SendReport
<1>2. /\ d = hid.in /\ d \in 2..31 /\ hid.phase = 2
      /\ rings[d] \in Rings /\ Marked(rings[d]) /\ Outstanding(rings[d])
      /\ NoReport(events) /\ hid.kind # "unknown"
  BY <1>1, ReadyRing
<1>3. IsDriver(hid) /\ events \in Seq(Events) /\ control.serving \in Setups
  BY DEF IInv, Shapes, IsControl
<1>4. hid.kind \in {"keyboard", "mouse"} /\ report # Nothing
  BY <1>2, <1>3, ReportsAssumption DEF IsDriver
<1>5. /\ IsDriver(hid') /\ hid'.phase = 2 /\ hid'.kind = hid.kind /\ hid'.in = hid.in
      /\ hid'.buf = report /\ hid'.previous = hid.previous
  <2>1. hid' = [ kind |-> hid.kind, phase |-> hid.phase, in |-> hid.in,
                 buf |-> report, previous |-> hid.previous ]
    BY <1>1, <1>3 DEF IsDriver
  <2>2. hid.kind = "keyboard" => IsKeys(report)
    BY <1>1, ReportsAssumption DEF IsKeys
  <2> QED
    BY <1>2, <1>3, <2>1, <2>2 DEF IsDriver
<1> DEFINE ring == Advance(rings[d])
           e    == [dci |-> d, at |-> rings[d].deq, code |-> "Success", of |-> control.serving]
<1>6. /\ ring \in Rings /\ ring.trbs = rings[d].trbs /\ Marked(ring) /\ CaughtUp(ring)
  BY <1>2, AdvanceFacts, CarriedOut
<1>7. /\ e \in Events /\ IsReport(e) /\ e.dci = d
      /\ ring.trbs[e.at].type = "Normal" /\ events' = Append(events, e)
  <2>1. rings[d].deq \in Places
    BY <1>2 DEF Rings
  <2>2. d \in Nat /\ d # 1
    BY <1>2
  <2>3. e \in Events /\ IsReport(e)
    BY <1>3, <2>1, <2>2 DEF Events, IsReport
  <2>4. ring.trbs[e.at].type = "Normal"
    BY <1>2, <1>6 DEF Outstanding
  <2> QED
    BY <1>1, <2>3, <2>4 DEF Post
<1> HIDE DEF ring, e
<1>8. events' \in Seq(Events) /\ OneReport(events', ring, hid'.in)
  BY <1>2, <1>3, <1>5, <1>7, PostFacts
<1>9. /\ DOMAIN rings' = DOMAIN rings /\ rings' = [k \in DOMAIN rings |-> rings'[k]]
      /\ \A k \in DOMAIN rings : k # d => rings'[k] = rings[k]
      /\ rings'[d] = ring
  BY <1>1 DEF ring, IInv, Shapes
<1>10. \A k \in DOMAIN rings : rings'[k] \in Rings
  BY <1>6, <1>9 DEF IInv, Shapes
<1>11. Shapes'
  BY <1>1, <1>5, <1>8, <1>9, <1>10 DEF IInv, Shapes, Devices, EndpointPlaces
<1>12. Phases'
  BY <1>1, <1>2, <1>5, <1>9 DEF IInv, Phases, Configured
<1>13. OthersQuiet'
  BY <1>2, <1>5, <1>9 DEF IInv, OthersQuiet
<1>14. Token(hid', rings', events') /\ Genuine(hid', events')
  BY <1>2, <1>4, <1>5, <1>6, <1>8, <1>9 DEF Token, Genuine
<1>15. Stream!Send
  <2>1. ~NoReport(events')
    BY <1>8 DEF OneReport, NoReport
  <2>2. Pending = Nothing /\ Pending' = report
    BY <1>2, <1>5, <2>1, PendingFacts
  <2> QED
    BY <1>1, <1>5, <2>2, Zenon DEF Stream!Send
<1> QED
  BY <1>11, <1>12, <1>13, <1>14, <1>15, Zenon DEF IInv, Good, Stream!Next

LEMMA FailReportGood ==
  ASSUME IInv, FailReport
  PROVE  Good
<1>1. PICK d \in DOMAIN rings :
        /\ Ready(rings[d])
        /\ rings' = [rings EXCEPT ![d].halted = TRUE]
        /\ Post(d, rings[d].deq, "Error")
        /\ UNCHANGED <<descriptors, port, dev, control, hid, told>>
  BY DEF FailReport
<1>2. /\ d = hid.in /\ d \in 2..31 /\ hid.phase = 2
      /\ rings[d] \in Rings /\ Marked(rings[d])
      /\ NoReport(events)
  BY <1>1, ReadyRing
<1> DEFINE ring == [rings[d] EXCEPT !.halted = TRUE]
<1>3. /\ ring \in Rings /\ ring.halted /\ ring.trbs = rings[d].trbs /\ ring.write = rings[d].write
      /\ ring.cycle = rings[d].cycle
  BY <1>2 DEF Rings
<1>4. Marked(ring)
  BY <1>2, <1>3 DEF Marked
<1>5. /\ DOMAIN rings' = DOMAIN rings /\ rings' = [k \in DOMAIN rings |-> rings'[k]]
      /\ \A k \in DOMAIN rings : k # d => rings'[k] = rings[k]
      /\ rings'[d] = ring
  BY <1>1 DEF IInv, Shapes
<1> HIDE DEF ring
<1>6. KeepsReports
  <2>1. d \in Nat
    BY <1>2
  <2>3. rings[d].deq \in Places
    BY <1>2 DEF Rings
  <2> QED
    BY <1>1, <2>1, <2>3, PostKeeps DEF IInv
<1>7. events' \in Seq(Events) /\ NoReport(events')
  BY <1>2, <1>6 DEF KeepsReports
<1>8. \A k \in DOMAIN rings : rings'[k] \in Rings
  BY <1>3, <1>5 DEF IInv, Shapes
<1>9. Shapes'
  BY <1>1, <1>5, <1>7, <1>8 DEF IInv, Shapes, Devices, EndpointPlaces
<1>10. Phases'
  BY <1>1, <1>5 DEF IInv, Phases, Configured
<1>11. OthersQuiet'
  BY <1>1, <1>2, <1>5 DEF IInv, OthersQuiet
<1>12. Token(hid', rings', events') /\ Genuine(hid', events')
  BY <1>1, <1>2, <1>3, <1>4, <1>5, <1>7 DEF Token, Genuine
<1>13. UNCHANGED StreamVars
  BY <1>1, <1>2, <1>7, PendingFacts DEF StreamVars
<1> QED
  BY <1>9, <1>10, <1>11, <1>12, <1>13 DEF IInv, Good

-----------------------------------------------------------------------------
LEMMA Initial ==
  ASSUME Init
  PROVE  IInv /\ Stream!Init
<1>1. dev \in Devices
  <2>1. PICK no \in BOOLEAN : no = FALSE
    OBVIOUS
  <2>2. dev = [ phase |-> 0, initialized |-> no, buf |-> "none",
                endpoints |-> {}, drivers |-> [n \in 1..15 |-> Free] ]
    BY <2>1 DEF Init
  <2> QED
    BY <2>1, <2>2 DEF Devices
<1>2. IsControl(control)
  BY NewRingShape, NoSetupShape DEF Init, IsControl, NoNormal
<1>3. IsDriver(hid)
  BY DEF Init, IsDriver
<1>4. DOMAIN rings = {} /\ rings = [d \in {} |-> rings[d]]
  BY DEF Init
<1>5. events \in Seq(Events) /\ NoReport(events)
  BY DEF Init, NoReport
<1>6. Shapes
  BY <1>1, <1>2, <1>3, <1>4, <1>5 DEF Init, Shapes
<1>7. Phases /\ OthersQuiet
  BY <1>4 DEF Init, Phases, Configured, OthersQuiet
<1>8. Token(hid, rings, events) /\ Genuine(hid, events)
  BY <1>4, <1>5 DEF Token, Genuine
<1>9. Stream!Init
  BY <1>5, PendingFacts DEF Init, Stream!Init
<1> QED
  BY <1>6, <1>7, <1>8, <1>9 DEF IInv

LEMMA Step ==
  ASSUME IInv, [Next]_vars
  PROVE  Good
<1>1. CASE UNCHANGED vars
  <2>1. IInv'
    BY <1>1 DEF vars, IInv, Shapes, Phases, Configured, OthersQuiet, Devices, EndpointPlaces
  <2>2. UNCHANGED StreamVars
    BY <1>1 DEF vars, StreamVars, Pending
  <2> QED
    BY <2>1, <2>2 DEF Good
<1>2. CASE Driver
  BY <1>2, InitializeDeviceGood, PassOverGood, InitializePhase1Good, InitializePhase2Good,
     InitializePhase3Good, OnEndpointsConfiguredGood, ProtocolSetGood, OnInterruptCompletedGood,
     Zenon DEF Driver
<1>3. CASE Hardware
  BY <1>3, CarryOutStageGood, FailStageGood, SendReportGood, FailReportGood, Zenon DEF Hardware
<1> QED
  BY <1>1, <1>2, <1>3, Zenon DEF Next

(* What the class driver sees is what HidReports promises, for every       *)
(* device whose descriptors keep InitializePhase2 within its arrays, and   *)
(* up to there for the others (they end in "Undefined"): no report that    *)
(* has been sent is written over, taken twice or lost, and what is told of *)
(* it follows from it and the report before.                               *)
THEOREM Refinement == Spec => ImplementsReports
<1>1. Init => IInv /\ Stream!Init
  BY Initial
<1>2. IInv /\ [Next]_vars => IInv' /\ [Stream!Next]_StreamVars
  BY Step DEF Good
<1> QED
  BY <1>1, <1>2, PTL DEF Spec, ImplementsReports, Stream!Spec, StreamVars

-----------------------------------------------------------------------------
(* The control pipe: its stages are counted back from the write position.  *)

Boot   == Setup("SetProtocol", "Boot")
Circle == RingSize - 1

(* Where the TRB is that was pushed k TRBs ago.                            *)
At(ring, k) == IF k < ring.write THEN ring.write - k ELSE ring.write - k + Circle

(* How many TRBs the controller has not carried out.                       *)
Left(ring) ==
  IF ring.ccs = ring.cycle THEN ring.write - ring.deq ELSE ring.write - ring.deq + Circle

Stage(ring, k) == ring.trbs[At(ring, k)]

IsSetup(t, setup) == t.type = "SetupStage" /\ t.setup = setup /\ ~t.ioc
IsData(t)         == t.type = "DataStage" /\ t.ioc
IsStatus(t)       == t.type = "StatusStage" /\ ~t.ioc
IsLast(t)         == t.type = "StatusStage" /\ t.ioc   \* of a request without data

IsAnswer(event) == event.dci = 1 /\ event.code # "Error"
NoAnswer(es) == \A i \in DOMAIN es : ~IsAnswer(es[i])
OneAnswer(es, at, setup) ==
  \E i \in DOMAIN es :
    /\ IsAnswer(es[i]) /\ es[i].at = at /\ es[i].of = setup
    /\ \A j \in DOMAIN es : IsAnswer(es[j]) => j = i

(* A request with data has been made last, and is not answered.            *)
Reading(c, es, setup, buf) ==
  LET left == Left(c.ring)
  IN  /\ IsSetup(Stage(c.ring, 3), setup)
      /\ IsData(Stage(c.ring, 2))
      /\ IsStatus(Stage(c.ring, 1))
      /\ left <= 4 /\ (left = 4 => IsStatus(Stage(c.ring, 4)))
      /\ c.setups = Put(NoEntries(16), At(c.ring, 2), At(c.ring, 3))
      /\ left >= 2 => NoAnswer(es)
      /\ left = 2 => c.serving = setup
      /\ left <= 1 => OneAnswer(es, At(c.ring, 2), setup) /\ buf = setup.value

(* One without data has. *)
Setting(c, es, setup) ==
  LET left == Left(c.ring)
  IN  /\ IsSetup(Stage(c.ring, 2), setup)
      /\ IsLast(Stage(c.ring, 1))
      /\ left <= 3 /\ (left = 3 => IsStatus(Stage(c.ring, 3)))
      /\ c.setups = Put(NoEntries(16), At(c.ring, 1), At(c.ring, 2))
      /\ left >= 1 => NoAnswer(es)
      /\ left = 1 => c.serving = setup
      /\ left = 0 => OneAnswer(es, At(c.ring, 1), setup)

(* All have been answered; the last status stage may be left. *)
Idle(c, es) ==
  /\ Left(c.ring) <= 1 /\ (Left(c.ring) = 1 => IsStatus(Stage(c.ring, 1)))
  /\ c.setups = NoEntries(16) /\ NoAnswer(es)

Entries == {Free} \cup [key : Nat, value : Nat]

Distinct(es) ==
  \A i, j \in DOMAIN es : IsAnswer(es[i]) /\ IsAnswer(es[j]) /\ es[i].at = es[j].at => i = j

(* n requests for the boot protocol have been made, and some are answered. *)
Asking(c, es, n) ==
  LET left == Left(c.ring)
  IN  /\ 2 * n <= Circle /\ left <= 2 * n
      /\ c.setups \in [1..16 -> Entries]
      /\ \A k \in 1..n :
           /\ IsSetup(Stage(c.ring, 2 * k), Boot)
           /\ IsLast(Stage(c.ring, 2 * k - 1))
           /\ left = 2 * k - 1 => c.serving = Boot
           /\ 2 * k - 1 <= left => Get(c.setups, At(c.ring, 2 * k - 1)) = At(c.ring, 2 * k)
      /\ n > 0 => Get(c.waiters, Boot) # Free
      /\ \A i \in DOMAIN es : IsAnswer(es[i]) =>
           \E k \in 1..n :
             /\ left < 2 * k - 1
             /\ es[i].at = At(c.ring, 2 * k - 1) /\ es[i].of = Boot
             /\ Get(c.setups, At(c.ring, 2 * k - 1)) = At(c.ring, 2 * k)
      /\ Distinct(es)

(* The endpoint numbers that have a driver.                                *)
Drives(drivers) == {n \in 1..15 : drivers[n] # Free}
Driven          == Drives(dev.drivers)

PipeInv ==
  /\ Marked(control.ring) /\ Left(control.ring) \in 0..Circle
  /\ dev.phase = 0 => control.ring = NewRing /\ Idle(control, events)
  /\ dev.phase = 1 => Reading(control, events, Setup("GetDescriptor", "Device"), dev.buf)
  /\ dev.phase = 2 => \/ Reading(control, events, Setup("GetDescriptor", "Configuration"), dev.buf)
                      \/ Idle(control, events)
  /\ dev.phase = 3 => Setting(control, events, Setup("SetConfiguration", "TheValue"))
  /\ dev.phase = 4 /\ ~Configured => Left(control.ring) = 0 /\ Idle(control, events)
  /\ Configured => \E n \in 0..15 : Asking(control, events, n)
  /\ ~Configured => control.waiters = NoEntries(4)
  /\ dev.initialized <=> dev.phase = 4
  /\ 2 * Cardinality(Driven) < RingSize
  /\ dev.phase <= 2 => Driven = {}

LEMMA PlaceFacts ==
  ASSUME NEW ring \in Rings
  PROVE  /\ Circle \in Nat /\ Circle >= 5 /\ RingSize = Circle + 1
         /\ ring.write \in 1..Circle /\ ring.deq \in 1..Circle
         /\ \A k \in 0..Circle : At(ring, k) \in 1..Circle
         /\ \A k \in 1..Circle, l \in 1..Circle : At(ring, k) = At(ring, l) => k = l
         /\ \A k \in 1..Circle - 1 : At(ring, k) # ring.write
<1>1. Circle \in Nat /\ Circle >= 5 /\ RingSize = Circle + 1
  BY Size DEF Circle
<1>2. ring.write \in 1..Circle /\ ring.deq \in 1..Circle
  BY <1>1 DEF Rings, Places
<1>3. \A k \in 0..Circle : At(ring, k) \in 1..Circle
  BY <1>1, <1>2 DEF At
<1>4. \A k \in 1..Circle, l \in 1..Circle : At(ring, k) = At(ring, l) => k = l
  BY <1>1, <1>2 DEF At
<1>5. \A k \in 1..Circle - 1 : At(ring, k) # ring.write
  BY <1>1, <1>2 DEF At
<1> QED
  BY <1>1, <1>2, <1>3, <1>4, <1>5

(* What the driver pushes is one TRB ago, and the rest is one more ago.    *)
LEMMA PushAt ==
  ASSUME NEW ring \in Rings, Left(ring) \in 0..Circle - 1, NEW trb \in Trbs, 
         NEW r, r = Push(ring, trb)
  PROVE  /\ r \in Rings /\ Left(r) = Left(ring) + 1
         /\ At(r, 1) = ring.write
         /\ \A k \in 0..Circle - 1 : At(r, k + 1) = At(ring, k)
         /\ SameStage(Stage(r, 1), trb)
         /\ \A k \in 1..Circle - 1 : Stage(r, k + 1) = Stage(ring, k)
<1>1. /\ r \in Rings /\ r.deq = ring.deq /\ r.ccs = ring.ccs
      /\ IF ring.write + 1 = RingSize THEN r.write = 1 /\ r.cycle = ~ring.cycle
         ELSE r.write = ring.write + 1 /\ r.cycle = ring.cycle
      /\ SameStage(r.trbs[ring.write], trb)
      /\ \A i \in Places : i # ring.write => r.trbs[i] = ring.trbs[i]
  BY PushFacts
<1>2. /\ Circle \in Nat /\ Circle >= 5 /\ RingSize = Circle + 1
      /\ ring.write \in 1..Circle /\ ring.deq \in 1..Circle
  BY PlaceFacts
<1>3. \A k \in 0..Circle - 1 : At(r, k + 1) = At(ring, k)
  <2>1. CASE ring.write = Circle
    <3>1. r.write = 1
      BY <1>1, <1>2, <2>1
    <3> QED
      BY <1>2, <2>1, <3>1 DEF At
  <2>2. CASE ring.write # Circle
    <3>1. r.write = ring.write + 1
      BY <1>1, <1>2, <2>2
    <3> QED
      BY <1>2, <2>2, <3>1 DEF At
  <2> QED
    BY <2>1, <2>2
<1>4. At(r, 1) = ring.write
  BY <1>1, <1>2 DEF At
<1>5. ring.ccs \in BOOLEAN /\ ring.cycle \in BOOLEAN /\ r.cycle \in BOOLEAN
  BY <1>1 DEF Rings
<1>6. Left(r) = Left(ring) + 1
  <2>1. CASE ring.write + 1 = RingSize
    <3>1. r.write = 1 /\ ring.write = Circle /\ (r.ccs = r.cycle <=> ring.ccs # ring.cycle)
      BY <1>1, <1>2, <1>5, <2>1
    <3> QED
      BY <1>1, <1>2, <3>1 DEF Left
  <2>2. CASE ring.write + 1 # RingSize
    BY <1>1, <1>2, <2>2 DEF Left
  <2> QED
    BY <2>1, <2>2
<1>7. SameStage(Stage(r, 1), trb)
  BY <1>1, <1>4 DEF Stage
<1>8. ASSUME NEW k \in 1..Circle - 1 PROVE Stage(r, k + 1) = Stage(ring, k)
  <2>1. At(r, k + 1) = At(ring, k) /\ At(ring, k) \in Places /\ At(ring, k) # ring.write
    BY <1>3, PlaceFacts DEF Places, Circle
  <2> QED
    BY <1>1, <2>1 DEF Stage
<1> QED
  BY <1>1, <1>3, <1>4, <1>6, <1>7, <1>8, Zenon

(* What matters of the control pipe's ring is the same in both.            *)
SameStages(r, ring) ==
  /\ \A k : At(r, k) = At(ring, k)
  /\ \A k : Stage(r, k) = Stage(ring, k)

LEMMA SameStagesFacts ==
  ASSUME NEW ring, NEW r, r.trbs = ring.trbs, r.write = ring.write
  PROVE  SameStages(r, ring)
<1>1. \A k : At(r, k) = At(ring, k)
  BY DEF At
<1> QED
  BY <1>1, Zenon DEF SameStages, Stage

LEMMA AdvanceAt ==
  ASSUME NEW ring \in Rings, Marked(ring), Left(ring) \in 1..Circle, NEW r, r = Advance(ring)
  PROVE  r \in Rings /\ Marked(r) /\ Left(r) = Left(ring) - 1 /\ SameStages(r, ring)
<1>1. /\ r \in Rings /\ r.trbs = ring.trbs /\ r.write = ring.write /\ r.cycle = ring.cycle
      /\ IF ring.deq + 1 = RingSize THEN r.deq = 1 /\ r.ccs = ~ring.ccs
         ELSE r.deq = ring.deq + 1 /\ r.ccs = ring.ccs
  BY AdvanceFacts
<1>2. /\ Circle \in Nat /\ Circle >= 5 /\ RingSize = Circle + 1
      /\ ring.write \in 1..Circle /\ ring.deq \in 1..Circle
  BY PlaceFacts
<1>3. ring.ccs \in BOOLEAN /\ ring.cycle \in BOOLEAN /\ r.ccs \in BOOLEAN
  BY <1>1 DEF Rings
<1>4. Marked(r)
  BY <1>1 DEF Marked
<1>5. Left(r) = Left(ring) - 1
  <2>1. CASE ring.deq + 1 = RingSize
    <3>1. r.deq = 1 /\ ring.deq = Circle /\ (r.ccs = r.cycle <=> ring.ccs # ring.cycle)
      BY <1>1, <1>2, <1>3, <2>1
    <3> QED
      BY <1>1, <1>2, <3>1 DEF Left
  <2>2. CASE ring.deq + 1 # RingSize
    BY <1>1, <1>2, <2>2 DEF Left
  <2> QED
    BY <2>1, <2>2
<1> QED
  BY <1>1, <1>4, <1>5, SameStagesFacts

(* What the controller finds is a TRB it has not carried out.              *)
LEMMA ReadyLeft ==
  ASSUME NEW ring \in Rings, Marked(ring), Ready(ring), Left(ring) \in 0..Circle
  PROVE  Left(ring) \in 1..Circle /\ ring.deq = At(ring, Left(ring))
<1>1. /\ Circle \in Nat /\ Circle >= 5 /\ Places = 1..Circle
      /\ ring.write \in 1..Circle /\ ring.deq \in 1..Circle
  BY PlaceFacts DEF Places, Circle
<1>2. ring.trbs[ring.deq].cycle = ring.ccs
  BY DEF Ready
<1>3. ring.trbs[ring.deq].cycle = (IF ring.deq < ring.write THEN ring.cycle ELSE ~ring.cycle)
  BY <1>1 DEF Marked
<1>4. ring.ccs \in BOOLEAN /\ ring.cycle \in BOOLEAN
  BY DEF Rings
<1>5. ring.ccs = ring.cycle <=> ring.deq < ring.write
  BY <1>2, <1>3, <1>4
<1> QED
  BY <1>1, <1>5 DEF Left, At

LEMMA DoorbellAt ==
  ASSUME NEW ring \in Rings, NEW r, r = RingDoorbell(ring)
  PROVE  /\ r \in Rings /\ (Marked(ring) => Marked(r)) /\ Left(r) = Left(ring)
         /\ SameStages(r, ring) /\ r.write = ring.write
<1>1. /\ r \in Rings /\ r.trbs = ring.trbs /\ r.write = ring.write /\ r.cycle = ring.cycle
      /\ r.deq = ring.deq /\ r.ccs = ring.ccs
  BY DoorbellFacts
<1>2. (Marked(ring) => Marked(r)) /\ Left(r) = Left(ring)
  BY <1>1, Zenon DEF Marked, Left
<1> QED
  BY <1>1, <1>2, SameStagesFacts

-----------------------------------------------------------------------------
(* ArrayMap *)

LEMMA FirstIndex ==
  ASSUME NEW n \in Nat, NEW I, I \subseteq 1..n
  PROVE  IF I = {} THEN (IF I # {} THEN Min(I) ELSE 0) = 0
         ELSE /\ (IF I # {} THEN Min(I) ELSE 0) \in I
              /\ \A j \in I : (IF I # {} THEN Min(I) ELSE 0) <= j
<1>1. CASE I = {}
  BY <1>1
<1>2. CASE I # {}
  <2>1. \E x \in I : \A y \in I : x <= y
    <3>1. I \in SUBSET Nat
      OBVIOUS
    <3> QED
      BY <1>2, <3>1, LowestMember
  <2>2. Min(I) \in I /\ \A y \in I : Min(I) <= y
    BY <2>1, Zenon DEF Min
  <2> QED
    BY <1>2, <2>2
<1> QED
  BY <1>1, <1>2

Is(entry, key) == entry # Free /\ entry.key = key

LEMMA IndexFacts ==
  ASSUME NEW S, NEW table \in Seq(S), NEW key
  PROVE  /\ \/ IndexOfKey(table, key) = 0 /\ \A i \in 1..Len(table) : ~Is(table[i], key)
            \/ /\ IndexOfKey(table, key) \in 1..Len(table) /\ Is(table[IndexOfKey(table, key)], key)
         /\ \/ IndexOfFree(table) = 0 /\ \A i \in 1..Len(table) : table[i] # Free
            \/ /\ IndexOfFree(table) \in 1..Len(table) /\ table[IndexOfFree(table)] = Free
               /\ \A i \in 1..Len(table) : table[i] = Free => IndexOfFree(table) <= i
<1>1. Len(table) \in Nat
  OBVIOUS
<1> DEFINE K == {i \in 1..Len(table) : Is(table[i], key)}
           F == {i \in 1..Len(table) : table[i] = Free}
<1>2. IndexOfKey(table, key) = IF K # {} THEN Min(K) ELSE 0
  BY DEF IndexOfKey, SelectInSeq, Is
<1>3. IndexOfFree(table) = IF F # {} THEN Min(F) ELSE 0
  BY DEF IndexOfFree, SelectInSeq
<1>4. IF K = {} THEN IndexOfKey(table, key) = 0 ELSE IndexOfKey(table, key) \in K
  BY <1>1, <1>2, FirstIndex
<1>5. IF F = {} THEN IndexOfFree(table) = 0
      ELSE IndexOfFree(table) \in F /\ \A j \in F : IndexOfFree(table) <= j
  BY <1>1, <1>3, FirstIndex
<1> HIDE DEF Is
<1> QED
  BY <1>4, <1>5

LEMMA GetFacts ==
  ASSUME NEW S, NEW table \in Seq(S), NEW key
  PROVE  \/ /\ Get(table, key) = Free /\ Delete(table, key) = table
            /\ \A i \in 1..Len(table) : ~Is(table[i], key)
         \/ \E i \in 1..Len(table) :
              /\ Is(table[i], key) /\ Get(table, key) = table[i].value
              /\ Delete(table, key) = [table EXCEPT ![i] = Free]
<1>1. CASE IndexOfKey(table, key) = 0 /\ \A i \in 1..Len(table) : ~Is(table[i], key)
  BY <1>1 DEF Get, Delete
<1>2. CASE /\ IndexOfKey(table, key) \in 1..Len(table) /\ Is(table[IndexOfKey(table, key)], key)
  <2>1. IndexOfKey(table, key) # 0
    BY <1>2
  <2> QED
    BY <1>2, <2>1, Zenon DEF Get, Delete
<1> QED
  BY <1>1, <1>2, IndexFacts

LEMMA PutFacts ==
  ASSUME NEW S, NEW table \in Seq(S), NEW key, NEW value
  PROVE  \/ /\ Put(table, key, value) = table
            /\ \A i \in 1..Len(table) : table[i] # Free
         \/ \E i \in 1..Len(table) :
              /\ table[i] = Free /\ \A j \in 1..Len(table) : table[j] = Free => i <= j
              /\ Put(table, key, value) = [table EXCEPT ![i] = [key |-> key, value |-> value]]
<1>1. CASE IndexOfFree(table) = 0 /\ \A i \in 1..Len(table) : table[i] # Free
  BY <1>1 DEF Put
<1>2. CASE /\ IndexOfFree(table) \in 1..Len(table) /\ table[IndexOfFree(table)] = Free
           /\ \A i \in 1..Len(table) : table[i] = Free => IndexOfFree(table) <= i
  <2>1. IndexOfFree(table) # 0
    BY <1>2
  <2> QED
    BY <1>2, <2>1, Zenon DEF Put
<1> QED
  BY <1>1, <1>2, IndexFacts

Entry(key, value) == [key |-> key, value |-> value]

(* One entry in an empty table is found, and what is left is empty.        *)
LEMMA SingleFacts ==
  ASSUME NEW n \in Nat \ {0}, NEW key, NEW value, NEW table,
         table = Put(NoEntries(n), key, value), Entry(key, value) # Free
  PROVE  /\ table = [i \in 1..n |-> IF i = 1 THEN Entry(key, value) ELSE Free]
         /\ Get(table, key) = value /\ Delete(table, key) = NoEntries(n)
<1> DEFINE S == {Free, Entry(key, value)}
<1>0. 1 \in 1..n
  OBVIOUS
<1>1. NoEntries(n) \in Seq(S) /\ Len(NoEntries(n)) = n /\ DOMAIN NoEntries(n) = 1..n
  <2>1. [i \in 1..n |-> Free] \in Seq(S) /\ Len([i \in 1..n |-> Free]) = n
    <3> HIDE DEF S
    <3>1. Free \in S
      BY DEF S
    <3> QED
      BY <3>1
  <2> QED
    BY <2>1 DEF NoEntries
<1>2. \A i \in 1..n : NoEntries(n)[i] = Free
  BY DEF NoEntries
<1>3. PICK i \in 1..n :
        /\ \A j \in 1..n : NoEntries(n)[j] = Free => i <= j
        /\ table = [NoEntries(n) EXCEPT ![i] = Entry(key, value)]
  <2> HIDE DEF S
  <2> QED
    BY <1>0, <1>1, <1>2, PutFacts DEF Entry
<1>4. i = 1
  BY <1>0, <1>2, <1>3
<1>5. table = [j \in 1..n |-> IF j = 1 THEN Entry(key, value) ELSE Free]
  BY <1>3, <1>4 DEF NoEntries
<1>6. table \in Seq(S) /\ Len(table) = n
  <2> HIDE DEF S
  <2>1. Free \in S /\ Entry(key, value) \in S
    BY DEF S
  <2> QED
    BY <1>5, <2>1
<1>7. /\ \A j \in 1..n : Is(table[j], key) => j = 1
      /\ Is(table[1], key) /\ table[1].value = value
  BY <1>0, <1>5 DEF Is, Entry
<1>8. Get(table, key) = value /\ Delete(table, key) = [table EXCEPT ![1] = Free]
  <2> HIDE DEF S
  <2>1. PICK j \in 1..n : /\ Is(table[j], key) /\ Get(table, key) = table[j].value
                          /\ Delete(table, key) = [table EXCEPT ![j] = Free]
    BY <1>0, <1>6, <1>7, GetFacts
  <2> QED
    BY <1>7, <2>1
<1>9. Delete(table, key) = NoEntries(n)
  BY <1>5, <1>8 DEF NoEntries
<1> QED
  BY <1>5, <1>8, <1>9

(* Nothing is found in an empty one.                                       *)
LEMMA EmptyFacts ==
  ASSUME NEW n \in Nat, NEW key
  PROVE  Get(NoEntries(n), key) = Free /\ Delete(NoEntries(n), key) = NoEntries(n)
<1>1. [i \in 1..n |-> Free] \in Seq({Free}) /\ Len([i \in 1..n |-> Free]) = n
  OBVIOUS
<1>2. \A i \in 1..n : ~Is(NoEntries(n)[i], key)
  BY DEF NoEntries, Is
<1> QED
  BY <1>1, <1>2, GetFacts DEF NoEntries

(* What is found of other keys stays when one is forgotten.                *)
LEMMA ForgetFacts ==
  ASSUME NEW S, NEW n \in Nat, NEW table \in [1..n -> S], Free \in S, NEW key
  PROVE  /\ Delete(table, key) \in [1..n -> S]
         /\ \A other : other # key => Get(Delete(table, key), other) = Get(table, other)
<1>1. table \in Seq(S) /\ Len(table) = n
  OBVIOUS
<1>2. CASE Delete(table, key) = table
  BY <1>2
<1>3. ASSUME NEW i \in 1..n, Is(table[i], key), Delete(table, key) = [table EXCEPT ![i] = Free]
      PROVE  /\ Delete(table, key) \in [1..n -> S]
             /\ \A other : other # key => Get(Delete(table, key), other) = Get(table, other)
  <2> DEFINE left == [table EXCEPT ![i] = Free]
  <2>1. left \in [1..n -> S] /\ left \in Seq(S) /\ Len(left) = n
    OBVIOUS
  <2>2. left[i] = Free /\ \A j \in 1..n : j # i => left[j] = table[j]
    OBVIOUS
  <2> HIDE DEF left
  <2>3. ASSUME NEW other, other # key PROVE Get(left, other) = Get(table, other)
    <3> DEFINE K == {j \in 1..n : Is(table[j], other)}
               L == {j \in 1..n : Is(left[j], other)}
    <3>1. K = L /\ i \notin K
      BY <1>3, <2>2, <2>3 DEF Is
    <3>2. IndexOfKey(table, other) = IF K # {} THEN Min(K) ELSE 0
      BY <1>1 DEF IndexOfKey, SelectInSeq, Is
    <3>3. IndexOfKey(left, other) = IF L # {} THEN Min(L) ELSE 0
      BY <2>1 DEF IndexOfKey, SelectInSeq, Is
    <3>4. IndexOfKey(left, other) = IndexOfKey(table, other)
      <4> HIDE DEF K, L
      <4> QED
        BY <3>1, <3>2, <3>3
    <3>5. IF K = {} THEN IndexOfKey(table, other) = 0 ELSE IndexOfKey(table, other) \in K
      <4> HIDE DEF Is
      <4>1. K \subseteq 1..n
        OBVIOUS
      <4> HIDE DEF K
      <4> QED
        BY <3>2, <4>1, FirstIndex
    <3>6. IndexOfKey(table, other) # 0 => left[IndexOfKey(table, other)] = table[IndexOfKey(table, other)]
      BY <2>2, <3>1, <3>5
    <3> QED
      BY <3>4, <3>6, Zenon DEF Get
  <2> QED
    BY <1>3, <2>1, <2>3 DEF left
<1> QED
  BY <1>1, <1>2, <1>3, GetFacts

Table(n, S) == [1..n -> S]

(* The first entry stays when something is added.                          *)
LEMMA AddFacts ==
  ASSUME NEW S, NEW n \in Nat, NEW table \in Table(n, S), n > 0, table[1] # Free,
         NEW key, NEW value, Entry(key, value) \in S
  PROVE  Put(table, key, value) \in Table(n, S) /\ Put(table, key, value)[1] = table[1]
<1>1. table \in [1..n -> S] /\ table \in Seq(S) /\ Len(table) = n
  BY DEF Table
<1>2. CASE Put(table, key, value) = table
  BY <1>2
<1>3. ASSUME NEW i \in 1..n, table[i] = Free, Put(table, key, value) = [table EXCEPT ![i] = Entry(key, value)]
      PROVE  Put(table, key, value) \in [1..n -> S] /\ Put(table, key, value)[1] = table[1]
  BY <1>1, <1>3
<1> QED
  BY <1>1, <1>2, <1>3, PutFacts DEF Entry, Table

-----------------------------------------------------------------------------
(* Answers among the events                                                *)

LEMMA PopAnswers ==
  ASSUME NEW es \in Seq(Events), es # <<>>
  PROVE  /\ IsAnswer(Head(es)) => ~NoAnswer(es)
         /\ NoAnswer(es) => NoAnswer(Tail(es))
         /\ \A at, setup : ~IsAnswer(Head(es)) /\ OneAnswer(es, at, setup) => OneAnswer(Tail(es), at, setup)
         /\ \A at, setup : IsAnswer(Head(es)) /\ OneAnswer(es, at, setup)
              => Head(es).at = at /\ Head(es).of = setup /\ NoAnswer(Tail(es))
<1>1. /\ Len(es) \in Nat \ {0} /\ DOMAIN es = 1..Len(es) /\ Head(es) = es[1]
      /\ DOMAIN Tail(es) = 1..Len(es) - 1
      /\ \A i \in DOMAIN Tail(es) : Tail(es)[i] = es[i + 1]
  OBVIOUS
<1>2. IsAnswer(Head(es)) => ~NoAnswer(es)
  <2>1. 1 \in DOMAIN es
    BY <1>1
  <2> QED
    BY <1>1, <2>1 DEF NoAnswer
<1>3. ASSUME NoAnswer(es) PROVE NoAnswer(Tail(es))
  <2>1. ASSUME NEW i \in DOMAIN Tail(es) PROVE ~IsAnswer(Tail(es)[i])
    <3>1. i + 1 \in DOMAIN es /\ Tail(es)[i] = es[i + 1]
      BY <1>1
    <3> QED
      BY <1>3, <3>1 DEF NoAnswer
  <2> QED
    BY <2>1 DEF NoAnswer
<1>4. ASSUME NEW at, NEW setup, OneAnswer(es, at, setup)
      PROVE  /\ ~IsAnswer(Head(es)) => OneAnswer(Tail(es), at, setup)
             /\ IsAnswer(Head(es))
                  => Head(es).at = at /\ Head(es).of = setup /\ NoAnswer(Tail(es))
  <2>1. PICK i \in DOMAIN es :
          /\ IsAnswer(es[i]) /\ es[i].at = at /\ es[i].of = setup
          /\ \A j \in DOMAIN es : IsAnswer(es[j]) => j = i
    BY <1>4 DEF OneAnswer
  <2>2. ASSUME NEW j \in DOMAIN Tail(es), IsAnswer(Tail(es)[j]) PROVE j + 1 = i
    <3>1. j + 1 \in DOMAIN es /\ Tail(es)[j] = es[j + 1]
      BY <1>1
    <3> QED
      BY <2>1, <2>2, <3>1
  <2>3. CASE i = 1
    <3>1. ASSUME NEW j \in DOMAIN Tail(es), IsAnswer(Tail(es)[j]) PROVE FALSE
      <4>1. j + 1 = 1 /\ j \in 1..Len(es) - 1
        BY <1>1, <2>2, <2>3, <3>1
      <4> QED
        BY <1>1, <4>1
    <3> QED
      BY <1>1, <2>1, <2>3, <3>1 DEF NoAnswer
  <2>4. CASE i # 1
    <3>1. i - 1 \in DOMAIN Tail(es) /\ Tail(es)[i - 1] = es[i] /\ ~IsAnswer(Head(es))
      <4>1. 1 \in DOMAIN es
        BY <1>1
      <4> QED
        BY <1>1, <2>1, <2>4, <4>1
    <3>2. \A j \in DOMAIN Tail(es) : IsAnswer(Tail(es)[j]) => j = i - 1
      <4> SUFFICES ASSUME NEW j \in DOMAIN Tail(es), IsAnswer(Tail(es)[j]) PROVE j = i - 1
        OBVIOUS
      <4>1. j \in Int /\ i \in Int
        BY <1>1
      <4>2. j + 1 = i
        BY <2>2
      <4> QED
        BY <4>1, <4>2
    <3> QED
      BY <2>1, <3>1, <3>2 DEF OneAnswer
  <2> QED
    BY <2>3, <2>4
<1> QED
  BY <1>2, <1>3, <1>4, Zenon

LEMMA PostAnswers ==
  ASSUME NEW es \in Seq(Events), NEW e \in Events
  PROVE  /\ ~IsAnswer(e) /\ NoAnswer(es) => NoAnswer(Append(es, e))
         /\ \A at, setup : ~IsAnswer(e) /\ OneAnswer(es, at, setup) => OneAnswer(Append(es, e), at, setup)
         /\ IsAnswer(e) /\ NoAnswer(es) => OneAnswer(Append(es, e), e.at, e.of)
<1> DEFINE n == Len(es) + 1
           more == Append(es, e)
<1>1. /\ DOMAIN more = 1..n /\ more[n] = e
      /\ \A i \in DOMAIN es : i # n /\ more[i] = es[i]
      /\ \A i \in 1..n : i # n => i \in DOMAIN es
      /\ DOMAIN es \subseteq 1..n /\ n \in 1..n
  OBVIOUS
<1> HIDE DEF n, more
<1>2. ASSUME ~IsAnswer(e), NoAnswer(es) PROVE NoAnswer(more)
  BY <1>1, <1>2 DEF NoAnswer
<1>3. ASSUME NEW at, NEW setup, ~IsAnswer(e), OneAnswer(es, at, setup) PROVE OneAnswer(more, at, setup)
  <2>1. PICK i \in DOMAIN es :
          /\ IsAnswer(es[i]) /\ es[i].at = at /\ es[i].of = setup
          /\ \A j \in DOMAIN es : IsAnswer(es[j]) => j = i
    BY <1>3 DEF OneAnswer
  <2>2. ASSUME NEW j \in DOMAIN more, IsAnswer(more[j]) PROVE j = i
    BY <1>1, <1>3, <2>1, <2>2
  <2> QED
    BY <1>1, <2>1, <2>2 DEF OneAnswer
<1>4. ASSUME IsAnswer(e), NoAnswer(es) PROVE OneAnswer(more, e.at, e.of)
  <2>1. ASSUME NEW j \in DOMAIN more, IsAnswer(more[j]) PROVE j = n
    BY <1>1, <1>4, <2>1 DEF NoAnswer
  <2> QED
    BY <1>1, <1>4, <2>1 DEF OneAnswer
<1> QED
  BY <1>2, <1>3, <1>4, Zenon DEF more

-----------------------------------------------------------------------------
(* Requests                                                                *)

SetupTrb(setup) == Trb("SetupStage", setup, FALSE)
DataTrb         == Trb("DataStage", NoSetup, TRUE)
StatusTrb       == Trb("StatusStage", NoSetup, FALSE)
LastTrb         == Trb("StatusStage", NoSetup, TRUE)

Read(c, setup)        == ControlTransfer(c, setup, TRUE, Free)
Set(c, setup, issuer) == ControlTransfer(c, setup, FALSE, issuer)

LEMMA StageTrbs ==
  ASSUME NEW setup \in Setups
  PROVE  /\ SetupTrb(setup) \in Trbs /\ \A t : SameStage(t, SetupTrb(setup)) => IsSetup(t, setup)
         /\ DataTrb \in Trbs /\ \A t : SameStage(t, DataTrb) => IsData(t)
         /\ StatusTrb \in Trbs /\ \A t : SameStage(t, StatusTrb) => IsStatus(t)
         /\ LastTrb \in Trbs /\ \A t : SameStage(t, LastTrb) => IsLast(t)
<1>1. "SetupStage" \in Types /\ "DataStage" \in Types /\ "StatusStage" \in Types
  BY DEF Types
<1>2. TRUE \in BOOLEAN /\ FALSE \in BOOLEAN
  OBVIOUS
<1>3. SetupTrb(setup) \in Trbs /\ DataTrb \in Trbs /\ StatusTrb \in Trbs /\ LastTrb \in Trbs
  BY <1>1, <1>2, TrbShape, NoSetupShape, Zenon DEF SetupTrb, DataTrb, StatusTrb, LastTrb
<1>4. /\ SetupTrb(setup).type = "SetupStage" /\ SetupTrb(setup).setup = setup /\ ~SetupTrb(setup).ioc
      /\ DataTrb.type = "DataStage" /\ DataTrb.ioc
      /\ StatusTrb.type = "StatusStage" /\ ~StatusTrb.ioc
      /\ LastTrb.type = "StatusStage" /\ LastTrb.ioc
  BY DEF SetupTrb, DataTrb, StatusTrb, LastTrb, Trb
<1>5. \A t : SameStage(t, SetupTrb(setup)) => IsSetup(t, setup)
  BY <1>4, Zenon DEF SameStage, IsSetup
<1>6. \A t : SameStage(t, DataTrb) => IsData(t)
  BY <1>4, Zenon DEF SameStage, IsData
<1>7. \A t : SameStage(t, StatusTrb) => IsStatus(t)
  BY <1>4, Zenon DEF SameStage, IsStatus
<1>8. \A t : SameStage(t, LastTrb) => IsLast(t)
  BY <1>4, Zenon DEF SameStage, IsLast
<1> QED
  BY <1>3, <1>5, <1>6, <1>7, <1>8

LEMMA ReadFacts ==
  ASSUME NEW c, IsControl(c), NEW setup, NEW new, new = Read(c, setup),
         NEW first, first = Push(c.ring, SetupTrb(setup))
  PROVE  /\ new.ring = RingDoorbell(Push(Push(first, DataTrb), StatusTrb)) /\ new.serving = c.serving
         /\ new.setups = Put(c.setups, first.write, c.ring.write)
         /\ new.waiters = c.waiters
<1> DEFINE w      == Wait(c, setup, Free)
           setups == Put(c.setups, first.write, c.ring.write)
           last   == IF TRUE THEN Push(Push(first, DataTrb), StatusTrb) ELSE Push(first, LastTrb)
           rung   == RingDoorbell(last)
<1>1. /\ w = [ring |-> w.ring, setups |-> w.setups, waiters |-> w.waiters, serving |-> w.serving]
      /\ w.serving = c.serving /\ w.setups = c.setups /\ w.waiters = c.waiters
  BY DEF Wait, IsControl
<1>2. new = [w EXCEPT !.ring = rung, !.setups = setups]
  BY <1>1, Zenon DEF Read, ControlTransfer, SetupTrb, DataTrb, StatusTrb, LastTrb
<1>3. last = Push(Push(first, DataTrb), StatusTrb)
  BY Zenon
<1> HIDE DEF w, setups, last
<1>4. rung = RingDoorbell(Push(Push(first, DataTrb), StatusTrb))
  BY <1>3, Zenon
<1> HIDE DEF rung
<1>5. new.ring = rung /\ new.setups = setups /\ new.waiters = w.waiters /\ new.serving = w.serving
  BY <1>1, <1>2
<1> QED
  BY <1>1, <1>4, <1>5, Zenon DEF setups

LEMMA SetFacts ==
  ASSUME NEW c, IsControl(c), NEW setup, NEW issuer, NEW new, new = Set(c, setup, issuer),
         NEW first, first = Push(c.ring, SetupTrb(setup))
  PROVE  /\ new.ring = RingDoorbell(Push(first, LastTrb)) /\ new.serving = c.serving
         /\ new.setups = Put(c.setups, first.write, c.ring.write)
         /\ new.waiters = IF issuer = Free THEN c.waiters ELSE Put(c.waiters, setup, issuer)
<1> DEFINE w      == Wait(c, setup, issuer)
           setups == Put(c.setups, first.write, c.ring.write)
           last   == IF FALSE THEN Push(Push(first, DataTrb), StatusTrb) ELSE Push(first, LastTrb)
           rung   == RingDoorbell(last)
<1>1. /\ w = [ring |-> w.ring, setups |-> w.setups, waiters |-> w.waiters, serving |-> w.serving]
      /\ w.serving = c.serving /\ w.setups = c.setups /\ w.waiters = IF issuer = Free THEN c.waiters ELSE Put(c.waiters, setup, issuer)
  BY DEF Wait, IsControl
<1>2. new = [w EXCEPT !.ring = rung, !.setups = setups]
  BY <1>1, Zenon DEF Set, ControlTransfer, SetupTrb, DataTrb, StatusTrb, LastTrb
<1>3. last = Push(first, LastTrb)
  BY Zenon
<1> HIDE DEF w, setups, last
<1>4. rung = RingDoorbell(Push(first, LastTrb))
  BY <1>3, Zenon
<1> HIDE DEF rung
<1>5. new.ring = rung /\ new.setups = setups /\ new.waiters = w.waiters /\ new.serving = w.serving
  BY <1>1, <1>2
<1> QED
  BY <1>1, <1>4, <1>5, Zenon DEF setups

(* A TRB is pushed to the control pipe.                                    *)
LEMMA PushOne ==
  ASSUME NEW ring \in Rings, Marked(ring), Left(ring) \in 0..Circle - 1, NEW trb \in Trbs
  PROVE  LET r == Push(ring, trb) IN
         /\ r \in Rings /\ Marked(r) /\ Left(r) = Left(ring) + 1
         /\ At(r, 1) = ring.write /\ At(r, 0) = r.write
         /\ \A k \in 0..Circle - 1 : At(r, k + 1) = At(ring, k)
         /\ SameStage(Stage(r, 1), trb)
         /\ \A k \in 1..Circle - 1 : Stage(r, k + 1) = Stage(ring, k)
<1> DEFINE r == Push(ring, trb)
<1>1. r \in Rings /\ Marked(r)
  BY PushMarked, PushAt
<1>2. At(r, 0) = r.write
  <2> HIDE DEF r
  <2> QED
    BY <1>1, PlaceFacts DEF At
<1>3. /\ Left(r) = Left(ring) + 1
      /\ At(r, 1) = ring.write
      /\ \A k \in 0..Circle - 1 : At(r, k + 1) = At(ring, k)
      /\ SameStage(Stage(r, 1), trb)
      /\ \A k \in 1..Circle - 1 : Stage(r, k + 1) = Stage(ring, k)
  BY PushAt
<1> QED
  BY <1>1, <1>2, <1>3, Zenon

LEMMA StartsReading ==
  ASSUME NEW c, IsControl(c), Marked(c.ring), Left(c.ring) \in 0..Circle, NEW es, Idle(c, es),
         NEW setup \in Setups, NEW buf, NEW new, new = Read(c, setup)
  PROVE  /\ Marked(new.ring) /\ Left(new.ring) \in 0..Circle
         /\ Reading(new, es, setup, buf) /\ new.waiters = c.waiters
<1> DEFINE first  == Push(c.ring, SetupTrb(setup))
           second == Push(first, DataTrb)
           last   == Push(second, StatusTrb)
<1>0. /\ Circle \in Nat /\ Circle >= 5 /\ c.ring \in Rings
      /\ Left(c.ring) \in 0..1
  BY PlaceFacts DEF IsControl, Idle
<1>1. /\ new.ring = RingDoorbell(last) /\ new.setups = Put(c.setups, first.write, c.ring.write)
      /\ new.waiters = c.waiters
  BY ReadFacts
<1>2. /\ first \in Rings /\ Marked(first) /\ Left(first) = Left(c.ring) + 1
      /\ At(first, 1) = c.ring.write /\ At(first, 0) = first.write
      /\ IsSetup(Stage(first, 1), setup) /\ Stage(first, 2) = Stage(c.ring, 1)
  BY <1>0, PushOne, StageTrbs
<1> HIDE DEF first
<1>3. /\ second \in Rings /\ Marked(second) /\ Left(second) = Left(first) + 1
      /\ At(second, 2) = At(first, 1) /\ At(second, 1) = first.write
      /\ IsData(Stage(second, 1))
      /\ Stage(second, 2) = Stage(first, 1) /\ Stage(second, 3) = Stage(first, 2)
  BY <1>0, <1>2, PushOne, StageTrbs
<1> HIDE DEF second
<1>4. /\ last \in Rings /\ Marked(last) /\ Left(last) = Left(second) + 1
      /\ At(last, 3) = At(second, 2) /\ At(last, 2) = At(second, 1)
      /\ IsStatus(Stage(last, 1)) /\ Stage(last, 2) = Stage(second, 1)
      /\ Stage(last, 3) = Stage(second, 2) /\ Stage(last, 4) = Stage(second, 3)
  BY <1>0, <1>2, <1>3, PushOne, StageTrbs
<1> HIDE DEF last
<1>5. Marked(new.ring) /\ Left(new.ring) = Left(last) /\ SameStages(new.ring, last)
  BY <1>1, <1>4, DoorbellAt
<1>6. Left(new.ring) \in 3..4 /\ (Left(new.ring) = 4 <=> Left(c.ring) = 1)
  BY <1>0, <1>2, <1>3, <1>4, <1>5
<1>7. new.setups = Put(NoEntries(16), At(new.ring, 2), At(new.ring, 3))
  BY <1>1, <1>2, <1>3, <1>4, <1>5, Zenon DEF SameStages, Idle
<1>8. /\ IsSetup(Stage(new.ring, 3), setup) /\ IsData(Stage(new.ring, 2)) /\ IsStatus(Stage(new.ring, 1))
      /\ Left(new.ring) = 4 => IsStatus(Stage(new.ring, 4))
  BY <1>2, <1>3, <1>4, <1>5, <1>6, Zenon DEF SameStages, Idle
<1>9. /\ Left(new.ring) <= 4 /\ ~(Left(new.ring) = 2) /\ ~(Left(new.ring) <= 1)
      /\ Left(new.ring) \in 0..Circle
  BY <1>0, <1>6
<1>10. NoAnswer(es)
  BY DEF Idle
<1> QED
  BY <1>1, <1>5, <1>7, <1>8, <1>9, <1>10, Zenon DEF Reading

LEMMA StartsSetting ==
  ASSUME NEW c, IsControl(c), Marked(c.ring), Left(c.ring) \in 0..Circle, NEW es, Idle(c, es),
         NEW setup \in Setups, NEW new, new = Set(c, setup, Free)
  PROVE  /\ Marked(new.ring) /\ Left(new.ring) \in 0..Circle
         /\ Setting(new, es, setup) /\ new.waiters = c.waiters
<1> DEFINE first == Push(c.ring, SetupTrb(setup))
           last  == Push(first, LastTrb)
<1>0. /\ Circle \in Nat /\ Circle >= 5 /\ c.ring \in Rings
      /\ Left(c.ring) \in 0..1
  BY PlaceFacts DEF IsControl, Idle
<1>1. /\ new.ring = RingDoorbell(last) /\ new.setups = Put(c.setups, first.write, c.ring.write)
      /\ new.waiters = c.waiters
  BY SetFacts
<1>2. /\ first \in Rings /\ Marked(first) /\ Left(first) = Left(c.ring) + 1
      /\ At(first, 1) = c.ring.write /\ At(first, 0) = first.write
      /\ IsSetup(Stage(first, 1), setup) /\ Stage(first, 2) = Stage(c.ring, 1)
  BY <1>0, PushOne, StageTrbs
<1> HIDE DEF first
<1>3. /\ last \in Rings /\ Marked(last) /\ Left(last) = Left(first) + 1
      /\ At(last, 2) = At(first, 1) /\ At(last, 1) = first.write
      /\ IsLast(Stage(last, 1))
      /\ Stage(last, 2) = Stage(first, 1) /\ Stage(last, 3) = Stage(first, 2)
  BY <1>0, <1>2, PushOne, StageTrbs
<1> HIDE DEF last
<1>4. Marked(new.ring) /\ Left(new.ring) = Left(last) /\ SameStages(new.ring, last)
  BY <1>1, <1>3, DoorbellAt
<1>5. Left(new.ring) \in 2..3 /\ (Left(new.ring) = 3 <=> Left(c.ring) = 1)
  BY <1>0, <1>2, <1>3, <1>4
<1>6. new.setups = Put(NoEntries(16), At(new.ring, 1), At(new.ring, 2))
  BY <1>1, <1>2, <1>3, <1>4, Zenon DEF SameStages, Idle
<1>7. /\ IsSetup(Stage(new.ring, 2), setup) /\ IsLast(Stage(new.ring, 1))
      /\ Left(new.ring) = 3 => IsStatus(Stage(new.ring, 3))
  BY <1>2, <1>3, <1>4, <1>5, Zenon DEF SameStages, Idle
<1>8. /\ Left(new.ring) <= 3 /\ ~(Left(new.ring) = 1) /\ ~(Left(new.ring) = 0)
      /\ Left(new.ring) \in 0..Circle
  BY <1>0, <1>5
<1>9. NoAnswer(es)
  BY DEF Idle
<1> QED
  BY <1>1, <1>4, <1>6, <1>7, <1>8, <1>9, Zenon DEF Setting

-----------------------------------------------------------------------------
(* What other events do to the answers                                     *)

KeepsAnswers(more, es) ==
  /\ NoAnswer(es) => NoAnswer(more)
  /\ \A at, setup : OneAnswer(es, at, setup) => OneAnswer(more, at, setup)
  /\ \A i \in DOMAIN more : IsAnswer(more[i]) => \E j \in DOMAIN es : es[j] = more[i]
  /\ Distinct(es) => Distinct(more)

LEMMA SameKeepsAnswers ==
  ASSUME NEW es
  PROVE  KeepsAnswers(es, es)
  BY DEF KeepsAnswers

(* An event that is popped leaves the others.                              *)
LEMMA PopOthers ==
  ASSUME NEW es \in Seq(Events), es # <<>>
  PROVE  /\ \A i \in DOMAIN Tail(es) : i + 1 \in DOMAIN es /\ i + 1 # 1 /\ Tail(es)[i] = es[i + 1]
         /\ Distinct(es) => Distinct(Tail(es))
         /\ \A i \in DOMAIN Tail(es) : Distinct(es) /\ IsAnswer(Head(es)) /\ IsAnswer(Tail(es)[i])
              => Tail(es)[i].at # Head(es).at
<1>1. /\ Len(es) \in Nat \ {0} /\ DOMAIN es = 1..Len(es) /\ Head(es) = es[1] /\ 1 \in DOMAIN es
      /\ DOMAIN Tail(es) = 1..Len(es) - 1
      /\ \A i \in DOMAIN Tail(es) : Tail(es)[i] = es[i + 1]
  OBVIOUS
<1>2. \A i \in DOMAIN Tail(es) : i + 1 \in DOMAIN es /\ i + 1 # 1 /\ Tail(es)[i] = es[i + 1]
  BY <1>1
<1>3. ASSUME Distinct(es) PROVE Distinct(Tail(es))
  <2> SUFFICES ASSUME NEW i \in DOMAIN Tail(es), NEW j \in DOMAIN Tail(es),
                      IsAnswer(Tail(es)[i]), IsAnswer(Tail(es)[j]), Tail(es)[i].at = Tail(es)[j].at
               PROVE  i = j
    BY DEF Distinct
  <2>1. i + 1 = j + 1
    BY <1>2, <1>3 DEF Distinct
  <2>2. i \in Int /\ j \in Int
    BY <1>1
  <2> QED
    BY <2>1, <2>2
<1>4. ASSUME NEW i \in DOMAIN Tail(es), Distinct(es), IsAnswer(Head(es)), IsAnswer(Tail(es)[i])
      PROVE  Tail(es)[i].at # Head(es).at
  BY <1>1, <1>2, <1>4 DEF Distinct
<1> QED
  BY <1>2, <1>3, <1>4

LEMMA PopKeepsAnswers ==
  ASSUME NEW es \in Seq(Events), es # <<>>, ~IsAnswer(Head(es))
  PROVE  KeepsAnswers(Tail(es), es)
<1>1. \A i \in DOMAIN Tail(es) : i + 1 \in DOMAIN es /\ Tail(es)[i] = es[i + 1]
  BY PopOthers
<1> QED
  BY <1>1, PopAnswers, PopOthers DEF KeepsAnswers

LEMMA PostOthers ==
  ASSUME NEW es \in Seq(Events), NEW e \in Events
  PROVE  LET more == Append(es, e) IN
         /\ \A i \in DOMAIN more : \/ i = Len(es) + 1 /\ more[i] = e
                                   \/ i \in DOMAIN es /\ more[i] = es[i]
         /\ \A i \in DOMAIN es : i # Len(es) + 1
  OBVIOUS

LEMMA PostKeepsAnswers ==
  ASSUME NEW es \in Seq(Events), NEW e \in Events, ~IsAnswer(e)
  PROVE  KeepsAnswers(Append(es, e), es)
<1> DEFINE more == Append(es, e)
<1>1. \A i \in DOMAIN more : IsAnswer(more[i]) => i \in DOMAIN es /\ more[i] = es[i]
  BY PostOthers
<1> HIDE DEF more
<1>2. Distinct(es) => Distinct(more)
  BY <1>1, Zenon DEF Distinct
<1>3. \A i \in DOMAIN more : IsAnswer(more[i]) => \E j \in DOMAIN es : es[j] = more[i]
  BY <1>1
<1> QED
  BY <1>2, <1>3, PostAnswers DEF KeepsAnswers, more

-----------------------------------------------------------------------------
(* The control pipe stays as it is, whatever other events there are.       *)

SamePipe(new, c) ==
  /\ SameStages(new.ring, c.ring) /\ Left(new.ring) = Left(c.ring)
  /\ new.setups = c.setups /\ new.waiters = c.waiters /\ new.serving = c.serving

LEMMA SameReading ==
  ASSUME NEW c, NEW new, NEW es, NEW more, NEW setup, NEW buf,
         SamePipe(new, c), KeepsAnswers(more, es), Reading(c, es, setup, buf)
  PROVE  Reading(new, more, setup, buf)
<1>1. /\ \A k : At(new.ring, k) = At(c.ring, k) /\ Stage(new.ring, k) = Stage(c.ring, k)
      /\ Left(new.ring) = Left(c.ring) /\ new.setups = c.setups /\ new.serving = c.serving
  BY DEF SamePipe, SameStages
<1>2. (NoAnswer(es) => NoAnswer(more)) /\ \A at : OneAnswer(es, at, setup) => OneAnswer(more, at, setup)
  BY DEF KeepsAnswers
<1> QED
  BY <1>1, <1>2 DEF Reading

LEMMA SameSetting ==
  ASSUME NEW c, NEW new, NEW es, NEW more, NEW setup,
         SamePipe(new, c), KeepsAnswers(more, es), Setting(c, es, setup)
  PROVE  Setting(new, more, setup)
<1>1. /\ \A k : At(new.ring, k) = At(c.ring, k) /\ Stage(new.ring, k) = Stage(c.ring, k)
      /\ Left(new.ring) = Left(c.ring) /\ new.setups = c.setups /\ new.serving = c.serving
  BY DEF SamePipe, SameStages
<1>2. (NoAnswer(es) => NoAnswer(more)) /\ \A at : OneAnswer(es, at, setup) => OneAnswer(more, at, setup)
  BY DEF KeepsAnswers
<1> QED
  BY <1>1, <1>2 DEF Setting

LEMMA SameIdle ==
  ASSUME NEW c, NEW new, NEW es, NEW more,
         SamePipe(new, c), KeepsAnswers(more, es), Idle(c, es)
  PROVE  Idle(new, more)
  BY Zenon DEF SamePipe, SameStages, KeepsAnswers, Idle

(* What is left of a request, and what its answer says.                    *)
Asks(c, left, k) ==
  /\ IsSetup(Stage(c.ring, 2 * k), Boot)
  /\ IsLast(Stage(c.ring, 2 * k - 1))
  /\ left = 2 * k - 1 => c.serving = Boot
  /\ 2 * k - 1 <= left => Get(c.setups, At(c.ring, 2 * k - 1)) = At(c.ring, 2 * k)

Answers(c, left, k, event) ==
  /\ left < 2 * k - 1
  /\ event.at = At(c.ring, 2 * k - 1) /\ event.of = Boot
  /\ Get(c.setups, At(c.ring, 2 * k - 1)) = At(c.ring, 2 * k)

LEMMA AskingFacts ==
  ASSUME NEW c, NEW es, NEW n
  PROVE  Asking(c, es, n) <=>
         /\ 2 * n <= Circle /\ Left(c.ring) <= 2 * n
         /\ c.setups \in [1..16 -> Entries]
         /\ \A k \in 1..n : Asks(c, Left(c.ring), k)
         /\ n > 0 => Get(c.waiters, Boot) # Free
         /\ \A i \in DOMAIN es : IsAnswer(es[i]) => \E k \in 1..n : Answers(c, Left(c.ring), k, es[i])
         /\ Distinct(es)
  BY Zenon DEF Asking, Asks, Answers

LEMMA SameAsking ==
  ASSUME NEW c, NEW new, NEW es, NEW more, NEW n,
         SamePipe(new, c), KeepsAnswers(more, es), Asking(c, es, n)
  PROVE  Asking(new, more, n)
<1>1. \A k \in 1..n : Asks(c, Left(c.ring), k) => Asks(new, Left(new.ring), k)
  BY Zenon DEF SamePipe, SameStages, Asks
<1>2. \A e : \A k \in 1..n : Answers(c, Left(c.ring), k, e) => Answers(new, Left(new.ring), k, e)
  BY Zenon DEF SamePipe, SameStages, Answers
<1>3. ASSUME NEW i \in DOMAIN more, IsAnswer(more[i])
      PROVE  \E k \in 1..n : Answers(new, Left(new.ring), k, more[i])
  <2>1. PICK j \in DOMAIN es : es[j] = more[i]
    BY <1>3 DEF KeepsAnswers
  <2> QED
    BY <1>2, <1>3, <2>1, AskingFacts
<1> QED
  BY <1>1, <1>3, AskingFacts, Zenon DEF SamePipe, KeepsAnswers

-----------------------------------------------------------------------------
(* The controller carries out a stage                                      *)

Carries(new, c, more, es) ==
  LET trb == Stage(c.ring, Left(c.ring))
      e   == [dci |-> 1, at |-> At(c.ring, Left(c.ring)), code |-> "Success", of |-> c.serving]
  IN  /\ SameStages(new.ring, c.ring) /\ Left(new.ring) = Left(c.ring) - 1
      /\ new.setups = c.setups /\ new.waiters = c.waiters
      /\ trb.type = "SetupStage" => new.serving = trb.setup
      /\ trb.type # "SetupStage" => new.serving = c.serving
      /\ trb.ioc => more = Append(es, e)
      /\ ~trb.ioc => more = es

LEMMA CarrySetup ==
  ASSUME NEW c, NEW new, NEW es, NEW more, Carries(new, c, more, es), NEW setup,
         IsSetup(Stage(c.ring, Left(c.ring)), setup)
  PROVE  new.serving = setup /\ more = es
  BY Zenon DEF Carries, IsSetup

LEMMA CarryStatus ==
  ASSUME NEW c, NEW new, NEW es, NEW more, Carries(new, c, more, es),
         IsStatus(Stage(c.ring, Left(c.ring)))
  PROVE  new.serving = c.serving /\ more = es
<1>1. "StatusStage" # "SetupStage"
  OBVIOUS
<1> QED
  BY <1>1, Zenon DEF Carries, IsStatus

LEMMA CarryLast ==
  ASSUME NEW c, NEW new, NEW es, NEW more, Carries(new, c, more, es), c.serving \in Setups,
         c.ring \in Rings, Left(c.ring) \in 1..Circle, es \in Seq(Events),
         IsData(Stage(c.ring, Left(c.ring))) \/ IsLast(Stage(c.ring, Left(c.ring)))
  PROVE  /\ new.serving = c.serving
         /\ \E e \in Events :
              /\ more = Append(es, e) /\ IsAnswer(e) /\ e.at = At(c.ring, Left(c.ring)) /\ e.of = c.serving
         /\ NoAnswer(es) => OneAnswer(more, At(c.ring, Left(c.ring)), c.serving)
<1> DEFINE at == At(c.ring, Left(c.ring))
           e  == [dci |-> 1, at |-> at, code |-> "Success", of |-> c.serving]
<1>1. at \in Places
  <2>1. Left(c.ring) \in 0..Circle /\ Places = 1..Circle
    BY PlaceFacts DEF Places, Circle
  <2> QED
    BY <2>1, PlaceFacts
<1>2. new.serving = c.serving /\ more = Append(es, e)
  <2>1. "StatusStage" # "SetupStage" /\ "DataStage" # "SetupStage"
    OBVIOUS
  <2> QED
    BY <2>1, Zenon DEF Carries, IsData, IsLast
<1> HIDE DEF at
<1>3. e \in Events /\ IsAnswer(e) /\ e.at = at /\ e.of = c.serving
  BY <1>1 DEF Events, IsAnswer
<1> HIDE DEF e
<1>4. NoAnswer(es) => OneAnswer(more, at, c.serving)
  BY <1>2, <1>3, PostAnswers
<1> QED
  BY <1>2, <1>3, <1>4 DEF at

LEMMA CarryRest ==
  ASSUME NEW c, NEW new, NEW es, NEW more, Carries(new, c, more, es)
  PROVE  /\ \A k : At(new.ring, k) = At(c.ring, k) /\ Stage(new.ring, k) = Stage(c.ring, k)
         /\ Left(new.ring) = Left(c.ring) - 1
         /\ new.setups = c.setups /\ new.waiters = c.waiters
  BY Zenon DEF Carries, SameStages

LEMMA Halves ==
  ASSUME NEW n \in Nat, NEW k \in 1..2 * n
  PROVE  \E m \in 1..n : k = 2 * m \/ k = 2 * m - 1
<1> DEFINE Halved(m) == \A j \in 1..2 * m : \E h \in 1..m : j = 2 * h \/ j = 2 * h - 1
           S == {m \in Nat : Halved(m)}
<1>1. Halved(0)
  OBVIOUS
<1>2. ASSUME NEW m \in Nat, Halved(m) PROVE Halved(m + 1)
  <2> SUFFICES ASSUME NEW j \in 1..2 * (m + 1) PROVE \E h \in 1..m + 1 : j = 2 * h \/ j = 2 * h - 1
    OBVIOUS
  <2>1. CASE j \in 1..2 * m
    <3>1. PICK h \in 1..m : j = 2 * h \/ j = 2 * h - 1
      BY <1>2, <2>1
    <3> QED
      BY <3>1
  <2>2. CASE j \notin 1..2 * m
    <3>1. m + 1 \in 1..m + 1 /\ (j = 2 * (m + 1) \/ j = 2 * (m + 1) - 1)
      BY <2>2
    <3> QED
      BY <3>1
  <2> QED
    BY <2>1, <2>2
<1> HIDE DEF Halved
<1>3. 0 \in S /\ \A m \in Nat : m \in S => m + 1 \in S
  BY <1>1, <1>2
<1> HIDE DEF S
<1>4. n \in S
  BY <1>3, Induction
<1>5. Halved(n)
  BY <1>4 DEF S
<1> QED
  BY <1>5 DEF Halved

LEMMA CarryReading ==
  ASSUME NEW c, NEW new, NEW es, NEW more, Carries(new, c, more, es), c.serving \in Setups,
         c.ring \in Rings, Left(c.ring) \in 1..Circle, es \in Seq(Events),
         NEW setup, NEW buf, NEW filled, Reading(c, es, setup, buf),
         filled = IF Stage(c.ring, Left(c.ring)).type = "DataStage" THEN c.serving.value ELSE buf
  PROVE  Reading(new, more, setup, filled)
<1> DEFINE left == Left(c.ring)
<1>1. /\ IsSetup(Stage(c.ring, 3), setup) /\ IsData(Stage(c.ring, 2)) /\ IsStatus(Stage(c.ring, 1))
      /\ left \in {1, 2, 3, 4} /\ (left = 4 => IsStatus(Stage(c.ring, 4)))
      /\ c.setups = Put(NoEntries(16), At(c.ring, 2), At(c.ring, 3))
      /\ left >= 2 => NoAnswer(es)
      /\ left = 2 => c.serving = setup
      /\ left <= 1 => OneAnswer(es, At(c.ring, 2), setup) /\ buf = setup.value
  <2>1. /\ IsSetup(Stage(c.ring, 3), setup) /\ IsData(Stage(c.ring, 2)) /\ IsStatus(Stage(c.ring, 1))
        /\ left <= 4 /\ (left = 4 => IsStatus(Stage(c.ring, 4)))
        /\ c.setups = Put(NoEntries(16), At(c.ring, 2), At(c.ring, 3))
        /\ left >= 2 => NoAnswer(es)
        /\ left = 2 => c.serving = setup
        /\ left <= 1 => OneAnswer(es, At(c.ring, 2), setup) /\ buf = setup.value
    BY Zenon DEF Reading
  <2>2. Circle \in Nat /\ left \in 1..Circle
    BY PlaceFacts
  <2> HIDE DEF left
  <2>3. left \in {1, 2, 3, 4}
    BY <2>1, <2>2
  <2> QED
    BY <2>1, <2>3, Zenon
<1>2. /\ \A k : At(new.ring, k) = At(c.ring, k) /\ Stage(new.ring, k) = Stage(c.ring, k)
      /\ Left(new.ring) = left - 1 /\ new.setups = c.setups
  BY CarryRest
<1>3. CASE left = 4
  <2>1. new.serving = c.serving /\ more = es
    BY <1>1, <1>3, CarryStatus
  <2> QED
    BY <1>1, <1>2, <1>3, <2>1 DEF Reading
<1>4. CASE left = 3
  <2>1. new.serving = setup /\ more = es
    <3>1. IsSetup(Stage(c.ring, Left(c.ring)), setup)
      BY <1>1, <1>4
    <3> QED
      BY <3>1, CarrySetup
  <2> QED
    BY <1>1, <1>2, <1>4, <2>1 DEF Reading
<1>5. CASE left = 2
  <2>1. OneAnswer(more, At(c.ring, 2), setup)
    BY <1>1, <1>5, CarryLast
  <2>2. filled = setup.value
    BY <1>1, <1>5 DEF IsData
  <2> QED
    BY <1>1, <1>2, <1>5, <2>1, <2>2 DEF Reading
<1>6. CASE left = 1
  <2>1. new.serving = c.serving /\ more = es
    BY <1>1, <1>6, CarryStatus
  <2>2. filled = setup.value
    BY <1>1, <1>6 DEF IsStatus
  <2> QED
    BY <1>1, <1>2, <1>6, <2>1, <2>2 DEF Reading
<1> QED
  BY <1>1, <1>3, <1>4, <1>5, <1>6

LEMMA CarrySetting ==
  ASSUME NEW c, NEW new, NEW es, NEW more, Carries(new, c, more, es), c.serving \in Setups,
         c.ring \in Rings, Left(c.ring) \in 1..Circle, es \in Seq(Events),
         NEW setup, Setting(c, es, setup)
  PROVE  Setting(new, more, setup)
<1> DEFINE left == Left(c.ring)
<1>1. /\ IsSetup(Stage(c.ring, 2), setup) /\ IsLast(Stage(c.ring, 1))
      /\ left \in {1, 2, 3} /\ (left = 3 => IsStatus(Stage(c.ring, 3)))
      /\ c.setups = Put(NoEntries(16), At(c.ring, 1), At(c.ring, 2))
      /\ NoAnswer(es) /\ (left = 1 => c.serving = setup)
  <2>1. /\ IsSetup(Stage(c.ring, 2), setup) /\ IsLast(Stage(c.ring, 1))
        /\ left <= 3 /\ (left = 3 => IsStatus(Stage(c.ring, 3)))
        /\ c.setups = Put(NoEntries(16), At(c.ring, 1), At(c.ring, 2))
        /\ left >= 1 => NoAnswer(es)
        /\ left = 1 => c.serving = setup
    BY Zenon DEF Setting
  <2>2. Circle \in Nat /\ left \in 1..Circle
    BY PlaceFacts
  <2> HIDE DEF left
  <2>3. left \in {1, 2, 3} /\ left >= 1
    BY <2>1, <2>2
  <2> QED
    BY <2>1, <2>3, Zenon
<1>2. /\ \A k : At(new.ring, k) = At(c.ring, k) /\ Stage(new.ring, k) = Stage(c.ring, k)
      /\ Left(new.ring) = left - 1 /\ new.setups = c.setups
  BY CarryRest
<1>3. CASE left = 3
  <2>1. new.serving = c.serving /\ more = es
    BY <1>1, <1>3, CarryStatus
  <2> QED
    BY <1>1, <1>2, <1>3, <2>1 DEF Setting
<1>4. CASE left = 2
  <2>1. new.serving = setup /\ more = es
    <3>1. IsSetup(Stage(c.ring, Left(c.ring)), setup)
      BY <1>1, <1>4
    <3> QED
      BY <3>1, CarrySetup
  <2> QED
    BY <1>1, <1>2, <1>4, <2>1 DEF Setting
<1>5. CASE left = 1
  <2>1. OneAnswer(more, At(c.ring, 1), setup)
    BY <1>1, <1>5, CarryLast
  <2> QED
    BY <1>1, <1>2, <1>5, <2>1 DEF Setting
<1> QED
  BY <1>1, <1>3, <1>4, <1>5

LEMMA CarryIdle ==
  ASSUME NEW c, NEW new, NEW es, NEW more, Carries(new, c, more, es), c.serving \in Setups,
         c.ring \in Rings, Left(c.ring) \in 1..Circle, es \in Seq(Events), Idle(c, es)
  PROVE  Idle(new, more) /\ Left(new.ring) = 0
<1>1. Left(c.ring) = 1 /\ IsStatus(Stage(c.ring, 1))
  BY PlaceFacts DEF Idle
<1>2. Left(new.ring) = 0 /\ new.setups = c.setups /\ more = es
  BY <1>1, CarryRest, CarryStatus
<1> QED
  BY <1>2 DEF Idle

LEMMA CarryAsking ==
  ASSUME NEW c, NEW new, NEW es, NEW more, Carries(new, c, more, es), c.serving \in Setups,
         c.ring \in Rings, Left(c.ring) \in 1..Circle, es \in Seq(Events),
         NEW n \in Nat, Asking(c, es, n)
  PROVE  Asking(new, more, n)
<1> DEFINE left == Left(c.ring)
<1>0. Circle \in Nat /\ left \in 1..Circle
  BY PlaceFacts
<1>1. /\ 2 * n <= Circle /\ left <= 2 * n /\ c.setups \in [1..16 -> Entries]
      /\ \A k \in 1..n : Asks(c, left, k)
      /\ n > 0 => Get(c.waiters, Boot) # Free
      /\ \A i \in DOMAIN es : IsAnswer(es[i]) => \E k \in 1..n : Answers(c, left, k, es[i])
      /\ Distinct(es)
  BY AskingFacts
<1>2. /\ \A k : At(new.ring, k) = At(c.ring, k) /\ Stage(new.ring, k) = Stage(c.ring, k)
      /\ Left(new.ring) = left - 1 /\ new.setups = c.setups /\ new.waiters = c.waiters
  BY CarryRest
<1>3. \A e : \A k \in 1..n : Answers(c, left, k, e) => Answers(new, left - 1, k, e)
  BY <1>0, <1>2 DEF Answers
<1>4. PICK m \in 1..n : left = 2 * m \/ left = 2 * m - 1
  <2>1. left \in 1..2 * n
    <3> HIDE DEF left
    <3> QED
      BY <1>0, <1>1
  <2> HIDE DEF left
  <2> QED
    BY <2>1, Halves
<1>5. CASE left = 2 * m
  <2>1. new.serving = Boot /\ more = es
    <3>1. IsSetup(Stage(c.ring, left), Boot)
      BY <1>1, <1>5 DEF Asks
    <3> QED
      BY <3>1, CarrySetup
  <2>2. \A k \in 1..n : Asks(new, left - 1, k)
    <3> SUFFICES ASSUME NEW k \in 1..n PROVE Asks(new, left - 1, k)
      OBVIOUS
    <3>1. Asks(c, left, k) /\ (2 * k - 1 <= left - 1 => 2 * k - 1 <= left)
      BY <1>0, <1>1
    <3> QED
      BY <1>2, <2>1, <3>1 DEF Asks
  <2>7. /\ 2 * n <= Circle /\ Left(new.ring) <= 2 * n /\ new.setups \in [1..16 -> Entries]
        /\ n > 0 => Get(new.waiters, Boot) # Free
    BY <1>0, <1>1, <1>2
  <2>8. /\ \A k \in 1..n : Asks(new, Left(new.ring), k)
        /\ \A i \in DOMAIN more : IsAnswer(more[i]) => \E k \in 1..n : Answers(new, Left(new.ring), k, more[i])
    BY <1>1, <1>2, <1>3, <2>1, <2>2
  <2> QED
    BY <1>1, <2>7, <2>8, <2>1, AskingFacts, Zenon
<1>6. CASE left = 2 * m - 1
  <2>0. m \in Int /\ Asks(c, left, m)
    BY <1>1
  <2>1. IsLast(Stage(c.ring, left)) /\ c.serving = Boot /\ Get(c.setups, At(c.ring, 2 * m - 1)) = At(c.ring, 2 * m)
    BY <1>6, <2>0 DEF Asks
  <2>2. PICK e \in Events : more = Append(es, e) /\ IsAnswer(e) /\ e.at = At(c.ring, 2 * m - 1) /\ e.of = Boot
    BY <1>6, <2>1, CarryLast
  <2>3. \A k \in 1..n : Asks(new, left - 1, k)
    <3> SUFFICES ASSUME NEW k \in 1..n PROVE Asks(new, left - 1, k)
      OBVIOUS
    <3>1. Asks(c, left, k) /\ left - 1 # 2 * k - 1
      BY <1>0, <1>1, <1>6, <2>0
    <3> QED
      BY <1>0, <1>2, <3>1 DEF Asks
  <2>4. Answers(new, left - 1, m, e)
    BY <1>0, <1>2, <1>6, <2>0, <2>1, <2>2 DEF Answers
  <2>5. \A i \in DOMAIN more : IsAnswer(more[i]) => \E k \in 1..n : Answers(new, left - 1, k, more[i])
    <3> SUFFICES ASSUME NEW i \in DOMAIN more, IsAnswer(more[i])
                 PROVE  \E k \in 1..n : Answers(new, left - 1, k, more[i])
      OBVIOUS
    <3>1. more[i] = e \/ (i \in DOMAIN es /\ more[i] = es[i])
      BY <2>2, PostOthers
    <3> QED
      BY <1>1, <1>3, <2>4, <3>1
  <2>6. Distinct(more)
    <3>1. ASSUME NEW i \in DOMAIN es, IsAnswer(es[i]) PROVE es[i].at # e.at
      <4>1. PICK k \in 1..n : Answers(c, left, k, es[i])
        BY <1>1, <3>1
      <4>2. left < 2 * k - 1 /\ es[i].at = At(c.ring, 2 * k - 1)
        BY <4>1 DEF Answers
      <4>3. 2 * k - 1 \in 1..Circle /\ 2 * m - 1 \in 1..Circle /\ 2 * k - 1 # 2 * m - 1
        BY <1>0, <1>1, <1>6, <4>2
      <4> QED
        BY <2>2, <4>2, <4>3, PlaceFacts
    <3>2. \A i \in DOMAIN more : \/ i = Len(es) + 1 /\ more[i] = e
                                 \/ i \in DOMAIN es /\ more[i] = es[i]
      BY <2>2, PostOthers
    <3> QED
      BY <1>1, <3>1, <3>2 DEF Distinct
  <2>7. /\ 2 * n <= Circle /\ Left(new.ring) <= 2 * n /\ new.setups \in [1..16 -> Entries]
        /\ n > 0 => Get(new.waiters, Boot) # Free
    BY <1>0, <1>1, <1>2
  <2>8. /\ \A k \in 1..n : Asks(new, Left(new.ring), k)
        /\ \A i \in DOMAIN more : IsAnswer(more[i]) => \E k \in 1..n : Answers(new, Left(new.ring), k, more[i])
    BY <1>1, <1>2, <1>3, <2>3, <2>5
  <2> QED
    BY <1>1, <2>7, <2>8, <2>6, AskingFacts, Zenon
<1> QED
  BY <1>4, <1>5, <1>6

-----------------------------------------------------------------------------
(* An answer is what it is the answer to.                                  *)

LEMMA EntryFacts ==
  ASSUME NEW key \in Nat, NEW value \in Nat
  PROVE  Entry(key, value) \in Entries /\ Entry(key, value) # Free /\ value # Free
<1>1. Entry(key, value) \in [key : Nat, value : Nat]
  BY DEF Entry
<1> QED
  BY <1>1, FreeAssumption DEF Entries

LEMMA PlacesAreFound ==
  ASSUME NEW ring \in Rings, NEW k \in 0..Circle
  PROVE  At(ring, k) \in Nat /\ At(ring, k) \in 1..RingSize /\ At(ring, k) # Free
<1>1. At(ring, k) \in 1..Circle /\ Circle \in Nat /\ RingSize = Circle + 1
  BY PlaceFacts
<1> QED
  BY <1>1, FreeAssumption

LEMMA ReadingSays ==
  ASSUME NEW c, c.ring \in Rings, NEW es, NEW setup, NEW buf, Reading(c, es, setup, buf),
         Left(c.ring) \in 0..Circle, NEW i \in DOMAIN es, IsAnswer(es[i])
  PROVE  /\ Get(c.setups, es[i].at) = At(c.ring, 3) /\ At(c.ring, 3) # Free
         /\ c.ring.trbs[At(c.ring, 3)].setup = setup /\ es[i].of = setup /\ buf = setup.value
         /\ Delete(c.setups, es[i].at) = NoEntries(16)
         /\ Left(c.ring) <= 1 /\ IsStatus(Stage(c.ring, 1))
         /\ OneAnswer(es, es[i].at, setup)
<1>1. /\ IsSetup(Stage(c.ring, 3), setup) /\ IsStatus(Stage(c.ring, 1))
      /\ c.setups = Put(NoEntries(16), At(c.ring, 2), At(c.ring, 3))
      /\ Left(c.ring) >= 2 => NoAnswer(es)
      /\ Left(c.ring) <= 1 => OneAnswer(es, At(c.ring, 2), setup) /\ buf = setup.value
  BY DEF Reading
<1>2. Left(c.ring) <= 1
  BY <1>1 DEF NoAnswer
<1>3. es[i].at = At(c.ring, 2) /\ es[i].of = setup
  BY <1>1, <1>2 DEF OneAnswer
<1>4. 2 \in 0..Circle /\ 3 \in 0..Circle
  BY PlaceFacts
<1>5. Get(c.setups, At(c.ring, 2)) = At(c.ring, 3) /\ Delete(c.setups, At(c.ring, 2)) = NoEntries(16)
  <2>1. Entry(At(c.ring, 2), At(c.ring, 3)) # Free
    BY <1>4, PlacesAreFound, EntryFacts
  <2> QED
    BY <1>1, <2>1, SingleFacts
<1>6. c.ring.trbs[At(c.ring, 3)].setup = setup
  BY <1>1 DEF IsSetup, Stage
<1> QED
  BY <1>1, <1>2, <1>3, <1>4, <1>5, <1>6, PlacesAreFound

LEMMA SettingSays ==
  ASSUME NEW c, c.ring \in Rings, NEW es, NEW setup, Setting(c, es, setup),
         Left(c.ring) \in 0..Circle, NEW i \in DOMAIN es, IsAnswer(es[i])
  PROVE  /\ Get(c.setups, es[i].at) = At(c.ring, 2) /\ At(c.ring, 2) # Free
         /\ c.ring.trbs[At(c.ring, 2)].setup = setup /\ es[i].of = setup
         /\ Delete(c.setups, es[i].at) = NoEntries(16)
         /\ Left(c.ring) = 0
         /\ OneAnswer(es, es[i].at, setup)
<1>1. /\ IsSetup(Stage(c.ring, 2), setup)
      /\ c.setups = Put(NoEntries(16), At(c.ring, 1), At(c.ring, 2))
      /\ Left(c.ring) >= 1 => NoAnswer(es)
      /\ Left(c.ring) = 0 => OneAnswer(es, At(c.ring, 1), setup)
  BY DEF Setting
<1>2. Left(c.ring) = 0
  BY <1>1 DEF NoAnswer
<1>3. es[i].at = At(c.ring, 1) /\ es[i].of = setup
  BY <1>1, <1>2 DEF OneAnswer
<1>4. 1 \in 0..Circle /\ 2 \in 0..Circle
  BY PlaceFacts
<1>5. Get(c.setups, At(c.ring, 1)) = At(c.ring, 2) /\ Delete(c.setups, At(c.ring, 1)) = NoEntries(16)
  <2>1. Entry(At(c.ring, 1), At(c.ring, 2)) # Free
    BY <1>4, PlacesAreFound, EntryFacts
  <2> QED
    BY <1>1, <2>1, SingleFacts
<1>6. c.ring.trbs[At(c.ring, 2)].setup = setup
  BY <1>1 DEF IsSetup, Stage
<1> QED
  BY <1>1, <1>2, <1>3, <1>4, <1>5, <1>6, PlacesAreFound

LEMMA AskingSays ==
  ASSUME NEW c, c.ring \in Rings, NEW es, NEW n \in Nat, Asking(c, es, n),
         Left(c.ring) \in 0..Circle, NEW i \in DOMAIN es, IsAnswer(es[i])
  PROVE  \E k \in 1..n :
           /\ Answers(c, Left(c.ring), k, es[i]) /\ 2 * k - 1 \in 1..Circle
           /\ Get(c.setups, es[i].at) = At(c.ring, 2 * k) /\ At(c.ring, 2 * k) # Free
           /\ c.ring.trbs[At(c.ring, 2 * k)].setup = Boot /\ es[i].of = Boot
           /\ Get(c.waiters, Boot) # Free
<1>1. /\ 2 * n <= Circle
      /\ \A k \in 1..n : Asks(c, Left(c.ring), k)
      /\ n > 0 => Get(c.waiters, Boot) # Free
      /\ \E k \in 1..n : Answers(c, Left(c.ring), k, es[i])
  BY AskingFacts
<1>2. PICK k \in 1..n : Answers(c, Left(c.ring), k, es[i])
  BY <1>1
<1>3. /\ Circle \in Nat /\ 2 * k \in 0..Circle /\ 2 * k - 1 \in 1..Circle /\ n > 0
      /\ IsSetup(Stage(c.ring, 2 * k), Boot)
  BY <1>1, <1>2, PlaceFacts DEF Asks
<1>4. c.ring.trbs[At(c.ring, 2 * k)].setup = Boot
  BY <1>3 DEF IsSetup, Stage
<1>5. /\ Get(c.setups, es[i].at) = At(c.ring, 2 * k) /\ es[i].of = Boot
  BY <1>2 DEF Answers
<1>6. At(c.ring, 2 * k) # Free
  BY <1>3, PlacesAreFound
<1> QED
  BY <1>1, <1>2, <1>3, <1>4, <1>5, <1>6

-----------------------------------------------------------------------------
(* An answer is taken.                                                     *)

LEMMA ForgetEntry ==
  ASSUME NEW table \in [1..16 -> Entries], NEW key
  PROVE  /\ Delete(table, key) \in [1..16 -> Entries]
         /\ \A other : other # key => Get(Delete(table, key), other) = Get(table, other)
<1>1. PICK n \in Nat : n = 16
  OBVIOUS
<1>2. table \in [1..n -> Entries] /\ Free \in Entries
  BY <1>1 DEF Entries
<1>3. /\ Delete(table, key) \in [1..n -> Entries]
      /\ \A other : other # key => Get(Delete(table, key), other) = Get(table, other)
  BY <1>2, ForgetFacts
<1> QED
  BY <1>1, <1>3

Forgets(new, c, at) ==
  /\ new.ring = c.ring /\ new.waiters = c.waiters /\ new.serving = c.serving
  /\ new.setups = Delete(c.setups, at)

LEMMA ReadingAnswered ==
  ASSUME NEW c, c.ring \in Rings, NEW es \in Seq(Events), es # <<>>, IsAnswer(Head(es)),
         NEW setup, NEW buf, Reading(c, es, setup, buf), Left(c.ring) \in 0..Circle,
         NEW new, Forgets(new, c, Head(es).at)
  PROVE  Idle(new, Tail(es))
<1>1. 1 \in DOMAIN es /\ Head(es) = es[1]
  OBVIOUS
<1>2. /\ Delete(c.setups, Head(es).at) = NoEntries(16) /\ Left(c.ring) <= 1 /\ IsStatus(Stage(c.ring, 1))
      /\ OneAnswer(es, Head(es).at, setup)
  BY <1>1, ReadingSays
<1>3. NoAnswer(Tail(es))
  BY <1>2, PopAnswers
<1> QED
  BY <1>2, <1>3 DEF Idle, Forgets

LEMMA SettingAnswered ==
  ASSUME NEW c, c.ring \in Rings, NEW es \in Seq(Events), es # <<>>, IsAnswer(Head(es)),
         NEW setup, Setting(c, es, setup), Left(c.ring) \in 0..Circle,
         NEW new, Forgets(new, c, Head(es).at)
  PROVE  Idle(new, Tail(es)) /\ Left(new.ring) = 0
<1>1. 1 \in DOMAIN es /\ Head(es) = es[1]
  OBVIOUS
<1>2. /\ Delete(c.setups, Head(es).at) = NoEntries(16) /\ Left(c.ring) = 0
      /\ OneAnswer(es, Head(es).at, setup)
  BY <1>1, SettingSays
<1>3. NoAnswer(Tail(es))
  BY <1>2, PopAnswers
<1> QED
  BY <1>2, <1>3 DEF Idle, Forgets

LEMMA AskingAnswered ==
  ASSUME NEW c, c.ring \in Rings, NEW es \in Seq(Events), es # <<>>, IsAnswer(Head(es)),
         NEW n \in Nat, Asking(c, es, n), Left(c.ring) \in 0..Circle,
         NEW new, Forgets(new, c, Head(es).at)
  PROVE  Asking(new, Tail(es), n)
<1> DEFINE left == Left(c.ring)
           at   == Head(es).at
           tail == Tail(es)
<1>0. 1 \in DOMAIN es /\ Head(es) = es[1]
  OBVIOUS
<1>1. /\ 2 * n <= Circle /\ left <= 2 * n /\ c.setups \in [1..16 -> Entries]
      /\ \A k \in 1..n : Asks(c, left, k)
      /\ n > 0 => Get(c.waiters, Boot) # Free
      /\ \A i \in DOMAIN es : IsAnswer(es[i]) => \E k \in 1..n : Answers(c, left, k, es[i])
      /\ Distinct(es)
  BY AskingFacts
<1>2. PICK m \in 1..n : Answers(c, left, m, Head(es)) /\ 2 * m - 1 \in 1..Circle
  BY <1>0, AskingSays
<1>3. left < 2 * m - 1 /\ at = At(c.ring, 2 * m - 1) /\ m \in Int
  BY <1>2 DEF Answers
<1>4. /\ new.setups \in [1..16 -> Entries]
      /\ \A other : other # at => Get(new.setups, other) = Get(c.setups, other)
  <2>1. Free \in Entries /\ 16 \in Nat /\ c.setups \in [1..16 -> Entries]
    BY <1>1 DEF Entries
  <2>2. new.setups = Delete(c.setups, at)
    BY DEF Forgets
  <2> HIDE DEF at
  <2>3. /\ Delete(c.setups, at) \in [1..16 -> Entries]
        /\ \A other : other # at => Get(Delete(c.setups, at), other) = Get(c.setups, other)
    BY <2>1, ForgetEntry
  <2> QED
    BY <2>2, <2>3
<1>5. ASSUME NEW k \in 1..n, At(c.ring, 2 * k - 1) # at
      PROVE  Get(new.setups, At(c.ring, 2 * k - 1)) = Get(c.setups, At(c.ring, 2 * k - 1))
  BY <1>4, <1>5
<1>6. new.ring = c.ring /\ new.waiters = c.waiters /\ new.serving = c.serving
  BY DEF Forgets
<1> HIDE DEF at
<1>7. \A k \in 1..n : Asks(new, left, k)
  <2> SUFFICES ASSUME NEW k \in 1..n PROVE Asks(new, left, k)
    OBVIOUS
  <2>1. Asks(c, left, k)
    BY <1>1
  <2>2. 2 * k - 1 <= left => At(c.ring, 2 * k - 1) # at
    <3> SUFFICES ASSUME 2 * k - 1 <= left PROVE At(c.ring, 2 * k - 1) # at
      OBVIOUS
    <3>1. Circle \in Nat /\ left \in 0..Circle /\ k \in Nat \ {0}
      BY PlaceFacts
    <3>2. 2 * k - 1 \in 1..Circle /\ 2 * m - 1 \in 1..Circle /\ 2 * k - 1 # 2 * m - 1
      BY <1>2, <1>3, <3>1
    <3> QED
      BY <1>3, <3>2, PlaceFacts
  <2> QED
    BY <1>5, <1>6, <2>1, <2>2 DEF Asks
<1>8. \A i \in DOMAIN tail : IsAnswer(tail[i]) => \E k \in 1..n : Answers(new, left, k, tail[i])
  <2> SUFFICES ASSUME NEW i \in DOMAIN tail, IsAnswer(tail[i])
               PROVE  \E k \in 1..n : Answers(new, left, k, tail[i])
    OBVIOUS
  <2>1. i + 1 \in DOMAIN es /\ tail[i] = es[i + 1] /\ tail[i].at # at
    BY <1>1, PopOthers DEF at
  <2>2. PICK k \in 1..n : Answers(c, left, k, tail[i])
    BY <1>1, <2>1
  <2>3. tail[i].at = At(c.ring, 2 * k - 1)
    BY <2>2 DEF Answers
  <2>4. Get(new.setups, At(c.ring, 2 * k - 1)) = Get(c.setups, At(c.ring, 2 * k - 1))
    BY <1>5, <2>1, <2>3
  <2>5. Answers(new, left, k, tail[i])
    BY <1>6, <2>2, <2>4 DEF Answers
  <2> QED
    BY <2>5
<1>9. Distinct(tail)
  BY <1>1, PopOthers
<1> QED
  BY <1>1, <1>4, <1>6, <1>7, <1>8, <1>9, AskingFacts, Zenon

-----------------------------------------------------------------------------
(* The drivers ask for the boot protocol                                   *)

Waiting == {Free} \cup [key : {Boot}, value : {"keyboard", "mouse"} \ {Free}]

(* m requests have been made, and nothing has been done about them.        *)
Asked0(c, m) ==
  /\ IsControl(c) /\ Marked(c.ring) /\ Left(c.ring) = 2 * m /\ 2 * m <= Circle
  /\ \A k \in 1..m : IsSetup(Stage(c.ring, 2 * k), Boot) /\ IsLast(Stage(c.ring, 2 * k - 1))
  /\ c.setups \in [1..16 -> Entries] /\ \A i \in m + 1..16 : c.setups[i] = Free
  /\ \A i \in 1..m : c.setups[i] = Entry(At(c.ring, 2 * (m - i) + 1), At(c.ring, 2 * (m - i) + 2))
  /\ c.waiters \in [1..4 -> Waiting]
  /\ IF m = 0 THEN c.waiters = NoEntries(4) ELSE c.waiters[1] # Free

LEMMA WaitingFacts ==
  ASSUME NEW kind \in {"keyboard", "mouse"}, kind # Free
  PROVE  Entry(Boot, kind) \in Waiting /\ Entry(Boot, kind) # Free
<1>1. Boot \in [request : {"SetProtocol"}, value : {"Boot"}]
  BY DEF Boot, Setup
<1>2. Entry(Boot, kind) \in [key : [request : {"SetProtocol"}, value : {"Boot"}], value : {"keyboard", "mouse"}]
  BY <1>1 DEF Entry
<1>3. Entry(Boot, kind) \in [key : {Boot}, value : {"keyboard", "mouse"} \ {Free}]
  BY DEF Entry
<1> QED
  BY <1>2, <1>3, FreeAssumption DEF Waiting

(* A request takes the first entry that is free.                           *)
LEMMA PutAt ==
  ASSUME NEW S, NEW n \in Nat, NEW table \in Table(n, S), NEW i \in 1..n, table[i] = Free,
         \A j \in 1..i - 1 : table[j] # Free, NEW key, NEW value, Entry(key, value) \in S, NEW t, t = Put(table, key, value)
  PROVE  /\ t \in Table(n, S)
         /\ t[i] = Entry(key, value) /\ \A j \in 1..n : j # i => t[j] = table[j]
<1>1. table \in [1..n -> S] /\ table \in Seq(S) /\ Len(table) = n
  BY DEF Table
<1>2. PICK k \in 1..n :
        /\ table[k] = Free /\ \A j \in 1..n : table[j] = Free => k <= j
        /\ t = [table EXCEPT ![k] = Entry(key, value)]
  BY <1>1, PutFacts DEF Entry
<1>3. k = i
  <2>1. k <= i
    BY <1>2
  <2>2. ~(k <= i - 1)
    BY <1>2
  <2> QED
    BY <2>1, <2>2
<1> QED
  BY <1>1, <1>2, <1>3 DEF Table

(* The ring, and the maps, after one more request.                         *)
AskedOnce(new, c, m, kind) ==
  /\ IsControl(new) /\ Marked(new.ring) /\ Left(new.ring) = 2 * (m + 1)
  /\ IsSetup(Stage(new.ring, 2), Boot) /\ IsLast(Stage(new.ring, 1))
  /\ \A k \in 1..2 * m : /\ At(new.ring, k + 2) = At(c.ring, k)
                         /\ Stage(new.ring, k + 2) = Stage(c.ring, k)
  /\ new.setups = Put(c.setups, At(new.ring, 1), At(new.ring, 2))
  /\ new.waiters = Put(c.waiters, Boot, kind)

LEMMA AskRing ==
  ASSUME NEW c, IsControl(c), Marked(c.ring), NEW m \in Nat, Left(c.ring) = 2 * m, 2 * (m + 1) <= Circle,
         NEW kind \in {"keyboard", "mouse"}, kind # Free, NEW new, new = Set(c, Boot, kind)
  PROVE  AskedOnce(new, c, m, kind)
<1> DEFINE first == Push(c.ring, SetupTrb(Boot))
           last  == Push(first, LastTrb)
<1>0. /\ Circle \in Nat /\ Circle >= 5 /\ c.ring \in Rings /\ Boot \in Setups
  BY PlaceFacts DEF IsControl, Boot, Setup, Setups
<1>1. /\ new.ring = RingDoorbell(last) /\ new.setups = Put(c.setups, first.write, c.ring.write)
      /\ new.waiters = Put(c.waiters, Boot, kind)
  BY SetFacts
<1>2. IsControl(new)
  <2>1. PICK no \in BOOLEAN : no = FALSE
    OBVIOUS
  <2>2. IsControl(ControlTransfer(c, Boot, no, kind))
    BY <1>0, RequestShape
  <2> QED
    BY <2>1, <2>2, Zenon DEF Set
<1>3. /\ first \in Rings /\ Marked(first) /\ Left(first) = Left(c.ring) + 1
      /\ At(first, 1) = c.ring.write /\ At(first, 0) = first.write
      /\ IsSetup(Stage(first, 1), Boot)
      /\ \A k \in 0..Circle - 1 : At(first, k + 1) = At(c.ring, k)
      /\ \A k \in 1..Circle - 1 : Stage(first, k + 1) = Stage(c.ring, k)
  <2>1. SetupTrb(Boot) \in Trbs /\ \A t : SameStage(t, SetupTrb(Boot)) => IsSetup(t, Boot)
    BY <1>0, StageTrbs
  <2> QED
    BY <1>0, <2>1, PushOne
<1> HIDE DEF first
<1>4. /\ last \in Rings /\ Marked(last) /\ Left(last) = Left(first) + 1
      /\ At(last, 2) = At(first, 1) /\ At(last, 1) = first.write
      /\ IsLast(Stage(last, 1))
      /\ \A k \in 0..Circle - 1 : At(last, k + 1) = At(first, k)
      /\ \A k \in 1..Circle - 1 : Stage(last, k + 1) = Stage(first, k)
  <2>1. LastTrb \in Trbs /\ \A t : SameStage(t, LastTrb) => IsLast(t)
    BY <1>0, StageTrbs
  <2> QED
    BY <1>0, <1>3, <2>1, PushOne
<1> HIDE DEF last
<1>5. Marked(new.ring) /\ Left(new.ring) = Left(last) /\ SameStages(new.ring, last)
  BY <1>1, <1>4, DoorbellAt
<1>6. \A k \in 1..2 * m : At(last, k + 2) = At(c.ring, k) /\ Stage(last, k + 2) = Stage(c.ring, k)
  <2> SUFFICES ASSUME NEW k \in 1..2 * m
               PROVE  At(last, k + 2) = At(c.ring, k) /\ Stage(last, k + 2) = Stage(c.ring, k)
    OBVIOUS
  <2>1. k \in 1..Circle - 1 /\ k + 1 \in 1..Circle - 1 /\ (k + 1) + 1 = k + 2
    BY <1>0
  <2>2. At(first, k + 1) = At(c.ring, k) /\ Stage(first, k + 1) = Stage(c.ring, k)
    BY <2>1, <1>0, <1>3
  <2>3. At(last, (k + 1) + 1) = At(first, k + 1) /\ Stage(last, (k + 1) + 1) = Stage(first, k + 1)
    BY <2>1, <1>0, <1>4
  <2> QED
    BY <2>1, <2>2, <2>3
<1>7. Stage(last, 2) = Stage(first, 1)
  BY <1>0, <1>4
<1>8. \A k : At(new.ring, k) = At(last, k) /\ Stage(new.ring, k) = Stage(last, k)
  BY <1>5 DEF SameStages
<1>9. Left(new.ring) = 2 * (m + 1)
  BY <1>3, <1>4, <1>5
<1>10. new.setups = Put(c.setups, At(new.ring, 1), At(new.ring, 2))
  BY <1>1, <1>3, <1>4, <1>8
<1>11. IsSetup(Stage(new.ring, 2), Boot) /\ IsLast(Stage(new.ring, 1)) /\ Marked(new.ring)
  BY <1>3, <1>4, <1>5, <1>7, <1>8
<1>12. \A k \in 1..2 * m : At(new.ring, k + 2) = At(c.ring, k) /\ Stage(new.ring, k + 2) = Stage(c.ring, k)
  BY <1>6, <1>8
<1> QED
  BY <1>1, <1>2, <1>9, <1>10, <1>11, <1>12, Zenon DEF AskedOnce

LEMMA PutEntry ==
  ASSUME NEW table \in [1..16 -> Entries], NEW m \in 0..14, table[m + 1] = Free,
         \A j \in 1..m : table[j] # Free, NEW key, NEW value, Entry(key, value) \in Entries,
         NEW t, t = Put(table, key, value)
  PROVE  /\ t \in [1..16 -> Entries]
         /\ t[m + 1] = Entry(key, value) /\ \A j \in 1..16 : j # m + 1 => t[j] = table[j]
<1>1. PICK n \in Nat : n = 16
  OBVIOUS
<1>2. PICK i \in 1..n : i = m + 1
  BY <1>1
<1>3. table \in Table(n, Entries) /\ table[i] = Free /\ \A j \in 1..i - 1 : table[j] # Free
  BY <1>1, <1>2 DEF Table
<1>4. /\ t \in Table(n, Entries)
      /\ t[i] = Entry(key, value) /\ \A j \in 1..n : j # i => t[j] = table[j]
  BY <1>3, PutAt
<1> QED
  BY <1>1, <1>2, <1>4 DEF Table

LEMMA PutWaiting ==
  ASSUME NEW table \in [1..4 -> Waiting], table[1] # Free, NEW key, NEW value, Entry(key, value) \in Waiting
  PROVE  Put(table, key, value) \in [1..4 -> Waiting] /\ Put(table, key, value)[1] = table[1]
<1>1. PICK n \in Nat : n = 4
  OBVIOUS
<1>2. table \in Table(n, Waiting) /\ n > 0
  BY <1>1 DEF Table
<1>3. Put(table, key, value) \in Table(n, Waiting) /\ Put(table, key, value)[1] = table[1]
  BY <1>2, AddFacts
<1> QED
  BY <1>1, <1>3 DEF Table

(* One more driver has asked.                                              *)
LEMMA AskOne ==
  ASSUME NEW c, NEW m \in 0..14, Asked0(c, m), 2 * (m + 1) <= Circle,
         NEW kind \in {"keyboard", "mouse"}, kind # Free, NEW new, new = Set(c, Boot, kind)
  PROVE  Asked0(new, m + 1)
<1>0. Circle \in Nat /\ m \in Nat
  BY Size DEF Circle
<1>1. /\ IsControl(c) /\ Marked(c.ring) /\ Left(c.ring) = 2 * m
      /\ \A k \in 1..m : IsSetup(Stage(c.ring, 2 * k), Boot) /\ IsLast(Stage(c.ring, 2 * k - 1))
      /\ c.setups \in [1..16 -> Entries] /\ \A i \in m + 1..16 : c.setups[i] = Free
      /\ \A i \in 1..m : c.setups[i] = Entry(At(c.ring, 2 * (m - i) + 1), At(c.ring, 2 * (m - i) + 2))
      /\ c.waiters \in [1..4 -> Waiting]
      /\ IF m = 0 THEN c.waiters = NoEntries(4) ELSE c.waiters[1] # Free
  BY Zenon DEF Asked0
<1>2. /\ IsControl(new) /\ Marked(new.ring) /\ Left(new.ring) = 2 * (m + 1)
      /\ IsSetup(Stage(new.ring, 2), Boot) /\ IsLast(Stage(new.ring, 1))
      /\ \A k \in 1..2 * m : /\ At(new.ring, k + 2) = At(c.ring, k)
                             /\ Stage(new.ring, k + 2) = Stage(c.ring, k)
      /\ new.setups = Put(c.setups, At(new.ring, 1), At(new.ring, 2))
      /\ new.waiters = Put(c.waiters, Boot, kind)
  <2>1. AskedOnce(new, c, m, kind)
    <3>1. IsControl(c) /\ Marked(c.ring) /\ Left(c.ring) = 2 * m
      BY <1>1
    <3> QED
      BY <1>0, <3>1, AskRing
  <2> QED
    BY <2>1, Zenon DEF AskedOnce
<1>3. \A k \in 1..m + 1 : IsSetup(Stage(new.ring, 2 * k), Boot) /\ IsLast(Stage(new.ring, 2 * k - 1))
  <2> SUFFICES ASSUME NEW k \in 1..m + 1
               PROVE  IsSetup(Stage(new.ring, 2 * k), Boot) /\ IsLast(Stage(new.ring, 2 * k - 1))
    OBVIOUS
  <2>1. CASE k = 1
    BY <1>2, <2>1
  <2>2. CASE k # 1
    <3>1. PICK l \in 1..m : k = l + 1
      BY <2>2
    <3>2. 2 * l \in 1..2 * m /\ 2 * l - 1 \in 1..2 * m /\ 2 * k = 2 * l + 2 /\ 2 * k - 1 = (2 * l - 1) + 2
      BY <3>1
    <3>3. Stage(new.ring, 2 * k) = Stage(c.ring, 2 * l) /\ Stage(new.ring, 2 * k - 1) = Stage(c.ring, 2 * l - 1)
      BY <1>2, <3>2
    <3> QED
      BY <1>1, <3>3
  <2> QED
    BY <2>1, <2>2
<1> DEFINE entry == Entry(At(new.ring, 1), At(new.ring, 2))
<1>4. entry \in Entries
  <2>1. new.ring \in Rings /\ 1 \in 0..Circle /\ 2 \in 0..Circle
    BY <1>2, PlaceFacts DEF IsControl
  <2> QED
    BY <2>1, PlacesAreFound, EntryFacts
<1>5. /\ new.setups \in [1..16 -> Entries] /\ new.setups[m + 1] = entry
      /\ \A j \in 1..16 : j # m + 1 => new.setups[j] = c.setups[j]
  <2>1. c.setups \in [1..16 -> Entries] /\ c.setups[m + 1] = Free /\ \A j \in 1..m : c.setups[j] # Free
    <3>1. \A j \in 1..m : c.setups[j] # Free
      <4> SUFFICES ASSUME NEW j \in 1..m PROVE c.setups[j] # Free
        OBVIOUS
      <4>1. PICK k \in 0..Circle, l \in 0..Circle : k = 2 * (m - j) + 1 /\ l = 2 * (m - j) + 2
        BY <1>0
      <4>2. c.ring \in Rings
        BY <1>1 DEF IsControl
      <4>3. Entry(At(c.ring, k), At(c.ring, l)) # Free
        BY <4>2, PlacesAreFound, EntryFacts
      <4>4. c.setups[j] = Entry(At(c.ring, 2 * (m - j) + 1), At(c.ring, 2 * (m - j) + 2))
        BY <1>1
      <4> QED
        BY <4>1, <4>3, <4>4
    <3> QED
      BY <1>1, <3>1
  <2> QED
    BY <1>2, <1>4, <2>1, PutEntry
<1>6. /\ \A i \in m + 2..16 : new.setups[i] = Free
      /\ \A i \in 1..m + 1 :
           new.setups[i] = Entry(At(new.ring, 2 * ((m + 1) - i) + 1), At(new.ring, 2 * ((m + 1) - i) + 2))
  <2>1. \A i \in m + 2..16 : new.setups[i] = Free
    BY <1>1, <1>5
  <2> SUFFICES ASSUME NEW i \in 1..m + 1
               PROVE  new.setups[i]
                        = Entry(At(new.ring, 2 * ((m + 1) - i) + 1), At(new.ring, 2 * ((m + 1) - i) + 2))
    BY <2>1
  <2>2. CASE i = m + 1
    <3>1. 2 * ((m + 1) - i) + 1 = 1 /\ 2 * ((m + 1) - i) + 2 = 2
      BY <2>2
    <3> QED
      BY <1>5, <2>2, <3>1
  <2>3. CASE i # m + 1
    <3>1. i \in 1..m /\ i \in 1..16
      BY <2>3
    <3>2. PICK k \in 1..2 * m : k = 2 * (m - i) + 1
      BY <3>1
    <3>3. k + 1 \in 1..2 * m /\ k + 1 = 2 * (m - i) + 2
      BY <3>1, <3>2
    <3>4. 2 * ((m + 1) - i) + 1 = k + 2 /\ 2 * ((m + 1) - i) + 2 = (k + 1) + 2
      BY <3>1, <3>2
    <3>5. At(new.ring, k + 2) = At(c.ring, k) /\ At(new.ring, (k + 1) + 2) = At(c.ring, k + 1)
      BY <1>2, <3>3
    <3>6. new.setups[i] = Entry(At(c.ring, k), At(c.ring, k + 1))
      BY <1>1, <1>5, <2>3, <3>1, <3>2, <3>3
    <3> QED
      BY <3>4, <3>5, <3>6
  <2> QED
    BY <2>2, <2>3
<1>7. new.waiters \in [1..4 -> Waiting] /\ new.waiters[1] # Free
  <2>1. PICK n \in Nat \ {0} : n = 4
    OBVIOUS
  <2>2. Entry(Boot, kind) \in Waiting /\ Entry(Boot, kind) # Free /\ Free \in Waiting
    BY WaitingFacts DEF Waiting
  <2>3. CASE m = 0
    <3>1. new.waiters = Put(NoEntries(n), Boot, kind)
      BY <1>1, <1>2, <2>1, <2>3
    <3>2. new.waiters = [i \in 1..n |-> IF i = 1 THEN Entry(Boot, kind) ELSE Free]
      BY <2>2, <3>1, SingleFacts
    <3> QED
      BY <2>1, <2>2, <3>2
  <2>4. CASE m # 0
    <3>1. c.waiters[1] # Free
      BY <1>1, <2>4
    <3>2. /\ Put(c.waiters, Boot, kind) \in [1..4 -> Waiting]
          /\ Put(c.waiters, Boot, kind)[1] = c.waiters[1]
      BY <1>1, <2>2, <3>1, PutWaiting
    <3> QED
      BY <1>2, <3>1, <3>2
  <2> QED
    BY <2>3, <2>4
<1>8. m + 1 # 0 /\ (m + 1) + 1 = m + 2
  OBVIOUS
<1> QED
  BY <1>2, <1>3, <1>5, <1>6, <1>7, <1>8 DEF Asked0

LEMMA TableFacts ==
  ASSUME NEW S, NEW n \in Nat, NEW table \in [1..n -> S]
  PROVE  table \in Seq(S) /\ Len(table) = n
  OBVIOUS

(* What has been put is found.                                             *)
LEMMA WaiterFound ==
  ASSUME NEW table \in [1..4 -> Waiting], table[1] # Free
  PROVE  Get(table, Boot) # Free
<1>1. PICK n \in Nat \ {0} : n = 4
  OBVIOUS
<1>2. table \in Seq(Waiting) /\ Len(table) = n /\ 1 \in 1..n /\ table \in [1..n -> Waiting]
  <2>1. table \in [1..n -> Waiting]
    BY <1>1
  <2> QED
    BY <2>1, TableFacts
<1>3. \A e \in Waiting : e # Free => e.key = Boot /\ e.value # Free
  BY DEF Waiting
<1>4. Is(table[1], Boot)
  BY <1>2, <1>3 DEF Is
<1>5. PICK i \in 1..n : Is(table[i], Boot) /\ Get(table, Boot) = table[i].value
  BY <1>2, <1>4, GetFacts
<1>6. table[i] \in Waiting /\ table[i] # Free
  BY <1>2, <1>5 DEF Is
<1> QED
  BY <1>3, <1>5, <1>6

LEMMA PlaceFound ==
  ASSUME NEW c, NEW m \in 0..15, Asked0(c, m), NEW k \in 1..m
  PROVE  Get(c.setups, At(c.ring, 2 * k - 1)) = At(c.ring, 2 * k)
<1>0. /\ c.ring \in Rings /\ Circle \in Nat /\ m \in Nat /\ k \in Nat \ {0}
      /\ c.setups \in [1..16 -> Entries] /\ \A i \in m + 1..16 : c.setups[i] = Free
      /\ \A i \in 1..m : c.setups[i] = Entry(At(c.ring, 2 * (m - i) + 1), At(c.ring, 2 * (m - i) + 2))
      /\ 2 * m <= Circle
  BY PlaceFacts DEF Asked0, IsControl
<1>1. PICK n \in Nat : n = 16
  OBVIOUS
<1>2. c.setups \in Seq(Entries) /\ Len(c.setups) = n
  <2>1. c.setups \in [1..n -> Entries]
    BY <1>0, <1>1
  <2> QED
    BY <2>1, TableFacts
<1> DEFINE key == At(c.ring, 2 * k - 1)
<1>3. PICK j \in 1..m : j = m + 1 - k
  BY <1>0
<1>4. 2 * (m - j) + 1 = 2 * k - 1 /\ 2 * (m - j) + 2 = 2 * k /\ j \in 1..n
  BY <1>0, <1>1, <1>3
<1>5. c.setups[j] = Entry(At(c.ring, 2 * k - 1), At(c.ring, 2 * k))
  BY <1>0, <1>4
<1>6. 2 * k - 1 \in 0..Circle /\ 2 * k \in 0..Circle
  BY <1>0
<1>7. c.setups[j] # Free
  BY <1>0, <1>5, <1>6, PlacesAreFound, EntryFacts
<1>8. Is(c.setups[j], key)
  BY <1>5, <1>7 DEF Is, Entry
<1> HIDE DEF key
<1>9. PICK i \in 1..n : Is(c.setups[i], key) /\ Get(c.setups, key) = c.setups[i].value
  BY <1>2, <1>4, <1>8, GetFacts
<1>10. i = j
  <2>1. c.setups[i] # Free /\ c.setups[i].key = key
    BY <1>9 DEF Is
  <2>2. i \in 1..m
    BY <1>0, <1>1, <2>1
  <2>3. PICK l \in 1..Circle : l = 2 * (m - i) + 1
    BY <1>0, <2>2
  <2>4. At(c.ring, l) = At(c.ring, 2 * k - 1)
    <3>1. c.setups[i] = Entry(At(c.ring, 2 * (m - i) + 1), At(c.ring, 2 * (m - i) + 2))
      BY <1>0, <2>2
    <3>2. c.setups[i].key = At(c.ring, 2 * (m - i) + 1)
      BY <3>1 DEF Entry
    <3> QED
      BY <2>1, <2>3, <3>2 DEF key
  <2>5. l = 2 * k - 1
    BY <1>0, <1>6, <2>4, PlaceFacts
  <2> QED
    BY <1>0, <1>3, <2>2, <2>3, <2>5
<1> QED
  BY <1>5, <1>9, <1>10 DEF Entry, key

LEMMA AskedAsking ==
  ASSUME NEW c, NEW m \in 0..15, Asked0(c, m), NEW es, NoAnswer(es)
  PROVE  Asking(c, es, m)
<1>1. /\ Left(c.ring) = 2 * m /\ 2 * m <= Circle
      /\ \A k \in 1..m : IsSetup(Stage(c.ring, 2 * k), Boot) /\ IsLast(Stage(c.ring, 2 * k - 1))
      /\ c.setups \in [1..16 -> Entries]
      /\ c.waiters \in [1..4 -> Waiting] /\ (m # 0 => c.waiters[1] # Free)
  BY DEF Asked0
<1>2. \A k \in 1..m : Asks(c, Left(c.ring), k)
  <2> SUFFICES ASSUME NEW k \in 1..m PROVE Asks(c, Left(c.ring), k)
    OBVIOUS
  <2>1. Left(c.ring) # 2 * k - 1
    BY <1>1
  <2> QED
    BY <1>1, <2>1, PlaceFound DEF Asks
<1>3. m > 0 => Get(c.waiters, Boot) # Free
  BY <1>1, WaiterFound
<1>4. Distinct(es) /\ \A i \in DOMAIN es : ~IsAnswer(es[i])
  BY DEF Distinct, NoAnswer
<1>5. Left(c.ring) <= 2 * m
  BY <1>1
<1> QED
  BY <1>1, <1>2, <1>3, <1>4, <1>5, AskingFacts

(* Each driver asks once, or once for each of its endpoint numbers.        *)
UpTo(n) == {k \in 1..n : dev.drivers[k] # Free}

LEMMA UpToFacts ==
  ASSUME NEW n \in 0..15
  PROVE  /\ IsFiniteSet(UpTo(n)) /\ Cardinality(UpTo(n)) \in 0..n /\ UpTo(15) = Driven
         /\ Cardinality(UpTo(n)) <= Cardinality(Driven)
         /\ n < 15 => IF dev.drivers[n + 1] = Free THEN UpTo(n + 1) = UpTo(n)
                      ELSE Cardinality(UpTo(n + 1)) = Cardinality(UpTo(n)) + 1
         /\ Cardinality(UpTo(0)) = 0
<1>1. \A k \in 0..15 : IsFiniteSet(1..k) /\ Cardinality(1..k) = k
  <2> SUFFICES ASSUME NEW k \in 0..15 PROVE IsFiniteSet(1..k) /\ Cardinality(1..k) = k
    OBVIOUS
  <2>1. 1 \in Int /\ k \in Int
    OBVIOUS
  <2>2. IsFiniteSet(1..k) /\ Cardinality(1..k) = IF 1 > k THEN 0 ELSE k - 1 + 1
    BY <2>1, FS_Interval
  <2> QED
    BY <2>2
<1>2. \A k \in 0..15 : UpTo(k) \subseteq 1..k
  BY DEF UpTo
<1>3. \A k \in 0..15 : IsFiniteSet(UpTo(k)) /\ Cardinality(UpTo(k)) <= k /\ Cardinality(UpTo(k)) \in Nat
  <2> SUFFICES ASSUME NEW k \in 0..15
               PROVE  IsFiniteSet(UpTo(k)) /\ Cardinality(UpTo(k)) <= k /\ Cardinality(UpTo(k)) \in Nat
    OBVIOUS
  <2>1. UpTo(k) \in SUBSET (1..k) /\ IsFiniteSet(1..k) /\ Cardinality(1..k) = k
    BY <1>1, <1>2
  <2>2. IsFiniteSet(UpTo(k)) /\ Cardinality(UpTo(k)) <= Cardinality(1..k)
    BY <2>1, FS_Subset, Zenon
  <2> QED
    BY <2>1, <2>2, FS_CardinalityType
<1>4. UpTo(15) = Driven
  BY DEF UpTo, Driven, Drives
<1>5. UpTo(n) \subseteq Driven
  BY DEF UpTo, Driven, Drives
<1>6. Cardinality(UpTo(n)) <= Cardinality(Driven)
  <2>1. IsFiniteSet(Driven)
    BY <1>3, <1>4
  <2> QED
    BY <1>5, <2>1, FS_Subset
<1>7. ASSUME n < 15 PROVE IF dev.drivers[n + 1] = Free THEN UpTo(n + 1) = UpTo(n)
                          ELSE Cardinality(UpTo(n + 1)) = Cardinality(UpTo(n)) + 1
  <2>1. CASE dev.drivers[n + 1] = Free
    BY <1>7, <2>1 DEF UpTo
  <2>2. CASE dev.drivers[n + 1] # Free
    <3>1. UpTo(n + 1) = UpTo(n) \cup {n + 1} /\ n + 1 \notin UpTo(n)
      BY <1>7, <2>2 DEF UpTo
    <3> QED
      BY <1>3, <2>2, <3>1, FS_AddElement
  <2> QED
    BY <2>1, <2>2
<1>8. Cardinality(UpTo(0)) = 0
  <2>1. UpTo(0) = {}
    BY DEF UpTo
  <2> QED
    BY <2>1, FS_EmptySet
<1> QED
  BY <1>3, <1>4, <1>6, <1>7, <1>8

LEMMA NothingAsked ==
  ASSUME NEW c, IsControl(c), Marked(c.ring), Left(c.ring) = 0, c.setups = NoEntries(16),
         c.waiters = NoEntries(4)
  PROVE  Asked0(c, 0)
<1>1. Circle \in Nat
  BY Size DEF Circle
<1>2. c.setups \in [1..16 -> Entries] /\ \A i \in 1..16 : c.setups[i] = Free
  BY DEF NoEntries, Entries
<1>3. c.waiters \in [1..4 -> Waiting]
  BY DEF NoEntries, Waiting
<1>4. 2 * 0 = 0 /\ 0 + 1 = 1 /\ 1..0 = {} /\ 2 * 0 <= Circle
  BY <1>1
<1> QED
  BY <1>2, <1>3, <1>4 DEF Asked0

LEMMA AskedAll ==
  ASSUME Asked0(control, 0), dev \in Devices, 2 * Cardinality(Driven) < RingSize
  PROVE  Cardinality(Driven) \in 0..15 /\ Asked0(Asked[15], Cardinality(Driven))
<1> DEFINE m(n) == Cardinality(UpTo(n))
           S    == {n \in Nat : n <= 15 => Asked0(Asked[n], m(n))}
<1>0. Circle \in Nat /\ RingSize = Circle + 1 /\ Cardinality(Driven) \in Nat
  <2>1. Cardinality(UpTo(15)) \in 0..15 /\ UpTo(15) = Driven
    BY UpToFacts
  <2> QED
    BY <2>1, Size DEF Circle
<1>1. /\ Asked[0] = control
      /\ \A n \in 1..15 : Asked[n] = Ask(Asked[n - 1], n)
  BY AskedDefined DEF AsksUpTo
<1>2. 0 \in S
  BY <1>1, UpToFacts
<1>3. ASSUME NEW n \in Nat, n \in S PROVE n + 1 \in S
  <2> SUFFICES ASSUME n + 1 <= 15 PROVE Asked0(Asked[n + 1], m(n + 1))
    OBVIOUS
  <2>1. /\ n \in 0..15 /\ n < 15 /\ n + 1 \in 1..15 /\ (n + 1) - 1 = n
        /\ n + 1 \in 0..15
    OBVIOUS
  <2>2. Asked0(Asked[n], m(n)) /\ Asked[n + 1] = Ask(Asked[n], n + 1)
    BY <1>1, <1>3, <2>1
  <2> HIDE DEF S
  <2>3. dev.drivers[n + 1] \in {Free, "keyboard", "mouse"}
    BY <2>1 DEF Devices
  <2>4. CASE dev.drivers[n + 1] = Free
    <3>1. Asked[n + 1] = Asked[n] /\ UpTo(n + 1) = UpTo(n)
      BY <2>1, <2>2, <2>4, UpToFacts DEF Ask
    <3> QED
      BY <2>2, <3>1
  <2>5. CASE dev.drivers[n + 1] # Free
    <3> DEFINE kind == dev.drivers[n + 1]
    <3>1. kind \in {"keyboard", "mouse"} /\ kind # Free
      BY <2>3, <2>5
    <3>2. Asked[n + 1] = Set(Asked[n], Boot, kind)
      BY <2>2, <2>5, Zenon DEF Ask, Set, Boot
    <3>3. /\ m(n + 1) = m(n) + 1 /\ m(n) \in 0..14 /\ m(n + 1) <= Cardinality(Driven)
      BY <2>1, <2>5, UpToFacts
    <3>4. 2 * (m(n) + 1) <= Circle
      <4> HIDE DEF m
      <4> QED
        BY <1>0, <3>3
    <3> HIDE DEF m, kind
    <3>5. Asked0(Asked[n + 1], m(n) + 1)
      BY <2>2, <3>1, <3>2, <3>3, <3>4, AskOne
    <3> QED
      BY <3>3, <3>5
  <2> QED
    BY <2>4, <2>5
<1>4. 15 \in S
  <2> HIDE DEF S
  <2> QED
    BY <1>2, <1>3, Induction
<1>5. m(15) \in 0..15 /\ m(15) = Cardinality(Driven)
  BY UpToFacts
<1> QED
  BY <1>4, <1>5

-----------------------------------------------------------------------------
(* An interface has at most as many drivers as it says it has endpoints.   *)

LEMMA HighestMember ==
  ASSUME NEW S \in SUBSET Nat, S # {}, NEW n \in Nat, \A s \in S : s <= n
  PROVE  \E x \in S : \A y \in S : y <= x
<1> DEFINE B == {k \in Nat : \A s \in S : s <= k}
<1>1. B \in SUBSET Nat /\ B # {}
  OBVIOUS
<1>2. PICK x \in B : \A y \in B : x <= y
  BY <1>1, LowestMember
<1>3. x \in S
  <2> SUFFICES ASSUME x \notin S PROVE FALSE
    OBVIOUS
  <2>1. \A s \in S : s <= x - 1
    BY <1>2
  <2>2. PICK s \in S : TRUE
    OBVIOUS
  <2>3. x - 1 \in B
    BY <1>2, <2>1, <2>2
  <2> QED
    BY <1>2, <2>3
<1> QED
  BY <1>2, <1>3

LEMMA EndpointsCounted ==
  ASSUME descriptors \in Configurations, Supported # {}, descriptors[Interface].endpoints \in Nat
  PROVE  IsFiniteSet(Endpoints) /\ Cardinality(Endpoints) <= descriptors[Interface].endpoints
<1> DEFINE E    == EndpointsAfter(Interface)
           n    == descriptors[Interface].endpoints
           C(j) == {k \in E : k <= j}
<1>1. Len(descriptors) \in Nat /\ E \subseteq 2..Len(descriptors)
  BY ConfigurationsAssumption DEF EndpointsAfter, Seen
<1>2. IsFiniteSet(2..Len(descriptors))
  <2>1. 2 \in Int /\ Len(descriptors) \in Int
    BY <1>1
  <2> QED
    BY <2>1, FS_Interval, Zenon
<1> HIDE DEF n
<1>3. Endpoints \subseteq E /\ \A j \in Endpoints : Cardinality(C(j)) <= n
  <2>1. Endpoints = {j \in E : Cardinality(C(j)) <= n}
    BY DEF Endpoints, n
  <2> HIDE DEF C, E
  <2> QED
    BY <2>1
<1> HIDE DEF E
<1>4. IsFiniteSet(E)
  BY <1>1, <1>2, FS_Subset
<1>5. IsFiniteSet(Endpoints)
  BY <1>3, <1>4, FS_Subset
<1>6. CASE Endpoints = {}
  <2>1. Cardinality(Endpoints) = 0
    BY <1>6, FS_EmptySet
  <2> QED
    BY <1>5, <2>1
<1>7. CASE Endpoints # {}
  <2>1. /\ Endpoints \in SUBSET Nat /\ Len(descriptors) \in Nat
        /\ \A j \in Endpoints : j <= Len(descriptors)
    <3>1. Endpoints \subseteq 2..Len(descriptors)
      BY <1>1, <1>3
    <3> QED
      BY <1>1, <3>1
  <2>2. PICK j \in Endpoints : \A k \in Endpoints : k <= j
    BY <1>7, <2>1, HighestMember
  <2>3. Endpoints \subseteq C(j) /\ Cardinality(C(j)) <= n /\ C(j) \subseteq E
    BY <1>3, <2>2
  <2>4. IsFiniteSet(C(j))
    BY <1>4, <2>3, FS_Subset
  <2> HIDE DEF C
  <2>5. Cardinality(Endpoints) <= Cardinality(C(j))
    BY <2>3, <2>4, FS_Subset
  <2>6. Cardinality(Endpoints) \in Nat /\ Cardinality(C(j)) \in Nat
    BY <1>5, <2>4, FS_CardinalityType
  <2> QED
    BY <1>5, <2>3, <2>5, <2>6 DEF n
<1> QED
  BY <1>5, <1>6, <1>7

LEMMA DrivesFew ==
  ASSUME NEW drivers, \A n \in Drives(drivers) : \E j \in Endpoints : descriptors[j].number = n,
         descriptors \in Configurations, Supported # {}, ~GoesWrong
  PROVE  2 * Cardinality(Drives(drivers)) < RingSize
<1> DEFINE D == Drives(drivers)
           E == Endpoints
<1>1. D \subseteq 1..15 /\ IsFiniteSet(D) /\ Cardinality(D) \in 0..15
  <2>1. D \subseteq 1..15 /\ 1 \in Int /\ 15 \in Int
    BY DEF Drives
  <2> HIDE DEF D
  <2>2. IsFiniteSet(1..15) /\ Cardinality(1..15) = 15
    <3>1. PICK k \in Int : k = 15
      OBVIOUS
    <3>2. IsFiniteSet(1..k) /\ Cardinality(1..k) = IF 1 > k THEN 0 ELSE k - 1 + 1
      BY <2>1, FS_Interval
    <3> QED
      BY <3>1, <3>2
  <2>3. IsFiniteSet(D) /\ Cardinality(D) <= Cardinality(1..15)
    BY <2>1, <2>2, FS_Subset
  <2> QED
    BY <2>1, <2>2, <2>3, FS_CardinalityType
<1>2. CASE RingSize > 30
  <2> HIDE DEF D
  <2>1. 2 * Cardinality(D) < RingSize
    BY <1>1, <1>2, Size
  <2> QED
    BY <2>1 DEF D
<1>3. CASE ~(RingSize > 30)
  <2>1. Interface \in 2..Len(descriptors) /\ descriptors[Interface].type = "Interface"
    <3>1. Interface \in Supported
      <4>1. Supported \in SUBSET Nat
        BY DEF Supported, Seen
      <4> QED
        BY <4>1, FirstFacts DEF Interface
    <3> HIDE DEF Interface
    <3>2. Interface \in 2..Len(descriptors) /\ DriverFor(descriptors[Interface]) # Free
      BY <3>1 DEF Supported, Seen
    <3> QED
      BY <3>2 DEF DriverFor
  <2>2. descriptors[Interface].endpoints \in Nat /\ 2 * descriptors[Interface].endpoints < RingSize
    BY <1>3, <2>1, RoomAssumption, ConfigurationsAssumption DEF GoesWrong, WritesBeyond, MaxEndpoints
  <2>3. IsFiniteSet(E) /\ Cardinality(E) <= descriptors[Interface].endpoints
    BY <2>2, EndpointsCounted
  <2> DEFINE f == [n \in D |-> CHOOSE j \in E : descriptors[j].number = n]
  <2>4. \A n \in D : f[n] \in E /\ descriptors[f[n]].number = n
    <3> HIDE DEF Drives
    <3> QED
      BY Zenon
  <2>5. f \in [D -> E]
    BY <2>4
  <2> HIDE DEF f, D, E
  <2>6. f \in Injection(D, E)
    BY <2>4, <2>5 DEF Injection, IsInjective
  <2>7. Cardinality(D) <= Cardinality(E)
    BY <2>3, <2>6, FS_Injection
  <2>8. Cardinality(E) \in Nat
    BY <2>3, FS_CardinalityType
  <2>9. 2 * Cardinality(D) < RingSize
    BY <1>1, <2>2, <2>3, <2>7, <2>8, Size
  <2> QED
    BY <2>9 DEF D
<1> QED
  BY <1>2, <1>3

-----------------------------------------------------------------------------
(* What is answered is what was asked.                                     *)

LEMMA PipeFacts ==
  ASSUME IInv, PipeInv
  PROVE  /\ IsControl(control) /\ control.ring \in Rings /\ events \in Seq(Events) /\ dev \in Devices
         /\ Left(control.ring) \in 0..Circle /\ Marked(control.ring) /\ dev.phase \in {0, 1, 2, 3, 4}
         /\ dev.phase # 4 => ~Configured
<1>1. dev \in Devices /\ IsControl(control) /\ events \in Seq(Events)
  BY DEF IInv, Shapes
<1>2. dev.phase \in {0, 1, 2, 3, 4}
  BY <1>1 DEF Devices
<1>3. dev.phase # 4 => ~Configured
  BY <1>2 DEF IInv, Phases, Configured
<1> QED
  BY <1>1, <1>2, <1>3, Zenon DEF IsControl, PipeInv

(* The device is waiting for the answer, and for which it is says where    *)
(* the setup stage was.                                                    *)
LEMMA AnswerSays ==
  ASSUME IInv, PipeInv, NEW i \in DOMAIN events, IsAnswer(events[i])
  PROVE  SetupOf(events[i]) = events[i].of /\ Expected(events[i].of)
<1>1. /\ control.ring \in Rings /\ dev.phase \in {0, 1, 2, 3, 4}
      /\ Left(control.ring) \in 0..Circle /\ (dev.phase # 4 => ~Configured)
      /\ dev.initialized <=> dev.phase = 4
  BY PipeFacts, Zenon DEF PipeInv
<1>2. ~NoAnswer(events)
  BY DEF NoAnswer
<1>3. ASSUME NEW place, NEW setup, Get(control.setups, events[i].at) = place, place # Free,
             control.ring.trbs[place].setup = setup, events[i].of = setup
      PROVE  SetupOf(events[i]) = events[i].of
  BY <1>3 DEF SetupOf
<1>4. ASSUME NEW setup, Reading(control, events, setup, dev.buf)
      PROVE  SetupOf(events[i]) = events[i].of /\ events[i].of = setup /\ dev.buf = setup.value
  <2>1. /\ Get(control.setups, events[i].at) = At(control.ring, 3) /\ At(control.ring, 3) # Free
        /\ control.ring.trbs[At(control.ring, 3)].setup = setup /\ events[i].of = setup
        /\ dev.buf = setup.value
    BY <1>1, <1>4, ReadingSays
  <2> QED
    BY <1>3, <2>1
<1>5. CASE dev.phase = 0
  BY <1>2, <1>5, Zenon DEF PipeInv, Idle
<1>6. CASE dev.phase = 1
  <2>1. Reading(control, events, Setup("GetDescriptor", "Device"), dev.buf)
    BY <1>6 DEF PipeInv
  <2> QED
    BY <1>1, <1>4, <1>6, <2>1 DEF Expected, Setup
<1>7. CASE dev.phase = 2
  <2>1. Reading(control, events, Setup("GetDescriptor", "Configuration"), dev.buf)
    BY <1>2, <1>7, Zenon DEF PipeInv, Idle
  <2> QED
    BY <1>1, <1>4, <1>7, <2>1 DEF Expected, Setup
<1>8. CASE dev.phase = 3
  <2> DEFINE setup == Setup("SetConfiguration", "TheValue")
  <2>1. Setting(control, events, setup)
    BY <1>8 DEF PipeInv
  <2>2. /\ Get(control.setups, events[i].at) = At(control.ring, 2) /\ At(control.ring, 2) # Free
        /\ control.ring.trbs[At(control.ring, 2)].setup = setup /\ events[i].of = setup
    BY <1>1, <2>1, SettingSays
  <2> QED
    BY <1>1, <1>3, <1>8, <2>2 DEF Expected, Setup
<1>9. CASE dev.phase = 4
  <2>1. Configured
    BY <1>2, <1>9, Zenon DEF PipeInv, Idle
  <2>2. PICK n \in 0..15 : Asking(control, events, n)
    BY <2>1 DEF PipeInv
  <2>3. PICK k \in 1..n :
           /\ Get(control.setups, events[i].at) = At(control.ring, 2 * k) /\ At(control.ring, 2 * k) # Free
           /\ control.ring.trbs[At(control.ring, 2 * k)].setup = Boot /\ events[i].of = Boot
           /\ Get(control.waiters, Boot) # Free
    BY <1>1, <2>2, AskingSays
  <2> QED
    BY <1>1, <1>3, <1>9, <2>3 DEF Expected
<1> QED
  BY <1>1, <1>5, <1>6, <1>7, <1>8, <1>9

LEMMA AnswersFollow ==
  ASSUME IInv, PipeInv
  PROVE  AnswersItsRequest
  BY AnswerSays, Zenon DEF AnswersItsRequest, IsAnswer

-----------------------------------------------------------------------------
(* Steps that leave the control pipe as it is                              *)

LEMMA QuietPipe ==
  ASSUME PipeInv, UNCHANGED <<port, dev>>, SamePipe(control', control), Marked(control'.ring),
         dev.phase = 0 => control'.ring = control.ring, KeepsAnswers(events', events)
  PROVE  PipeInv'
<1>1. Left(control'.ring) = Left(control.ring) /\ control'.waiters = control.waiters
  BY Zenon DEF SamePipe
<1>2. ASSUME NEW setup, NEW buf, Reading(control, events, setup, buf) PROVE Reading(control', events', setup, buf)
  BY <1>2, SameReading, Zenon
<1>3. ASSUME NEW setup, Setting(control, events, setup) PROVE Setting(control', events', setup)
  BY <1>3, SameSetting, Zenon
<1>4. Idle(control, events) => Idle(control', events')
  BY SameIdle, Zenon
<1>5. ASSUME NEW n, Asking(control, events, n) PROVE Asking(control', events', n)
  BY <1>5, SameAsking, Zenon
<1>6. Driven' = Driven /\ Circle' = Circle
  BY DEF Driven, Drives, Circle
<1>7. /\ dev.phase = 0 => control'.ring = NewRing /\ Idle(control', events')
      /\ dev.phase = 1 => Reading(control', events', Setup("GetDescriptor", "Device"), dev.buf)
      /\ dev.phase = 2 => \/ Reading(control', events', Setup("GetDescriptor", "Configuration"), dev.buf)
                          \/ Idle(control', events')
      /\ dev.phase = 3 => Setting(control', events', Setup("SetConfiguration", "TheValue"))
      /\ dev.phase = 4 /\ ~Configured => Left(control'.ring) = 0 /\ Idle(control', events')
      /\ Configured => \E n \in 0..15 : Asking(control', events', n)
      /\ ~Configured => control'.waiters = NoEntries(4)
  BY <1>1, <1>2, <1>3, <1>4, <1>5, Zenon DEF PipeInv
<1> QED
  BY <1>1, <1>6, <1>7, Zenon DEF PipeInv, Configured

LEMMA SelfPipe ==
  ASSUME UNCHANGED control, PipeInv
  PROVE  SamePipe(control', control) /\ Marked(control'.ring)
  BY Zenon DEF SamePipe, SameStages, PipeInv

LEMMA StutterPipe ==
  ASSUME PipeInv, UNCHANGED vars
  PROVE  PipeInv'
<1>1. UNCHANGED <<port, dev, control, events>>
  BY DEF vars
<1> QED
  BY <1>1, SelfPipe, SameKeepsAnswers, QuietPipe

(* What answers a request is not told of a report.                         *)
LEMMA HeadAnswers ==
  ASSUME IInv, events # <<>>, Event.code # "Error", IssuerTrb.type # "Normal"
  PROVE  IsAnswer(Head(events)) /\ Head(events) = events[1] /\ 1 \in DOMAIN events
<1>1. events \in Seq(Events)
  BY DEF IInv, Shapes
<1>2. Event.dci = 1
  BY HeadReport DEF IsReport
<1> QED
  BY <1>1, <1>2 DEF IsAnswer, Event

LEMMA PassOverPipe ==
  ASSUME IInv, PipeInv, PassOver
  PROVE  PipeInv'
<1>1. events # <<>> /\ events' = Tail(events) /\ UNCHANGED <<port, dev>> /\ events \in Seq(Events)
  BY DEF PassOver, PopEvent, IInv, Shapes
<1>2. Event.code = "Error"
  <2> SUFFICES ASSUME Event.code # "Error" PROVE FALSE
    OBVIOUS
  <2>1. IssuerTrb.type # "Normal" /\ ~Expected(SetupOf(Event))
    BY DEF PassOver
  <2>2. IsAnswer(events[1]) /\ 1 \in DOMAIN events /\ Event = events[1]
    BY <1>1, <2>1, HeadAnswers DEF Event
  <2>3. Expected(SetupOf(events[1]))
    BY <2>2, AnswerSays
  <2> QED
    BY <2>1, <2>2, <2>3
<1>3. ~IsAnswer(Head(events)) /\ UNCHANGED control
  BY <1>2 DEF IsAnswer, Event, PassOver
<1>4. KeepsAnswers(events', events)
  BY <1>1, <1>3, PopKeepsAnswers
<1> QED
  BY <1>1, <1>3, <1>4, SelfPipe, QuietPipe

(* What is told to the class driver is a report.                           *)
LEMMA TakesReport ==
  ASSUME IInv, OnInterruptCompleted
  PROVE  IsReport(Event)
<1>1. events # <<>> /\ Event.code # "Error" /\ events \in Seq(Events) /\ IssuerTrb.type = "Normal"
  BY DEF OnInterruptCompleted, Completed, IInv, Shapes
<1>2. Event.dci # 1
  <2> SUFFICES ASSUME Event.dci = 1 PROVE FALSE
    OBVIOUS
  <2>1. Event \in Events
    BY <1>1, PopFacts DEF Event
  <2>2. control.ring.trbs[Event.at].type = "Normal" /\ Event.at \in 1..RingSize
    BY <1>1, <2>1, Size DEF IssuerTrb, Events, Places
  <2> QED
    BY <2>2 DEF IInv, Shapes, IsControl, NoNormal
<1> QED
  BY <1>1, <1>2 DEF IsReport

LEMMA OnInterruptCompletedPipe ==
  ASSUME IInv, PipeInv, OnInterruptCompleted
  PROVE  PipeInv'
<1>1. /\ events # <<>> /\ events' = Tail(events) /\ UNCHANGED <<port, dev, control>>
      /\ events \in Seq(Events)
  BY DEF OnInterruptCompleted, Completed, PopEvent, IInv, Shapes
<1>3. ~IsAnswer(Head(events))
  BY TakesReport DEF IsReport, IsAnswer, Event
<1>4. KeepsAnswers(events', events)
  BY <1>1, <1>3, PopKeepsAnswers
<1> QED
  BY <1>1, <1>4, SelfPipe, QuietPipe

(* A report, and a failure, is not an answer.                              *)
LEMMA PostedKeepsAnswers ==
  ASSUME IInv, NEW dci \in Nat, NEW at \in Places, NEW code \in {"Success", "Error"},
         Post(dci, at, code), dci # 1 \/ code = "Error"
  PROVE  KeepsAnswers(events', events)
<1> DEFINE e == [dci |-> dci, at |-> at, code |-> code, of |-> control.serving]
<1>1. events \in Seq(Events) /\ control.serving \in Setups
  BY DEF IInv, Shapes, IsControl
<1>2. e \in Events /\ ~IsAnswer(e)
  BY <1>1 DEF Events, IsAnswer
<1>3. events' = Append(events, e)
  BY DEF Post
<1> HIDE DEF e
<1> QED
  BY <1>1, <1>2, <1>3, PostKeepsAnswers

LEMMA SendReportPipe ==
  ASSUME IInv, PipeInv, SendReport
  PROVE  PipeInv'
<1>1. PICK d \in DOMAIN rings : /\ Ready(rings[d]) /\ Post(d, rings[d].deq, "Success")
                                /\ UNCHANGED <<port, dev, control>>
  BY DEF SendReport
<1>2. d \in 2..31 /\ rings[d] \in Rings
  BY <1>1, ReadyRing
<1>3. d \in Nat /\ d # 1 /\ rings[d].deq \in Places
  <2>1. d \in Nat /\ d # 1
    BY <1>2
  <2>2. rings[d].deq \in Places
    BY <1>2 DEF Rings
  <2> QED
    BY <2>1, <2>2
<1>4. KeepsAnswers(events', events)
  BY <1>1, <1>3, PostedKeepsAnswers
<1> QED
  BY <1>1, <1>4, SelfPipe, QuietPipe

LEMMA FailReportPipe ==
  ASSUME IInv, PipeInv, FailReport
  PROVE  PipeInv'
<1>1. PICK d \in DOMAIN rings : /\ Ready(rings[d]) /\ Post(d, rings[d].deq, "Error")
                                /\ UNCHANGED <<port, dev, control>>
  BY DEF FailReport
<1>2. d \in 2..31 /\ rings[d] \in Rings
  BY <1>1, ReadyRing
<1>3. d \in Nat /\ d # 1 /\ rings[d].deq \in Places
  <2>1. d \in Nat /\ d # 1
    BY <1>2
  <2>2. rings[d].deq \in Places
    BY <1>2 DEF Rings
  <2> QED
    BY <2>1, <2>2
<1>4. KeepsAnswers(events', events)
  BY <1>1, <1>3, PostedKeepsAnswers
<1> QED
  BY <1>1, <1>4, SelfPipe, QuietPipe

LEMMA FailStagePipe ==
  ASSUME IInv, PipeInv, FailStage
  PROVE  PipeInv'
<1> DEFINE ring == [control.ring EXCEPT !.halted = TRUE]
<1>1. IsControl(control) /\ control.ring \in Rings /\ control.ring.deq \in Places /\ Marked(control.ring)
  BY DEF IInv, Shapes, IsControl, Rings, PipeInv
<1>2. /\ control' = [control EXCEPT !.ring = ring] /\ Post(1, control.ring.deq, "Error")
      /\ UNCHANGED <<port, dev>> /\ Ready(control.ring)
  BY <1>1 DEF FailStage, IsControl
<1>3. /\ ring.trbs = control.ring.trbs /\ ring.write = control.ring.write /\ ring.cycle = control.ring.cycle
      /\ ring.deq = control.ring.deq /\ ring.ccs = control.ring.ccs
  BY <1>1 DEF Rings
<1> HIDE DEF ring
<1>4. Left(ring) = Left(control.ring) /\ Marked(ring) /\ SameStages(ring, control.ring)
  BY <1>1, <1>3, SameStagesFacts DEF Left, Marked
<1>5. /\ control'.ring = ring /\ control'.setups = control.setups /\ control'.waiters = control.waiters
      /\ control'.serving = control.serving
  BY <1>1, <1>2 DEF IsControl
<1>6. SamePipe(control', control) /\ Marked(control'.ring)
  BY <1>4, <1>5, Zenon DEF SamePipe
<1>7. dev.phase # 0
  BY <1>2, NewRingShape DEF Ready, PipeInv
<1>8. KeepsAnswers(events', events)
  BY <1>1, <1>2, PostedKeepsAnswers
<1> QED
  BY <1>2, <1>6, <1>7, <1>8, QuietPipe

-----------------------------------------------------------------------------
(* Steps of a request                                                      *)

LEMMA CarryOutStagePipe ==
  ASSUME IInv, PipeInv, CarryOutStage
  PROVE  PipeInv'
<1> DEFINE trb     == NextTrb(control.ring)
           ring    == Advance(control.ring)
           serving == IF trb.type = "SetupStage" THEN trb.setup ELSE control.serving
           buf     == IF trb.type = "DataStage" THEN control.serving.value ELSE dev.buf
           left    == Left(control.ring)
<1>1. /\ IsControl(control) /\ control.ring \in Rings /\ events \in Seq(Events) /\ dev \in Devices
      /\ Left(control.ring) \in 0..Circle /\ Marked(control.ring) /\ dev.phase \in {0, 1, 2, 3, 4}
      /\ dev.phase # 4 => ~Configured
  BY PipeFacts
<1>2. /\ control' = [control EXCEPT !.ring = ring, !.serving = serving]
      /\ dev' = [dev EXCEPT !.buf = buf]
      /\ IF trb.ioc THEN Post(1, control.ring.deq, "Success") ELSE UNCHANGED events
      /\ UNCHANGED port /\ Ready(control.ring)
  BY <1>1 DEF CarryOutStage, IsControl, Devices
<1>3. left \in 1..Circle /\ control.ring.deq = At(control.ring, left) /\ trb = Stage(control.ring, left)
  BY <1>1, <1>2, ReadyLeft DEF NextTrb, Stage
<1>4. ring \in Rings /\ Marked(ring) /\ Left(ring) = left - 1 /\ SameStages(ring, control.ring)
  BY <1>1, <1>3, AdvanceAt
<1> HIDE DEF ring
<1>5. /\ control'.ring = ring /\ control'.serving = serving
      /\ control'.setups = control.setups /\ control'.waiters = control.waiters
  <2> HIDE DEF serving
  <2> QED
    BY <1>1, <1>2 DEF IsControl
<1>6. /\ dev'.phase = dev.phase /\ dev'.buf = buf /\ dev'.drivers = dev.drivers
      /\ dev'.initialized = dev.initialized
  <2> HIDE DEF buf
  <2> QED
    BY <1>1, <1>2 DEF Devices
<1>7. Carries(control', control, events', events)
  <2>1. events' = IF trb.ioc THEN Append(events, [dci |-> 1, at |-> At(control.ring, left),
                                                  code |-> "Success", of |-> control.serving])
                  ELSE events
    BY <1>2, <1>3, Zenon DEF Post
  <2> HIDE DEF left
  <2>2. trb = Stage(control.ring, left)
    BY <1>3
  <2> HIDE DEF trb
  <2> QED
    BY <1>4, <1>5, <2>1, <2>2, Zenon DEF Carries, serving, left
<1>8. control.serving \in Setups
  BY <1>1 DEF IsControl
<1>9. ASSUME NEW setup, Reading(control, events, setup, dev.buf)
      PROVE  Reading(control', events', setup, dev'.buf)
  <2>1. dev'.buf = IF Stage(control.ring, Left(control.ring)).type = "DataStage"
                   THEN control.serving.value ELSE dev.buf
    BY <1>3, <1>6
  <2> QED
    BY <1>1, <1>3, <1>7, <1>8, <1>9, <2>1, CarryReading
<1>10. ASSUME NEW setup, Setting(control, events, setup) PROVE Setting(control', events', setup)
  BY <1>1, <1>3, <1>7, <1>8, <1>10, CarrySetting
<1>11. ASSUME Idle(control, events) PROVE Idle(control', events') /\ Left(control'.ring) = 0
  BY <1>1, <1>3, <1>7, <1>8, <1>11, CarryIdle
<1>12. ASSUME NEW n \in 0..15, Asking(control, events, n) PROVE Asking(control', events', n)
  <2>1. n \in Nat
    OBVIOUS
  <2> QED
    BY <1>1, <1>3, <1>7, <1>8, <1>12, <2>1, CarryAsking
<1>13. dev.phase # 0
  BY <1>2, NewRingShape DEF Ready, PipeInv
<1>14. Marked(control'.ring) /\ Left(control'.ring) \in 0..Circle
  <2>1. Circle \in Nat
    BY Size DEF Circle
  <2> QED
    BY <1>3, <1>4, <1>5, <2>1
<1>15. Driven' = Driven /\ Circle' = Circle
  BY <1>6 DEF Driven, Drives, Circle
<1> HIDE DEF trb, buf, serving, left
<1>16. /\ dev.phase = 1 => Reading(control', events', Setup("GetDescriptor", "Device"), dev'.buf)
       /\ dev.phase = 2 => \/ Reading(control', events', Setup("GetDescriptor", "Configuration"), dev'.buf)
                           \/ Idle(control', events')
       /\ dev.phase = 3 => Setting(control', events', Setup("SetConfiguration", "TheValue"))
       /\ dev.phase = 4 /\ ~Configured => Left(control'.ring) = 0 /\ Idle(control', events')
       /\ Configured => \E n \in 0..15 : Asking(control', events', n)
       /\ ~Configured => control'.waiters = NoEntries(4)
  BY <1>5, <1>9, <1>10, <1>11, <1>12, Zenon DEF PipeInv
<1> QED
  BY <1>2, <1>6, <1>13, <1>14, <1>15, <1>16, Zenon DEF PipeInv, Configured

LEMMA RequestSetups ==
  /\ Setup("GetDescriptor", "Device") \in Setups
  /\ Setup("GetDescriptor", "Configuration") \in Setups
  /\ Setup("SetConfiguration", "TheValue") \in Setups
  BY DEF Setup, Setups

LEMMA InitializeDevicePipe ==
  ASSUME IInv, PipeInv, InitializeDevice
  PROVE  PipeInv'
<1> DEFINE setup == Setup("GetDescriptor", "Device")
<1>1. /\ IsControl(control) /\ dev \in Devices /\ dev.phase = 0 /\ port' = "InitializingDevice"
      /\ port = "AddressingDevice"
      /\ Left(control.ring) \in 0..Circle /\ Marked(control.ring) /\ Idle(control, events)
      /\ control.waiters = NoEntries(4) /\ UNCHANGED events
  <2>1. port = "AddressingDevice" /\ dev.phase = 0 /\ port' = "InitializingDevice" /\ UNCHANGED events
    BY DEF InitializeDevice, IInv, Phases, Configured
  <2>2. ~Configured
    BY <2>1 DEF Configured
  <2> QED
    BY <2>1, <2>2, PipeFacts, Zenon DEF PipeInv
<1>2. control' = Read(control, setup)
  BY Zenon DEF InitializeDevice, GetDescriptor, Read
<1>3. dev'.phase = 1 /\ ~dev'.initialized /\ dev'.drivers = dev.drivers
  BY <1>1 DEF InitializeDevice, Devices
<1>4. /\ Marked(control'.ring) /\ Left(control'.ring) \in 0..Circle
      /\ Reading(control', events', setup, dev'.buf) /\ control'.waiters = control.waiters
  BY <1>1, <1>2, RequestSetups, StartsReading
<1>5. Driven' = Driven /\ Circle' = Circle
  BY <1>3 DEF Driven, Drives, Circle
<1>6. /\ dev'.phase # 0 /\ dev'.phase # 2 /\ dev'.phase # 3 /\ dev'.phase # 4 /\ ~Configured'
      /\ dev.phase <= 2
  BY <1>1, <1>3 DEF Configured
<1> QED
  BY <1>1, <1>3, <1>4, <1>5, <1>6, Zenon DEF PipeInv

(* The answer is forgotten.                                                *)
LEMMA AnsweredFacts ==
  ASSUME IInv, PipeInv, NEW p, Answer(p)
  PROVE  /\ events # <<>> /\ IsAnswer(Head(events)) /\ events' = Tail(events) /\ dev.phase = p
         /\ Forgets(Answered, control, Head(events).at)
         /\ IsControl(Answered) /\ Marked(Answered.ring) /\ Left(Answered.ring) \in 0..Circle
         /\ Answered.waiters = control.waiters /\ Answered.ring = control.ring
         /\ ~NoAnswer(events)
<1>1. /\ events # <<>> /\ Event.code # "Error" /\ IssuerTrb.type # "Normal" /\ events' = Tail(events)
      /\ dev.phase = p
  BY DEF Answer, Completed, PopEvent
<1>2. IsAnswer(Head(events)) /\ Head(events) = events[1] /\ 1 \in DOMAIN events
  BY <1>1, HeadAnswers
<1>3. Forgets(Answered, control, Head(events).at)
  BY DEF Answered, Forgets, Event, IInv, Shapes, IsControl
<1>4. IsControl(Answered) /\ Marked(control.ring) /\ Left(control.ring) \in 0..Circle
  BY AnsweredShape, PipeFacts
<1>5. Answered.ring = control.ring /\ Answered.waiters = control.waiters
  BY <1>3 DEF Forgets
<1>6. ~NoAnswer(events)
  BY <1>2 DEF NoAnswer
<1> QED
  BY <1>1, <1>2, <1>3, <1>4, <1>5, <1>6

(* Once the descriptor has been read the pipe is idle.                     *)
LEMMA ReadAnswered ==
  ASSUME IInv, PipeInv, NEW p \in {1, 2}, Answer(p)
  PROVE  Idle(Answered, events')
<1>1. /\ events # <<>> /\ IsAnswer(Head(events)) /\ events' = Tail(events) /\ dev.phase = p
      /\ Forgets(Answered, control, Head(events).at) /\ ~NoAnswer(events)
  BY AnsweredFacts, Zenon
<1>2. control.ring \in Rings /\ events \in Seq(Events) /\ Left(control.ring) \in 0..Circle
  BY PipeFacts
<1>3. PICK setup : Reading(control, events, setup, dev.buf)
  <2>1. CASE p = 1
    BY <1>1, <2>1, Zenon DEF PipeInv
  <2>2. CASE p = 2
    BY <1>1, <2>2, Zenon DEF PipeInv, Idle
  <2> QED
    BY <2>1, <2>2
<1> QED
  BY <1>1, <1>2, <1>3, ReadingAnswered

LEMMA InitializePhase1Pipe ==
  ASSUME IInv, PipeInv, InitializePhase1
  PROVE  PipeInv'
<1> DEFINE setup == Setup("GetDescriptor", "Configuration")
<1>1. /\ IsControl(Answered) /\ Marked(Answered.ring) /\ Left(Answered.ring) \in 0..Circle
      /\ Answered.waiters = control.waiters /\ Idle(Answered, events') /\ dev.phase = 1 /\ dev \in Devices
  <2>1. 1 \in {1, 2} /\ Answer(1)
    BY DEF InitializePhase1
  <2>2. dev \in Devices
    BY PipeFacts
  <2> QED
    BY <2>1, <2>2, AnsweredFacts, ReadAnswered
<1>2. control' = Read(Answered, setup) /\ UNCHANGED port
  BY Zenon DEF InitializePhase1, GetDescriptor, Read
<1>3. dev'.phase = 2 /\ dev'.initialized = dev.initialized /\ dev'.drivers = dev.drivers
  BY <1>1 DEF InitializePhase1, Devices
<1>4. /\ Marked(control'.ring) /\ Left(control'.ring) \in 0..Circle
      /\ Reading(control', events', setup, dev'.buf) /\ control'.waiters = control.waiters
  BY <1>1, <1>2, RequestSetups, StartsReading
<1>5. Driven' = Driven /\ Circle' = Circle
  BY <1>3 DEF Driven, Drives, Circle
<1>6. /\ dev'.phase # 0 /\ dev'.phase # 1 /\ dev'.phase # 3 /\ dev'.phase # 4 /\ ~Configured
      /\ dev.phase <= 2 /\ dev.phase # 4
  BY <1>1, <1>3, PipeFacts
<1> QED
  BY <1>2, <1>3, <1>4, <1>5, <1>6, Zenon DEF PipeInv, Configured

LEMMA InitializePhase2Pipe ==
  ASSUME IInv, PipeInv, InitializePhase2
  PROVE  PipeInv'
<1>1. /\ IsControl(Answered) /\ Marked(Answered.ring) /\ Left(Answered.ring) \in 0..Circle
      /\ Answered.waiters = control.waiters /\ Idle(Answered, events') /\ dev.phase = 2 /\ dev \in Devices
      /\ ~Configured /\ descriptors \in Configurations
  <2>1. 2 \in {1, 2} /\ Answer(2)
    BY DEF InitializePhase2
  <2>2. dev \in Devices /\ (dev.phase # 4 => ~Configured) /\ descriptors \in Configurations
    BY PipeFacts DEF IInv, Shapes
  <2> QED
    BY <2>1, <2>2, AnsweredFacts, ReadAnswered
<1>2. CASE control' = Answered /\ UNCHANGED dev /\ port' \in {port, "Undefined"}
  <2>1. dev'.phase # 0 /\ dev'.phase # 1 /\ dev'.phase # 3 /\ dev'.phase # 4 /\ ~Configured'
    BY <1>1, <1>2 DEF Configured
  <2>2. Driven' = Driven /\ Circle' = Circle
    BY <1>2 DEF Driven, Drives, Circle
  <2> QED
    BY <1>1, <1>2, <2>1, <2>2, Zenon DEF PipeInv
<1>3. CASE /\ Supported # {} /\ ~GoesWrong
           /\ control' = SetConfiguration(Answered, "TheValue") /\ port' = port
           /\ LET kind    == DriverFor(descriptors[Interface])
                  numbers == {descriptors[j].number : j \in Endpoints}
              IN  dev' = [dev EXCEPT
                            !.phase = 3, !.endpoints = Endpoints,
                            !.drivers = [n \in DOMAIN @ |-> IF n \in numbers THEN kind ELSE @[n]]]
  <2> DEFINE setup   == Setup("SetConfiguration", "TheValue")
             kind    == DriverFor(descriptors[Interface])
             numbers == {descriptors[j].number : j \in Endpoints}
             drivers == [n \in 1..15 |-> IF n \in numbers THEN kind ELSE dev.drivers[n]]
  <2>1. control' = Set(Answered, setup, Free)
    BY <1>3, Zenon DEF SetConfiguration, Set
  <2>2. /\ Marked(control'.ring) /\ Left(control'.ring) \in 0..Circle
        /\ Setting(control', events', setup) /\ control'.waiters = control.waiters
    BY <1>1, <2>1, RequestSetups, StartsSetting
  <2>3. dev'.phase = 3 /\ dev'.initialized = dev.initialized /\ dev'.drivers = drivers
    <3> HIDE DEF numbers, kind
    <3>1. DOMAIN dev.drivers = 1..15
      BY <1>1 DEF Devices
    <3>2. dev' = [dev EXCEPT !.phase = 3, !.endpoints = Endpoints, !.drivers = drivers]
      BY <1>1, <1>3, <3>1 DEF Devices, numbers, kind
    <3> HIDE DEF drivers
    <3> QED
      BY <1>1, <3>2 DEF Devices
  <2>4. \A n \in Drives(drivers) : \E j \in Endpoints : descriptors[j].number = n
    <3>1. \A n \in 1..15 : dev.drivers[n] = Free
      BY <1>1 DEF PipeInv, Driven, Drives
    <3> SUFFICES ASSUME NEW n \in Drives(drivers) PROVE n \in numbers
      OBVIOUS
    <3> HIDE DEF numbers, kind
    <3> QED
      BY <3>1 DEF Drives
  <2> HIDE DEF drivers
  <2>5. 2 * Cardinality(Drives(drivers)) < RingSize
    BY <1>1, <1>3, <2>4, DrivesFew, Zenon
  <2>6. Driven' = Drives(drivers) /\ Circle' = Circle
    BY <2>3 DEF Driven, Drives, Circle
  <2>7. /\ dev'.phase # 0 /\ dev'.phase # 1 /\ dev'.phase # 2 /\ dev'.phase # 4 /\ dev.phase # 4
        /\ ~(dev'.phase <= 2)
    BY <1>1, <2>3
  <2> QED
    BY <1>1, <1>3, <2>2, <2>3, <2>5, <2>6, <2>7, Zenon DEF PipeInv, Configured
<1> QED
  BY <1>2, <1>3, Zenon DEF InitializePhase2

LEMMA InitializePhase3Pipe ==
  ASSUME IInv, PipeInv, InitializePhase3, port # "Undefined"
  PROVE  PipeInv'
<1>1. /\ IsControl(Answered) /\ Marked(Answered.ring) /\ Left(Answered.ring) \in 0..Circle
      /\ Answered.waiters = control.waiters /\ dev.phase = 3 /\ dev \in Devices
      /\ events # <<>> /\ IsAnswer(Head(events)) /\ events' = Tail(events)
      /\ Forgets(Answered, control, Head(events).at) /\ ~Configured
      /\ control.ring \in Rings /\ events \in Seq(Events) /\ Left(control.ring) \in 0..Circle
  <2>1. Answer(3)
    BY DEF InitializePhase3
  <2>2. /\ dev \in Devices /\ (dev.phase # 4 => ~Configured)
        /\ control.ring \in Rings /\ events \in Seq(Events) /\ Left(control.ring) \in 0..Circle
    BY PipeFacts
  <2> QED
    BY <2>1, <2>2, AnsweredFacts
<1>2. Setting(control, events, Setup("SetConfiguration", "TheValue"))
  BY <1>1, Zenon DEF PipeInv
<1>3. Idle(Answered, events') /\ Left(Answered.ring) = 0
  BY <1>1, <1>2, SettingAnswered
<1>4. control' = Answered /\ ~Configured'
  <2>1. port = "InitializingDevice"
    BY <1>1 DEF IInv, Phases
  <2> QED
    BY <2>1 DEF InitializePhase3, Configured
<1>5. dev'.phase = 4 /\ dev'.initialized /\ dev'.drivers = dev.drivers
  <2>1. PICK yes \in BOOLEAN : yes = TRUE
    OBVIOUS
  <2>2. dev' = [dev EXCEPT !.phase = 4, !.initialized = yes]
    BY <2>1 DEF InitializePhase3
  <2>3. dev' = [ phase |-> 4, initialized |-> yes, buf |-> dev.buf,
                 endpoints |-> dev.endpoints, drivers |-> dev.drivers ]
    BY <1>1, <2>2 DEF Devices
  <2> QED
    BY <2>1, <2>3
<1>6. Driven' = Driven /\ Circle' = Circle
  BY <1>5 DEF Driven, Drives, Circle
<1>7. dev'.phase # 0 /\ dev'.phase # 1 /\ dev'.phase # 2 /\ dev'.phase # 3 /\ ~(dev'.phase <= 2)
  BY <1>5
<1> QED
  BY <1>1, <1>3, <1>4, <1>5, <1>6, <1>7, Zenon DEF PipeInv

LEMMA OnEndpointsConfiguredPipe ==
  ASSUME IInv, PipeInv, OnEndpointsConfigured
  PROVE  PipeInv'
<1>1. /\ port = "ConfiguringEndpoints" /\ port' = "Configured" /\ control' = Asked[15]
      /\ UNCHANGED <<dev, events>>
  BY DEF OnEndpointsConfigured
<1>2. IsControl(control) /\ Marked(control.ring) /\ dev \in Devices /\ dev.phase \in {0, 1, 2, 3, 4}
  BY PipeFacts
<1>3. dev.phase = 4 /\ ~Configured
  BY <1>1, <1>2 DEF IInv, Phases, Configured
<1>4. /\ Left(control.ring) = 0 /\ Idle(control, events) /\ control.waiters = NoEntries(4)
      /\ 2 * Cardinality(Driven) < RingSize /\ dev.initialized
  BY <1>3, Zenon DEF PipeInv
<1>5. control.setups = NoEntries(16) /\ NoAnswer(events)
  BY <1>4, Zenon DEF Idle
<1>6. PICK m \in 0..15 : m = Cardinality(Driven) /\ Asked0(Asked[15], m)
  <2>1. Asked0(control, 0)
    BY <1>2, <1>4, <1>5, NothingAsked
  <2> QED
    BY <1>2, <1>4, <2>1, AskedAll
<1>7. Asking(control', events', m) /\ Marked(control'.ring) /\ Left(control'.ring) \in 0..Circle
  <2>1. Asking(Asked[15], events, m)
    BY <1>5, <1>6, AskedAsking
  <2>2. Marked(Asked[15].ring) /\ Left(Asked[15].ring) = 2 * m /\ 2 * m <= Circle /\ m \in Nat
    BY <1>6 DEF Asked0
  <2>3. Circle \in Nat
    BY Size DEF Circle
  <2> QED
    BY <1>1, <2>1, <2>2, <2>3
<1>8. Driven' = Driven /\ Circle' = Circle
  BY <1>1 DEF Driven, Drives, Circle
<1>9. /\ dev'.phase = 4 /\ dev'.phase # 0 /\ dev'.phase # 1 /\ dev'.phase # 2 /\ dev'.phase # 3
      /\ ~(dev'.phase <= 2)
  BY <1>1, <1>3
<1> QED
  BY <1>1, <1>4, <1>7, <1>8, <1>9, Zenon DEF PipeInv, Configured

LEMMA ProtocolSetPipe ==
  ASSUME IInv, PipeInv, ProtocolSet
  PROVE  PipeInv'
<1>1. /\ Marked(Answered.ring) /\ Left(Answered.ring) \in 0..Circle
      /\ Answered.waiters = control.waiters /\ dev.phase = 4
      /\ events # <<>> /\ IsAnswer(Head(events)) /\ events' = Tail(events)
      /\ Forgets(Answered, control, Head(events).at) /\ ~NoAnswer(events)
      /\ control.ring \in Rings /\ events \in Seq(Events) /\ Left(control.ring) \in 0..Circle
  <2>1. Answer(4)
    BY DEF ProtocolSet
  <2>2. control.ring \in Rings /\ events \in Seq(Events) /\ Left(control.ring) \in 0..Circle
    BY PipeFacts
  <2> QED
    BY <2>1, <2>2, AnsweredFacts
<1>2. control' = Answered /\ UNCHANGED dev /\ port' \in {port, "Undefined"}
  BY DEF ProtocolSet
<1>3. Configured /\ dev.initialized /\ 2 * Cardinality(Driven) < RingSize
  BY <1>1, Zenon DEF PipeInv, Idle
<1>4. PICK n \in 0..15 : Asking(control, events, n)
  BY <1>3, Zenon DEF PipeInv
<1>5. Asking(control', events', n)
  <2>1. n \in Nat
    OBVIOUS
  <2> QED
    BY <1>1, <1>2, <1>4, <2>1, AskingAnswered
<1>6. Driven' = Driven /\ Circle' = Circle
  BY <1>2 DEF Driven, Drives, Circle
<1>7. dev.phase # 0 /\ dev.phase # 1 /\ dev.phase # 2 /\ dev.phase # 3 /\ ~(dev.phase <= 2)
  BY <1>1
<1> QED
  BY <1>1, <1>2, <1>3, <1>5, <1>6, <1>7, Zenon DEF PipeInv, Configured

-----------------------------------------------------------------------------
LEMMA InitialPipe ==
  ASSUME Init
  PROVE  PipeInv
<1>1. /\ control.ring = NewRing /\ control.setups = NoEntries(16) /\ control.waiters = NoEntries(4)
      /\ dev.phase = 0 /\ ~dev.initialized /\ dev.drivers = [n \in 1..15 |-> Free]
      /\ events = <<>> /\ port = "AddressingDevice"
  BY DEF Init
<1>2. Marked(NewRing) /\ Left(NewRing) = 0 /\ 0 \in 0..Circle
  <2>1. NewRing.deq = NewRing.write /\ NewRing.ccs = NewRing.cycle /\ NewRing.write = 1
    BY NewRingCaughtUp, NewRingShape, Zenon DEF CaughtUp
  <2>2. Left(NewRing) = 0
    BY <2>1 DEF Left
  <2>3. 0 \in 0..Circle
    BY Size DEF Circle
  <2> QED
    BY <2>2, <2>3, NewRingCaughtUp
<1>3. Idle(control, events)
  <2>1. NoAnswer(events)
    BY <1>1 DEF NoAnswer
  <2> QED
    BY <1>1, <1>2, <2>1 DEF Idle
<1>4. Driven = {} /\ Cardinality(Driven) = 0
  <2>1. Driven = {}
    BY <1>1 DEF Driven, Drives
  <2> QED
    BY <2>1, FS_EmptySet
<1>5. 2 * Cardinality(Driven) < RingSize
  BY <1>4, Size
<1>6. dev.phase # 1 /\ dev.phase # 2 /\ dev.phase # 3 /\ dev.phase # 4 /\ ~Configured
  BY <1>1 DEF Configured
<1> QED
  BY <1>1, <1>2, <1>3, <1>4, <1>5, <1>6, Zenon DEF PipeInv

LEMMA StepPipe ==
  ASSUME IInv, PipeInv, [Next]_vars
  PROVE  PipeInv'
<1>1. CASE UNCHANGED vars
  BY <1>1, StutterPipe
<1>2. CASE Driver
  BY <1>2, InitializeDevicePipe, PassOverPipe, InitializePhase1Pipe, InitializePhase2Pipe,
     InitializePhase3Pipe, OnEndpointsConfiguredPipe, ProtocolSetPipe, OnInterruptCompletedPipe,
     Zenon DEF Driver
<1>3. CASE Hardware
  BY <1>3, CarryOutStagePipe, FailStagePipe, SendReportPipe, FailReportPipe, Zenon DEF Hardware
<1> QED
  BY <1>1, <1>2, <1>3, Zenon DEF Next

(* A completed request is answered as what it was, and is one the device   *)
(* waits for, for every device, up to where its descriptors lead           *)
(* InitializePhase2 out of its arrays, and rings of every size: through    *)
(* the map the handler finds the setup stage that the controller carried   *)
(* out, though stages that do not interrupt are under way, the ring has    *)
(* wrapped and up to fifteen drivers may have asked at once.               *)
THEOREM RequestsAnswered == Spec => []AnswersItsRequest
<1>1. Init => IInv /\ PipeInv
  BY Initial, InitialPipe
<1>2. IInv /\ PipeInv /\ [Next]_vars => IInv' /\ PipeInv'
  BY Step, StepPipe DEF Good
<1>3. IInv /\ PipeInv => AnswersItsRequest
  BY AnswersFollow
<1> QED
  BY <1>1, <1>2, <1>3, PTL DEF Spec

-----------------------------------------------------------------------------
(* How many entries and events there are at once                           *)

Stalls   == {e \in Events : e.dci = 1 /\ e.code = "Error"}   \* of the control pipe
Failures == {e \in Events : e.dci # 1 /\ e.code = "Error"}   \* of the driver's endpoint
Polls    == {e \in Events : e.dci # 1}                       \* these, and reports

None(es, S)      == \A i \in DOMAIN es : es[i] \notin S
AtMostOne(es, S) == \A i \in DOMAIN es, j \in DOMAIN es : es[i] \in S /\ es[j] \in S => i = j

(* A pipe that has failed is halted, so it fails once.                     *)
FailInv ==
  /\ None(events, Stalls) \/ control.ring.halted
  /\ AtMostOne(events, Stalls)
  /\ None(events, Failures) \/ (hid.phase = 2 /\ hid.in \in DOMAIN rings /\ rings[hid.in].halted)
  /\ AtMostOne(events, Polls)

ValueInv ==
  /\ dev.buf \in {"none", "Device", "Configuration"}
  /\ hid.in \in 0..31
  /\ \A n \in 1..15 : dev.drivers[n] \in {Free, hid.kind}

(* The drivers' requests are remembered at the front of the map.           *)
FrontInv == Configured => Taken(control.setups) \subseteq 1..Cardinality(Driven)

CountInv == FailInv /\ ValueInv /\ FrontInv

LEMMA PopSome ==
  ASSUME NEW es \in Seq(Events), es # <<>>, NEW S
  PROVE  /\ None(es, S) => None(Tail(es), S)
         /\ AtMostOne(es, S) => AtMostOne(Tail(es), S)
<1>1. \A i \in DOMAIN Tail(es) : i \in Int /\ i + 1 \in DOMAIN es /\ Tail(es)[i] = es[i + 1]
  OBVIOUS
<1>2. None(es, S) => None(Tail(es), S)
  BY <1>1 DEF None
<1>3. ASSUME AtMostOne(es, S), NEW i \in DOMAIN Tail(es), NEW j \in DOMAIN Tail(es),
             Tail(es)[i] \in S, Tail(es)[j] \in S
      PROVE  i = j
  <2>1. i + 1 = j + 1
    BY <1>1, <1>3, Zenon DEF AtMostOne
  <2> QED
    BY <1>1, <2>1
<1> QED
  BY <1>2, <1>3 DEF AtMostOne

LEMMA PostSome ==
  ASSUME NEW es \in Seq(Events), NEW e \in Events, NEW S
  PROVE  /\ None(es, S) => AtMostOne(Append(es, e), S)
         /\ e \notin S => /\ None(es, S) => None(Append(es, e), S)
                          /\ AtMostOne(es, S) => AtMostOne(Append(es, e), S)
<1> DEFINE more == Append(es, e)
<1>1. \A i \in DOMAIN more : \/ i = Len(es) + 1 /\ more[i] = e
                             \/ i \in DOMAIN es /\ more[i] = es[i]
  BY PostOthers
<1> HIDE DEF more
<1> QED
  BY <1>1, Zenon DEF None, AtMostOne, more

LEMMA MapAt ==
  ASSUME NEW key \in Nat, NEW value \in Nat, NEW table, table = Put(NoEntries(16), key, value)
  PROVE  table \in Table(16, Entries) /\ Taken(table) \subseteq {1}
<1>1. PICK n \in Nat \ {0} : n = 16
  OBVIOUS
<1>2. Entry(key, value) # Free /\ Entry(key, value) \in Entries /\ Free \in Entries
  BY EntryFacts DEF Entries
<1>3. table = [i \in 1..n |-> IF i = 1 THEN Entry(key, value) ELSE Free]
  <2>1. table = Put(NoEntries(n), key, value)
    BY <1>1
  <2> QED
    BY <1>2, <2>1, SingleFacts
<1>4. table \in Table(n, Entries)
  BY <1>2, <1>3 DEF Table
<1>5. Taken(table) \subseteq {1}
  BY <1>3 DEF Taken
<1> QED
  BY <1>1, <1>4, <1>5

LEMMA EmptyMap == NoEntries(16) \in Table(16, Entries) /\ Taken(NoEntries(16)) = {}
  BY DEF NoEntries, Table, Entries, Taken

LEMMA OneIsDistinct ==
  ASSUME NEW es
  PROVE  /\ NoAnswer(es) => Distinct(es)
         /\ \A at, setup : OneAnswer(es, at, setup) => Distinct(es)
<1>1. NoAnswer(es) => Distinct(es)
  BY DEF NoAnswer, Distinct
<1>2. ASSUME NEW at, NEW setup, OneAnswer(es, at, setup) PROVE Distinct(es)
  <2>1. PICK i \in DOMAIN es : \A j \in DOMAIN es : IsAnswer(es[j]) => j = i
    BY <1>2, Zenon DEF OneAnswer
  <2> QED
    BY <2>1 DEF Distinct
<1> QED
  BY <1>1, <1>2

(* Each answer has an entry of its own.                                    *)
Mapped(c, es) ==
  /\ c.setups \in Table(16, Entries) /\ Distinct(es)
  /\ \A i \in DOMAIN es : IsAnswer(es[i]) => Get(c.setups, es[i].at) # Free

LEMMA IdleMapped ==
  ASSUME NEW c, NEW es, Idle(c, es)
  PROVE  Mapped(c, es) /\ Taken(c.setups) = {}
<1>1. c.setups = NoEntries(16) /\ NoAnswer(es)
  BY DEF Idle
<1> QED
  BY <1>1, EmptyMap, OneIsDistinct DEF Mapped, NoAnswer

LEMMA ReadingMapped ==
  ASSUME NEW c, c.ring \in Rings, NEW es, NEW setup, NEW buf, Reading(c, es, setup, buf),
         Left(c.ring) \in 0..Circle
  PROVE  Mapped(c, es) /\ Taken(c.setups) \subseteq {1}
<1>1. /\ c.setups = Put(NoEntries(16), At(c.ring, 2), At(c.ring, 3))
      /\ Left(c.ring) >= 2 => NoAnswer(es)
      /\ Left(c.ring) <= 1 => OneAnswer(es, At(c.ring, 2), setup)
  BY DEF Reading
<1>2. At(c.ring, 2) \in Nat /\ At(c.ring, 3) \in Nat /\ Circle \in Nat
  <2>1. Circle \in Nat /\ 2 \in 0..Circle /\ 3 \in 0..Circle
    BY PlaceFacts
  <2> QED
    BY <2>1, PlacesAreFound
<1>3. c.setups \in Table(16, Entries) /\ Taken(c.setups) \subseteq {1}
  BY <1>1, <1>2, MapAt
<1>4. Distinct(es)
  <2>1. Left(c.ring) >= 2 \/ Left(c.ring) <= 1
    BY <1>2
  <2> QED
    BY <1>1, <2>1, OneIsDistinct
<1>5. \A i \in DOMAIN es : IsAnswer(es[i]) => Get(c.setups, es[i].at) # Free
  BY ReadingSays
<1> QED
  BY <1>3, <1>4, <1>5 DEF Mapped

LEMMA SettingMapped ==
  ASSUME NEW c, c.ring \in Rings, NEW es, NEW setup, Setting(c, es, setup), Left(c.ring) \in 0..Circle
  PROVE  Mapped(c, es) /\ Taken(c.setups) \subseteq {1}
<1>1. /\ c.setups = Put(NoEntries(16), At(c.ring, 1), At(c.ring, 2))
      /\ Left(c.ring) >= 1 => NoAnswer(es)
      /\ Left(c.ring) = 0 => OneAnswer(es, At(c.ring, 1), setup)
  BY DEF Setting
<1>2. At(c.ring, 1) \in Nat /\ At(c.ring, 2) \in Nat /\ Circle \in Nat
  <2>1. Circle \in Nat /\ 1 \in 0..Circle /\ 2 \in 0..Circle
    BY PlaceFacts
  <2> QED
    BY <2>1, PlacesAreFound
<1>3. c.setups \in Table(16, Entries) /\ Taken(c.setups) \subseteq {1}
  BY <1>1, <1>2, MapAt
<1>4. Distinct(es)
  <2>1. Left(c.ring) >= 1 \/ Left(c.ring) = 0
    BY <1>2
  <2> QED
    BY <1>1, <2>1, OneIsDistinct
<1>5. \A i \in DOMAIN es : IsAnswer(es[i]) => Get(c.setups, es[i].at) # Free
  BY SettingSays
<1> QED
  BY <1>3, <1>4, <1>5 DEF Mapped

LEMMA AskingMapped ==
  ASSUME NEW c, c.ring \in Rings, NEW es, NEW n \in Nat, Asking(c, es, n), Left(c.ring) \in 0..Circle
  PROVE  Mapped(c, es)
<1>1. c.setups \in Table(16, Entries) /\ Distinct(es)
  BY AskingFacts DEF Table
<1>2. ASSUME NEW i \in DOMAIN es, IsAnswer(es[i]) PROVE Get(c.setups, es[i].at) # Free
  <2>1. PICK k \in 1..n : Get(c.setups, es[i].at) = At(c.ring, 2 * k) /\ At(c.ring, 2 * k) # Free
    BY <1>2, AskingSays
  <2> QED
    BY <2>1
<1> QED
  BY <1>1, <1>2 DEF Mapped

(* So it is in every phase.                                                *)
LEMMA AlwaysMapped ==
  ASSUME IInv, PipeInv
  PROVE  /\ Mapped(control, events)
         /\ dev.phase # 4 => Taken(control.setups) \subseteq {1}
         /\ dev.phase = 4 /\ ~Configured => Taken(control.setups) = {}
<1>1. /\ control.ring \in Rings /\ dev.phase \in {0, 1, 2, 3, 4}
      /\ Left(control.ring) \in 0..Circle /\ (dev.phase # 4 => ~Configured)
  BY PipeFacts
<1>2. CASE Idle(control, events)
  BY <1>2, IdleMapped
<1>3. ASSUME NEW setup, Reading(control, events, setup, dev.buf)
      PROVE  Mapped(control, events) /\ Taken(control.setups) \subseteq {1}
  BY <1>1, <1>3, ReadingMapped
<1>4. CASE dev.phase = 0
  BY <1>2, <1>4, Zenon DEF PipeInv
<1>5. CASE dev.phase = 1
  <2>1. Reading(control, events, Setup("GetDescriptor", "Device"), dev.buf)
    BY <1>5 DEF PipeInv
  <2> QED
    BY <1>3, <1>5, <2>1
<1>6. CASE dev.phase = 2
  <2>1. \/ Reading(control, events, Setup("GetDescriptor", "Configuration"), dev.buf)
        \/ Idle(control, events)
    BY <1>6 DEF PipeInv
  <2> QED
    BY <1>2, <1>3, <1>6, <2>1
<1>7. CASE dev.phase = 3
  <2>1. Setting(control, events, Setup("SetConfiguration", "TheValue"))
    BY <1>7 DEF PipeInv
  <2> QED
    BY <1>1, <1>7, <2>1, SettingMapped
<1>8. CASE dev.phase = 4 /\ ~Configured
  BY <1>2, <1>8, Zenon DEF PipeInv
<1>9. CASE dev.phase = 4 /\ Configured
  <2>1. PICK n \in 0..15 : Asking(control, events, n)
    BY <1>9 DEF PipeInv
  <2> QED
    BY <1>1, <1>9, <2>1, AskingMapped
<1> QED
  BY <1>1, <1>4, <1>5, <1>6, <1>7, <1>8, <1>9

(* Forgetting frees an entry, and takes none.                              *)
LEMMA DeleteTaken ==
  ASSUME NEW table \in Table(16, Entries), NEW key
  PROVE  Taken(Delete(table, key)) \subseteq Taken(table)
<1>1. PICK n \in Nat : n = 16
  OBVIOUS
<1>2. table \in [1..n -> Entries]
  BY <1>1 DEF Table
<1>3. table \in Seq(Entries) /\ Len(table) = n
  BY <1>2, TableFacts
<1>4. CASE Delete(table, key) = table
  BY <1>4
<1>5. ASSUME NEW i \in 1..n, Delete(table, key) = [table EXCEPT ![i] = Free]
      PROVE  Taken(Delete(table, key)) \subseteq Taken(table)
  BY <1>2, <1>5 DEF Taken
<1> QED
  BY <1>3, <1>4, <1>5, GetFacts

LEMMA AnsweredTaken ==
  ASSUME IInv, PipeInv
  PROVE  /\ Taken(Answered.setups) \subseteq Taken(control.setups)
         /\ Answered.ring = control.ring
<1>1. Answered.ring = control.ring /\ Answered.setups = Delete(control.setups, Event.at)
  BY DEF Answered, IInv, Shapes, IsControl
<1>2. control.setups \in Table(16, Entries)
  BY AlwaysMapped DEF Mapped
<1> QED
  BY <1>1, <1>2, DeleteTaken

-----------------------------------------------------------------------------
(* How the steps keep it                                                   *)

LEMMA NoFailureBefore ==
  ASSUME FailInv, hid.phase # 2
  PROVE  None(events, Failures)
  BY DEF FailInv

(* The driver takes an event, or none.                                     *)
LEMMA DriverFails ==
  ASSUME FailInv, events \in Seq(Events), control'.ring.halted = control.ring.halted,
         events' = events \/ (events # <<>> /\ events' = Tail(events)),
         None(events, Failures) \/ UNCHANGED <<hid, rings>>
  PROVE  FailInv'
<1>1. ASSUME NEW S PROVE /\ None(events, S) => None(events', S)
                         /\ AtMostOne(events, S) => AtMostOne(events', S)
  BY PopSome
<1>2. Stalls' = Stalls /\ Failures' = Failures /\ Polls' = Polls
  BY DEF Stalls, Failures, Polls, Events, Places
<1>3. None(events', Stalls) \/ control'.ring.halted
  BY <1>1 DEF FailInv
<1>4. AtMostOne(events', Stalls) /\ AtMostOne(events', Polls)
  BY <1>1 DEF FailInv
<1>5. None(events', Failures) \/ (hid'.phase = 2 /\ hid'.in \in DOMAIN rings' /\ rings'[hid'.in].halted)
  BY <1>1 DEF FailInv
<1> QED
  BY <1>2, <1>3, <1>4, <1>5, Zenon DEF FailInv

LEMMA SameValues ==
  ASSUME ValueInv, dev'.buf = dev.buf, dev'.drivers = dev.drivers, hid'.in = hid.in, hid'.kind = hid.kind
  PROVE  ValueInv'
  BY DEF ValueInv

LEMMA SameFront ==
  ASSUME FrontInv, Configured' => Configured, dev'.drivers = dev.drivers,
         Taken(control'.setups) \subseteq Taken(control.setups)
  PROVE  FrontInv'
<1>1. Driven' = Driven
  BY DEF Driven, Drives
<1> QED
  BY <1>1 DEF FrontInv

LEMMA NotConfigured ==
  ASSUME ~Configured'
  PROVE  FrontInv'
  BY DEF FrontInv

(* How far the device and its driver are.                                  *)
LEMMA ShapeFacts ==
  ASSUME IInv, PipeInv
  PROVE  /\ IsControl(control) /\ control.ring \in Rings /\ control.serving \in Setups
         /\ control.ring.deq \in Places
         /\ events \in Seq(Events) /\ dev \in Devices /\ IsDriver(hid)
         /\ ~Configured => hid.phase # 2
         /\ dev.phase # 4 => ~Configured
<1>1. /\ IsControl(control) /\ control.ring \in Rings /\ control.serving \in Setups
      /\ events \in Seq(Events) /\ dev \in Devices /\ IsDriver(hid)
  BY DEF IInv, Shapes, IsControl
<1>2. control.ring.deq \in Places
  BY <1>1 DEF Rings
<1>3. ~Configured => hid.phase # 2
  BY DEF IInv, Phases, Configured
<1> QED
  BY <1>1, <1>2, <1>3, PipeFacts

LEMMA InitializeDeviceCount ==
  ASSUME IInv, PipeInv, CountInv, InitializeDevice
  PROVE  CountInv'
<1>1. /\ control' = GetDescriptor(control, "Device") /\ ~Configured'
      /\ UNCHANGED <<hid, rings, events>>
  BY DEF InitializeDevice, Configured
<1>2. dev'.buf = dev.buf /\ dev'.drivers = dev.drivers
  BY ShapeFacts DEF InitializeDevice, Devices
<1>3. control'.ring.halted = control.ring.halted
  BY <1>1, ShapeFacts, RequestsShape
<1> QED
  BY <1>1, <1>2, <1>3, ShapeFacts, DriverFails, SameValues, NotConfigured DEF CountInv

LEMMA PassOverCount ==
  ASSUME IInv, PipeInv, CountInv, PassOver
  PROVE  CountInv'
<1>1. /\ events # <<>> /\ events' = Tail(events) /\ UNCHANGED <<port, dev, hid, rings>>
      /\ control' \in {control, Answered}
  BY DEF PassOver, PopEvent
<1>2. /\ control'.ring.halted = control.ring.halted
      /\ Taken(control'.setups) \subseteq Taken(control.setups)
  BY <1>1, AnsweredTaken
<1> QED
  BY <1>1, <1>2, ShapeFacts, DriverFails, SameValues, SameFront DEF CountInv, Configured

LEMMA InitializePhase1Count ==
  ASSUME IInv, PipeInv, CountInv, InitializePhase1
  PROVE  CountInv'
<1>1. /\ events # <<>> /\ events' = Tail(events) /\ UNCHANGED <<port, hid, rings>>
      /\ control' = GetDescriptor(Answered, "Configuration") /\ dev.phase = 1
  BY DEF InitializePhase1, Answer, Completed, PopEvent
<1>2. dev'.buf = dev.buf /\ dev'.drivers = dev.drivers
  BY ShapeFacts DEF InitializePhase1, Devices
<1>3. control'.ring.halted = control.ring.halted
  BY <1>1, AnsweredShape, RequestsShape, AnsweredTaken
<1>4. ~Configured'
  <2>1. dev \in Devices /\ dev' = [dev EXCEPT !.phase = 2] /\ ~Configured
    BY <1>1, ShapeFacts DEF InitializePhase1
  <2>2. dev'.phase = 2
    BY <2>1 DEF Devices
  <2> QED
    BY <1>1, <2>1, <2>2 DEF Configured
<1> QED
  BY <1>1, <1>2, <1>3, <1>4, ShapeFacts, DriverFails, SameValues, NotConfigured DEF CountInv

LEMMA InitializePhase2Count ==
  ASSUME IInv, PipeInv, CountInv, InitializePhase2
  PROVE  CountInv'
<1>1. /\ events # <<>> /\ events' = Tail(events) /\ UNCHANGED rings /\ dev.phase = 2
      /\ control' \in {Answered, SetConfiguration(Answered, "TheValue")}
      /\ port' \in {port, "Undefined"}
  BY DEF InitializePhase2, Answer, Completed, PopEvent
<1>2. control'.ring.halted = control.ring.halted
  BY <1>1, AnsweredShape, RequestsShape, AnsweredTaken
<1>3. ~Configured /\ ~Configured' /\ hid.phase # 2
  <2>1. dev \in Devices /\ ~Configured /\ hid.phase # 2
    BY <1>1, ShapeFacts
  <2>2. dev'.phase # 4
    <3>1. \/ dev' = dev
          \/ \E drivers : dev' = [dev EXCEPT !.phase = 3, !.endpoints = Endpoints, !.drivers = drivers]
      BY Zenon DEF InitializePhase2
    <3>2. ASSUME NEW drivers,
                 dev' = [dev EXCEPT !.phase = 3, !.endpoints = Endpoints, !.drivers = drivers]
          PROVE  dev'.phase = 3
      BY <2>1, <3>2 DEF Devices
    <3>3. dev' = dev \/ dev'.phase = 3
      BY <3>1, <3>2, Zenon
    <3> QED
      BY <1>1, <3>3
  <2> QED
    BY <1>1, <2>1, <2>2 DEF Configured
<1>4. FailInv'
  BY <1>1, <1>2, <1>3, ShapeFacts, NoFailureBefore, DriverFails DEF CountInv
<1>5. CASE UNCHANGED <<dev, hid>>
  BY <1>3, <1>4, <1>5, SameValues, NotConfigured DEF CountInv
<1>6. CASE LET kind    == DriverFor(descriptors[Interface])
               numbers == {descriptors[j].number : j \in Endpoints}
               bytes   == IF kind = "keyboard" THEN 2 + KeySlots ELSE 3
           IN  /\ dev' = [dev EXCEPT
                            !.phase = 3, !.endpoints = Endpoints,
                            !.drivers = [n \in DOMAIN @ |-> IF n \in numbers THEN kind ELSE @[n]]]
               /\ hid' = [ kind |-> kind, phase |-> 0, in |-> 0,
                           buf  |-> [i \in 1..bytes |-> 0], previous |-> [i \in 1..bytes |-> 0] ]
  <2> DEFINE kind    == DriverFor(descriptors[Interface])
             numbers == {descriptors[j].number : j \in Endpoints}
             drivers == [n \in 1..15 |-> IF n \in numbers THEN kind ELSE dev.drivers[n]]
  <2>1. hid'.kind = kind /\ hid'.in = 0
    BY <1>6
  <2>2. dev'.buf = dev.buf /\ dev'.drivers = drivers
    <3> HIDE DEF numbers, kind
    <3>1. dev \in Devices /\ DOMAIN dev.drivers = 1..15
      BY ShapeFacts DEF Devices
    <3>2. dev' = [dev EXCEPT !.phase = 3, !.endpoints = Endpoints, !.drivers = drivers]
      BY <1>6, <3>1 DEF Devices, numbers, kind
    <3> HIDE DEF drivers
    <3> QED
      BY <3>1, <3>2 DEF Devices
  <2>3. \A n \in 1..15 : dev.drivers[n] = Free
    <3>1. Driven = {}
      BY <1>1 DEF PipeInv
    <3> QED
      BY <3>1 DEF Driven, Drives
  <2> HIDE DEF kind, numbers
  <2>4. \A n \in 1..15 : dev'.drivers[n] \in {Free, hid'.kind}
    BY <2>1, <2>2, <2>3
  <2>5. dev'.buf \in {"none", "Device", "Configuration"} /\ hid'.in \in 0..31
    BY <2>1, <2>2 DEF CountInv, ValueInv
  <2> QED
    BY <1>3, <1>4, <2>4, <2>5, NotConfigured DEF CountInv, ValueInv
<1> QED
  BY <1>5, <1>6, Zenon DEF InitializePhase2

(* The driver's endpoint is one of the device, or none.                    *)
LEMMA InterruptInDciFacts ==
  ASSUME IInv, PipeInv
  PROVE  InterruptInDci \in 0..31
<1> DEFINE S == {i \in dev.endpoints : descriptors[i].transfer = "Interrupt" /\ descriptors[i].in}
<1>1. InterruptInDci = LastOf(S)
  BY DEF InterruptInDci
<1>2. S \subseteq EndpointPlaces /\ descriptors \in Configurations
  BY ShapeFacts DEF Devices, IInv, Shapes
<1> HIDE DEF S
<1>3. CASE S = {}
  BY <1>1, <1>3 DEF LastOf
<1>4. CASE S # {}
  <2>1. Len(descriptors) \in Nat /\ S \in SUBSET Nat /\ \A s \in S : s <= Len(descriptors)
    BY <1>2, ConfigurationsAssumption DEF EndpointPlaces
  <2>2. \E x \in S : \A y \in S : y <= x
    BY <1>4, <2>1, HighestMember
  <2>3. \E x \in S : \A y \in S : x >= y
    BY <2>1, <2>2
  <2>4. Max(S) \in S
    BY <2>3, Zenon DEF Max
  <2>5. Dci(Max(S)) \in 2..31
    BY <1>2, <2>4, DciFacts
  <2> QED
    BY <1>1, <1>4, <2>5 DEF LastOf
<1> QED
  BY <1>3, <1>4

LEMMA InitializePhase3Count ==
  ASSUME IInv, PipeInv, CountInv, InitializePhase3, port # "Undefined"
  PROVE  CountInv'
<1>1. /\ events # <<>> /\ events' = Tail(events) /\ control' = Answered /\ dev.phase = 3
      /\ hid' = [hid EXCEPT !.in = InterruptInDci]
  BY DEF InitializePhase3, Answer, Completed, PopEvent
<1>2. ~Configured' /\ hid.phase # 2
  <2>1. port = "InitializingDevice"
    BY <1>1 DEF IInv, Phases
  <2> QED
    BY <1>1, <2>1, ShapeFacts DEF InitializePhase3, Configured
<1>3. dev'.buf = dev.buf /\ dev'.drivers = dev.drivers
  <2>1. dev \in Devices /\ dev' = [dev EXCEPT !.phase = 4, !.initialized = TRUE]
    BY ShapeFacts DEF InitializePhase3
  <2> QED
    BY <2>1 DEF Devices
<1>4. hid'.in = InterruptInDci /\ hid'.kind = hid.kind
  <2>1. IsDriver(hid)
    BY ShapeFacts
  <2> QED
    BY <1>1, <2>1 DEF IsDriver
<1>5. ValueInv'
  BY <1>3, <1>4, InterruptInDciFacts DEF CountInv, ValueInv
<1>6. control'.ring.halted = control.ring.halted
  BY <1>1, AnsweredTaken
<1>7. FailInv'
  BY <1>1, <1>2, <1>6, ShapeFacts, NoFailureBefore, DriverFails DEF CountInv
<1> QED
  BY <1>2, <1>5, <1>7, NotConfigured DEF CountInv

LEMMA OnEndpointsConfiguredCount ==
  ASSUME IInv, PipeInv, CountInv, OnEndpointsConfigured
  PROVE  CountInv'
<1>1. /\ ~Configured /\ port = "ConfiguringEndpoints"
      /\ control' = Asked[15] /\ hid' = [hid EXCEPT !.phase = 1] /\ UNCHANGED <<dev, rings, events>>
  BY DEF OnEndpointsConfigured, Configured
<1>2. dev.phase = 4 /\ dev \in Devices /\ IsControl(control) /\ Marked(control.ring)
  <2>1. dev \in Devices /\ dev.phase \in 0..4
    BY ShapeFacts DEF Devices
  <2> QED
    BY <1>1, <2>1, PipeFacts DEF IInv, Phases, Configured
<1>3. /\ Left(control.ring) = 0 /\ Idle(control, events) /\ control.waiters = NoEntries(4)
      /\ 2 * Cardinality(Driven) < RingSize
  BY <1>1, <1>2, Zenon DEF PipeInv
<1>4. Cardinality(Driven) \in 0..15 /\ Asked0(Asked[15], Cardinality(Driven))
  <2>1. control.setups = NoEntries(16)
    BY <1>3, Zenon DEF Idle
  <2>2. Asked0(control, 0)
    BY <1>2, <1>3, <2>1, NothingAsked
  <2> QED
    BY <1>2, <1>3, <2>2, AskedAll
<1>5. FrontInv'
  <2>1. Driven' = Driven
    BY <1>1 DEF Driven, Drives
  <2> DEFINE m == Cardinality(Driven)
  <2> HIDE DEF m
  <2>2. /\ m \in 0..15 /\ Asked[15].setups \in [1..16 -> Entries]
        /\ \A i \in m + 1..16 : Asked[15].setups[i] = Free
    BY <1>4, Zenon DEF Asked0, m
  <2>3. Taken(Asked[15].setups) \subseteq 1..m
    BY <2>2 DEF Taken
  <2> QED
    BY <1>1, <2>1, <2>3 DEF FrontInv, m
<1>6. hid'.in = hid.in /\ hid'.kind = hid.kind
  <2>1. IsDriver(hid)
    BY ShapeFacts
  <2> QED
    BY <1>1, <2>1 DEF IsDriver
<1>7. control'.ring.halted = control.ring.halted
  BY <1>1, <1>2, AskedShape
<1>8. FailInv'
  BY <1>1, <1>7, ShapeFacts, NoFailureBefore, DriverFails DEF CountInv
<1> QED
  BY <1>1, <1>5, <1>6, <1>8, SameValues DEF CountInv

LEMMA ProtocolSetCount ==
  ASSUME IInv, PipeInv, CountInv, ProtocolSet
  PROVE  CountInv'
<1>1. /\ events # <<>> /\ events' = Tail(events) /\ control' = Answered /\ UNCHANGED dev
      /\ dev.phase = 4 /\ port' \in {port, "Undefined"}
      /\ IF hid.phase = 1 THEN hid' = [hid EXCEPT !.phase = 2] ELSE UNCHANGED <<hid, rings>>
  BY DEF ProtocolSet, Answer, Completed, PopEvent
<1>2. hid'.in = hid.in /\ hid'.kind = hid.kind
  <2>1. IsDriver(hid)
    BY ShapeFacts
  <2> QED
    BY <1>1, <2>1 DEF IsDriver
<1>3. None(events, Failures) \/ UNCHANGED <<hid, rings>>
  <2>1. CASE hid.phase = 1
    BY <2>1, NoFailureBefore DEF CountInv
  <2>2. CASE hid.phase # 1
    BY <1>1, <2>2
  <2> QED
    BY <2>1, <2>2
<1>4. /\ control'.ring.halted = control.ring.halted
      /\ Taken(control'.setups) \subseteq Taken(control.setups)
  BY <1>1, AnsweredTaken
<1>5. Configured' => Configured
  BY <1>1 DEF ProtocolSet, IInv, Phases, Configured
<1> QED
  BY <1>1, <1>2, <1>3, <1>4, <1>5, ShapeFacts, DriverFails, SameValues, SameFront DEF CountInv

LEMMA OnInterruptCompletedCount ==
  ASSUME IInv, PipeInv, CountInv, OnInterruptCompleted
  PROVE  CountInv'
<1>1. /\ events # <<>> /\ events' = Tail(events) /\ UNCHANGED <<port, dev, control>>
      /\ hid' = [hid EXCEPT !.previous = hid.buf]
  BY DEF OnInterruptCompleted, Completed, PopEvent
<1>2. None(events, Failures)
  <2>1. IsReport(Event)
    BY TakesReport
  <2>2. CaughtUp(rings[hid.in])
    BY <1>1, <2>1, HeadReport
  <2> QED
    BY <2>2 DEF CaughtUp, CountInv, FailInv
<1>3. hid'.in = hid.in /\ hid'.kind = hid.kind
  <2>1. IsDriver(hid)
    BY ShapeFacts
  <2> QED
    BY <1>1, <2>1 DEF IsDriver
<1> QED
  BY <1>1, <1>2, <1>3, ShapeFacts, DriverFails, SameValues, SameFront DEF CountInv, Configured

(* Only the data stage of a request for a descriptor fills the buffer.     *)
LEMMA DataStageServes ==
  ASSUME IInv, PipeInv, Ready(control.ring), Stage(control.ring, Left(control.ring)).type = "DataStage"
  PROVE  control.serving.value \in {"Device", "Configuration"}
<1> DEFINE left == Left(control.ring)
<1>1. /\ control.ring \in Rings /\ dev.phase \in {0, 1, 2, 3, 4} /\ Circle \in Nat
      /\ Left(control.ring) \in 1..Circle /\ (dev.phase # 4 => ~Configured)
  BY PipeFacts, PlaceFacts, ReadyLeft
<1>2. ~IsStatus(Stage(control.ring, left)) /\ ~IsLast(Stage(control.ring, left))
  BY DEF IsStatus, IsLast
<1>3. ~IsSetup(Stage(control.ring, left), control.serving) /\ \A setup : ~IsSetup(Stage(control.ring, left), setup)
  BY DEF IsSetup
<1>4. ~Idle(control, events)
  <2> SUFFICES ASSUME Idle(control, events) PROVE FALSE
    OBVIOUS
  <2>1. left <= 1 /\ (left = 1 => IsStatus(Stage(control.ring, 1)))
    BY DEF Idle
  <2>2. left = 1
    BY <1>1, <2>1
  <2> QED
    BY <1>2, <2>1, <2>2
<1>5. ASSUME NEW setup, Reading(control, events, setup, dev.buf) PROVE control.serving = setup
  <2>1. /\ IsSetup(Stage(control.ring, 3), setup) /\ IsStatus(Stage(control.ring, 1))
        /\ left <= 4 /\ (left = 4 => IsStatus(Stage(control.ring, 4)))
        /\ left = 2 => control.serving = setup
    BY <1>5, Zenon DEF Reading
  <2>2. left \in {1, 2, 3, 4}
    BY <1>1, <2>1
  <2> HIDE DEF left
  <2>3. left = 2
    <3>1. left # 1 /\ left # 3 /\ left # 4
      BY <1>2, <1>3, <2>1
    <3> QED
      BY <2>2, <3>1
  <2> QED
    BY <2>1, <2>3
<1>6. CASE dev.phase \in {0, 4} /\ ~Configured
  BY <1>4, <1>6, Zenon DEF PipeInv
<1>7. CASE dev.phase = 1
  <2>1. Reading(control, events, Setup("GetDescriptor", "Device"), dev.buf)
    BY <1>7 DEF PipeInv
  <2>2. control.serving = Setup("GetDescriptor", "Device")
    BY <1>5, <2>1
  <2> QED
    BY <2>2 DEF Setup
<1>8. CASE dev.phase = 2
  <2>1. Reading(control, events, Setup("GetDescriptor", "Configuration"), dev.buf)
    BY <1>4, <1>8 DEF PipeInv
  <2>2. control.serving = Setup("GetDescriptor", "Configuration")
    BY <1>5, <2>1
  <2> QED
    BY <2>2 DEF Setup
<1>9. CASE dev.phase = 3
  <2>1. Setting(control, events, Setup("SetConfiguration", "TheValue"))
    BY <1>9 DEF PipeInv
  <2>2. /\ IsSetup(Stage(control.ring, 2), Setup("SetConfiguration", "TheValue"))
        /\ IsLast(Stage(control.ring, 1))
        /\ left <= 3 /\ (left = 3 => IsStatus(Stage(control.ring, 3)))
    BY <2>1, Zenon DEF Setting
  <2>3. left \in {1, 2, 3}
    BY <1>1, <2>2
  <2> HIDE DEF left
  <2> QED
    BY <1>2, <1>3, <2>2, <2>3
<1>10. CASE Configured
  <2>1. PICK n \in 0..15 : Asking(control, events, n)
    BY <1>10 DEF PipeInv
  <2>2. left <= 2 * n /\ \A k \in 1..n : Asks(control, left, k)
    BY <2>1, AskingFacts
  <2>3. left \in 1..2 * n /\ n \in Nat
    BY <1>1, <2>2
  <2> HIDE DEF left
  <2>4. PICK k \in 1..n : left = 2 * k \/ left = 2 * k - 1
    BY <2>3, Halves
  <2>5. IsSetup(Stage(control.ring, 2 * k), Boot) /\ IsLast(Stage(control.ring, 2 * k - 1))
    BY <2>2 DEF Asks
  <2> QED
    BY <1>2, <1>3, <2>4, <2>5
<1> QED
  BY <1>1, <1>6, <1>7, <1>8, <1>9, <1>10

(* A stage posts an answer or nothing.                                     *)
LEMMA CarryOutStageCount ==
  ASSUME IInv, PipeInv, CountInv, CarryOutStage
  PROVE  CountInv'
<1> DEFINE trb     == NextTrb(control.ring)
           ring    == Advance(control.ring)
           serving == IF trb.type = "SetupStage" THEN trb.setup ELSE control.serving
           buf     == IF trb.type = "DataStage" THEN control.serving.value ELSE dev.buf
           e       == [dci |-> 1, at |-> control.ring.deq, code |-> "Success", of |-> control.serving]
<1>1. /\ IsControl(control) /\ control.ring \in Rings /\ control.serving \in Setups
      /\ control.ring.deq \in Places /\ events \in Seq(Events) /\ dev \in Devices
      /\ Left(control.ring) \in 0..Circle /\ Marked(control.ring)
  BY ShapeFacts, PipeFacts
<1>2. /\ control' = [control EXCEPT !.ring = ring, !.serving = serving]
      /\ dev' = [dev EXCEPT !.buf = buf]
      /\ events' \in {events, Append(events, e)}
      /\ UNCHANGED <<port, hid, rings>> /\ Ready(control.ring)
  BY <1>1 DEF CarryOutStage, IsControl, Devices, Post
<1>3. ~control.ring.halted /\ ring.halted = control.ring.halted
  BY <1>1, <1>2, AdvanceFacts DEF Ready
<1>4. /\ e \in Events /\ e \notin Stalls /\ e \notin Failures /\ e \notin Polls
  BY <1>1 DEF Events, Stalls, Failures, Polls
<1>5. trb.type = "DataStage" => control.serving.value \in {"Device", "Configuration"}
  <2>1. trb = Stage(control.ring, Left(control.ring))
    BY <1>1, <1>2, ReadyLeft DEF NextTrb, Stage
  <2> QED
    BY <1>2, <2>1, DataStageServes
<1> HIDE DEF ring, serving, e
<1>6. control'.ring = ring /\ control'.setups = control.setups
  BY <1>1, <1>2 DEF IsControl
<1>7. dev'.buf = buf /\ dev'.drivers = dev.drivers
  <2> HIDE DEF buf
  <2> QED
    BY <1>1, <1>2 DEF Devices
<1>8. ValueInv'
  <2>1. buf \in {"none", "Device", "Configuration"}
    <3> HIDE DEF trb
    <3> QED
      BY <1>5 DEF CountInv, ValueInv
  <2> QED
    BY <1>2, <1>7, <2>1 DEF CountInv, ValueInv
<1>9. FrontInv'
  BY <1>2, <1>6, <1>7, SameFront DEF CountInv, Configured
<1>10. FailInv'
  <2>1. Stalls' = Stalls /\ Failures' = Failures /\ Polls' = Polls
    BY DEF Stalls, Failures, Polls, Events, Places
  <2>2. ASSUME NEW S, e \notin S
        PROVE  /\ None(events, S) => None(events', S)
               /\ AtMostOne(events, S) => AtMostOne(events', S)
    BY <1>1, <1>2, <1>4, <2>2, PostSome
  <2>3. /\ None(events, Stalls) /\ AtMostOne(events, Stalls) /\ AtMostOne(events, Polls)
        /\ None(events, Failures) \/ (hid.phase = 2 /\ hid.in \in DOMAIN rings /\ rings[hid.in].halted)
    BY <1>3 DEF CountInv, FailInv
  <2>4. /\ None(events', Stalls) /\ AtMostOne(events', Stalls) /\ AtMostOne(events', Polls)
        /\ None(events, Failures) => None(events', Failures)
    BY <1>4, <2>2, <2>3
  <2> QED
    BY <1>2, <2>1, <2>3, <2>4, Zenon DEF FailInv
<1> QED
  BY <1>8, <1>9, <1>10 DEF CountInv

LEMMA FailStageCount ==
  ASSUME IInv, PipeInv, CountInv, FailStage
  PROVE  CountInv'
<1> DEFINE e == [dci |-> 1, at |-> control.ring.deq, code |-> "Error", of |-> control.serving]
<1>1. /\ IsControl(control) /\ control.ring \in Rings /\ control.serving \in Setups
      /\ control.ring.deq \in Places /\ events \in Seq(Events)
  BY ShapeFacts
<1>2. /\ control' = [control EXCEPT !.ring.halted = TRUE] /\ events' = Append(events, e)
      /\ UNCHANGED <<port, dev, hid, rings>> /\ Ready(control.ring)
  BY DEF FailStage, Post
<1>3. e \in Events /\ e \notin Failures /\ e \notin Polls
  BY <1>1 DEF Events, Failures, Polls
<1> HIDE DEF e
<1>4. control'.ring.halted /\ control'.setups = control.setups
  BY <1>1, <1>2 DEF IsControl, Rings
<1>5. FailInv'
  <2>1. Stalls' = Stalls /\ Failures' = Failures /\ Polls' = Polls
    BY DEF Stalls, Failures, Polls, Events, Places
  <2>2. /\ None(events, Stalls) /\ AtMostOne(events, Polls)
        /\ None(events, Failures) \/ (hid.phase = 2 /\ hid.in \in DOMAIN rings /\ rings[hid.in].halted)
    BY <1>2 DEF CountInv, FailInv, Ready
  <2>3. /\ AtMostOne(events', Stalls) /\ AtMostOne(events', Polls)
        /\ None(events, Failures) => None(events', Failures)
    BY <1>1, <1>2, <1>3, <2>2, PostSome
  <2> QED
    BY <1>2, <1>4, <2>1, <2>2, <2>3, Zenon DEF FailInv
<1> QED
  BY <1>2, <1>4, <1>5, SameValues, SameFront DEF CountInv, Configured

(* Where a report can be sent, there is none, and no failure.              *)
LEMMA PollPosted ==
  ASSUME IInv, PipeInv, CountInv, NEW d \in DOMAIN rings, Ready(rings[d]),
         NEW code \in {"Success", "Error"}, Post(d, rings[d].deq, code),
         code = "Error" => rings' = [rings EXCEPT ![d].halted = TRUE],
         hid'.phase = hid.phase, hid'.in = hid.in, UNCHANGED control
  PROVE  FailInv'
<1> DEFINE e == [dci |-> d, at |-> rings[d].deq, code |-> code, of |-> control.serving]
<1>1. control.serving \in Setups /\ events \in Seq(Events)
  BY ShapeFacts
<1>2. /\ d = hid.in /\ d \in 2..31 /\ hid.phase = 2 /\ rings[d] \in Rings /\ ~rings[d].halted
      /\ NoReport(events)
  BY ReadyRing DEF Ready
<1>3. e \in Events /\ e \notin Stalls /\ (code = "Success" => e \notin Failures)
  <2>1. d \in Nat /\ d # 1 /\ rings[d].deq \in Places
    <3>1. d \in 2..31
      BY <1>2
    <3>2. PICK ring \in Rings : ring = rings[d]
      BY <1>2
    <3>3. ring.deq \in Places
      BY DEF Rings
    <3> QED
      BY <3>1, <3>2, <3>3
  <2>2. e \in Events
    BY <1>1, <2>1 DEF Events
  <2>3. e.dci = d /\ e.code = code
    OBVIOUS
  <2> QED
    BY <2>1, <2>2, <2>3 DEF Stalls, Failures
<1>4. events' = Append(events, e)
  BY DEF Post
<1> HIDE DEF e
<1>5. /\ None(events, Failures) /\ AtMostOne(events, Stalls)
      /\ None(events, Stalls) \/ control.ring.halted
  BY <1>2 DEF CountInv, FailInv
<1>6. None(events, Polls)
  <2> SUFFICES ASSUME NEW i \in DOMAIN events, events[i] \in Polls PROVE FALSE
    BY DEF None
  <2>1. events[i] \notin Failures
    BY <1>5 DEF None
  <2>2. ~IsReport(events[i])
    BY <1>2 DEF NoReport
  <2> QED
    BY <2>1, <2>2 DEF Polls, Failures, IsReport
<1>7. /\ AtMostOne(events', Polls) /\ AtMostOne(events', Stalls)
      /\ None(events, Stalls) => None(events', Stalls)
      /\ code = "Success" => None(events', Failures)
  BY <1>1, <1>3, <1>4, <1>5, <1>6, PostSome
<1>8. Stalls' = Stalls /\ Failures' = Failures /\ Polls' = Polls
  BY DEF Stalls, Failures, Polls, Events, Places
<1>9. code = "Error" => hid'.phase = 2 /\ hid'.in \in DOMAIN rings' /\ rings'[hid'.in].halted
  <2> SUFFICES ASSUME code = "Error" PROVE hid'.phase = 2 /\ hid'.in \in DOMAIN rings' /\ rings'[hid'.in].halted
    OBVIOUS
  <2>1. rings' = [rings EXCEPT ![d].halted = TRUE]
    OBVIOUS
  <2>2. DOMAIN rings' = DOMAIN rings /\ rings'[d] = [rings[d] EXCEPT !.halted = TRUE]
    BY <2>1
  <2>3. rings'[d].halted
    BY <1>2, <2>2 DEF Rings
  <2> QED
    BY <1>2, <2>2, <2>3
<1> QED
  BY <1>5, <1>7, <1>8, <1>9, Zenon DEF FailInv

LEMMA SendReportCount ==
  ASSUME IInv, PipeInv, CountInv, SendReport
  PROVE  CountInv'
<1>1. PICK d \in DOMAIN rings, report \in Reports(hid.kind) :
        /\ Ready(rings[d]) /\ hid' = [hid EXCEPT !.buf = report]
        /\ Post(d, rings[d].deq, "Success") /\ UNCHANGED <<port, dev, control>>
  BY DEF SendReport
<1>2. hid'.phase = hid.phase /\ hid'.in = hid.in /\ hid'.kind = hid.kind
  <2>1. IsDriver(hid)
    BY ShapeFacts
  <2> QED
    BY <1>1, <2>1 DEF IsDriver
<1>3. FailInv'
  <2>1. PICK code \in {"Success", "Error"} : code = "Success"
    OBVIOUS
  <2> QED
    BY <1>1, <1>2, <2>1, PollPosted
<1> QED
  BY <1>1, <1>2, <1>3, SameValues, SameFront DEF CountInv, Configured

LEMMA FailReportCount ==
  ASSUME IInv, PipeInv, CountInv, FailReport
  PROVE  CountInv'
<1>1. PICK d \in DOMAIN rings :
        /\ Ready(rings[d]) /\ rings' = [rings EXCEPT ![d].halted = TRUE]
        /\ Post(d, rings[d].deq, "Error") /\ UNCHANGED <<port, dev, control, hid>>
  BY DEF FailReport
<1>2. FailInv'
  <2>1. PICK code \in {"Success", "Error"} : code = "Error"
    OBVIOUS
  <2> QED
    BY <1>1, <2>1, PollPosted
<1> QED
  BY <1>1, <1>2, SameValues, SameFront DEF CountInv, Configured

LEMMA InitialCount ==
  ASSUME Init
  PROVE  CountInv
<1>1. /\ events = <<>> /\ ~Configured /\ dev.buf = "none" /\ hid.in = 0
      /\ dev.drivers = [n \in 1..15 |-> Free]
  BY DEF Init, Configured
<1>2. FailInv
  BY <1>1 DEF FailInv, None, AtMostOne
<1> QED
  BY <1>1, <1>2 DEF CountInv, ValueInv, FrontInv

LEMMA StutterCount ==
  ASSUME CountInv, UNCHANGED vars
  PROVE  CountInv'
<1>1. UNCHANGED <<port, dev, control, rings, hid, events>>
  BY DEF vars
<1>2. Stalls' = Stalls /\ Failures' = Failures /\ Polls' = Polls
  BY DEF Stalls, Failures, Polls, Events, Places
<1>3. FailInv'
  BY <1>1, <1>2, Zenon DEF CountInv, FailInv
<1> QED
  BY <1>1, <1>3, SameValues, SameFront DEF CountInv, Configured

LEMMA StepCount ==
  ASSUME IInv, PipeInv, CountInv, [Next]_vars
  PROVE  CountInv'
<1>1. CASE UNCHANGED vars
  BY <1>1, StutterCount
<1>2. CASE Driver
  BY <1>2, InitializeDeviceCount, PassOverCount, InitializePhase1Count, InitializePhase2Count,
     InitializePhase3Count, OnEndpointsConfiguredCount, ProtocolSetCount, OnInterruptCompletedCount,
     Zenon DEF Driver
<1>3. CASE Hardware
  BY <1>3, CarryOutStageCount, FailStageCount, SendReportCount, FailReportCount, Zenon DEF Hardware
<1> QED
  BY <1>1, <1>2, <1>3, Zenon DEF Next

-----------------------------------------------------------------------------
(* Counting *)

LEMMA FewIndices ==
  ASSUME NEW es, NEW S, AtMostOne(es, S)
  PROVE  LET I == {i \in DOMAIN es : es[i] \in S} IN IsFiniteSet(I) /\ Cardinality(I) \in 0..1
<1> DEFINE I == {i \in DOMAIN es : es[i] \in S}
<1>1. \A i \in I, j \in I : i = j
  BY DEF AtMostOne
<1> HIDE DEF I
<1>2. I = {} => IsFiniteSet(I) /\ Cardinality(I) = 0
  BY FS_EmptySet
<1>3. I # {} => IsFiniteSet(I) /\ Cardinality(I) = 1
  <2> SUFFICES ASSUME I # {} PROVE IsFiniteSet(I) /\ Cardinality(I) = 1
    OBVIOUS
  <2>1. PICK i : I = {i}
    BY <1>1
  <2> QED
    BY <2>1, FS_Singleton
<1>4. IsFiniteSet(I) /\ Cardinality(I) \in 0..1
  BY <1>2, <1>3
<1> QED
  BY <1>4 DEF I

LEMMA UpToN ==
  ASSUME NEW n \in Nat, NEW S, S \subseteq 1..n
  PROVE  IsFiniteSet(S) /\ Cardinality(S) \in 0..n
<1>1. 1 \in Int /\ n \in Int
  OBVIOUS
<1>2. IsFiniteSet(1..n) /\ Cardinality(1..n) = IF 1 > n THEN 0 ELSE n - 1 + 1
  BY <1>1, FS_Interval
<1>3. Cardinality(1..n) = n
  BY <1>2
<1>4. IsFiniteSet(S) /\ Cardinality(S) <= Cardinality(1..n)
  BY <1>2, FS_Subset
<1> QED
  BY <1>3, <1>4, FS_CardinalityType

(* An answer leads to its entry.                                           *)
LEMMA AnswersCounted ==
  ASSUME NEW c, NEW es, Mapped(c, es)
  PROVE  LET A == {i \in DOMAIN es : IsAnswer(es[i])} IN
         IsFiniteSet(A) /\ Cardinality(A) <= Cardinality(Taken(c.setups)) /\ Cardinality(A) \in Nat
<1> DEFINE A == {i \in DOMAIN es : IsAnswer(es[i])}
           T == Taken(c.setups)
           f == [i \in A |-> CHOOSE k \in T : c.setups[k].key = es[i].at]
<1>1. PICK n \in Nat : n = 16
  OBVIOUS
<1>2. c.setups \in [1..n -> Entries]
  BY <1>1 DEF Mapped, Table
<1>3. c.setups \in Seq(Entries) /\ Len(c.setups) = n
  BY <1>2, TableFacts
<1>4. T \subseteq 1..n
  BY <1>2 DEF Taken
<1>5. IsFiniteSet(T)
  BY <1>4, UpToN
<1>6. \A i \in A : \E k \in T : c.setups[k].key = es[i].at
  <2> SUFFICES ASSUME NEW i \in A PROVE \E k \in T : c.setups[k].key = es[i].at
    OBVIOUS
  <2>1. Get(c.setups, es[i].at) # Free
    BY DEF Mapped
  <2>2. PICK k \in 1..n : Is(c.setups[k], es[i].at)
    BY <1>3, <2>1, GetFacts
  <2> QED
    BY <1>2, <2>2 DEF Is, Taken
<1>7. \A i \in A : f[i] \in T /\ c.setups[f[i]].key = es[i].at
  <2> HIDE DEF A, T
  <2> QED
    BY <1>6, Zenon
<1>8. f \in Injection(A, T)
  <2>1. \A i \in A, j \in A : f[i] = f[j] => i = j
    <3> SUFFICES ASSUME NEW i \in A, NEW j \in A, f[i] = f[j] PROVE i = j
      OBVIOUS
    <3>1. es[i].at = es[j].at
      <4> HIDE DEF f
      <4> QED
        BY <1>7
    <3> QED
      BY <3>1 DEF Mapped, Distinct
  <2>2. f \in [A -> T]
    <3> HIDE DEF A, T
    <3> QED
      BY <1>7
  <2> HIDE DEF f, A, T
  <2> QED
    BY <2>1, <2>2 DEF Injection, IsInjective
<1> HIDE DEF f, A, T
<1>9. IsFiniteSet(A) /\ Cardinality(A) <= Cardinality(T)
  BY <1>5, <1>8, FS_Injection
<1> QED
  BY <1>9, FS_CardinalityType DEF A, T

LEMMA UnionAtMost ==
  ASSUME NEW A, IsFiniteSet(A), NEW B, IsFiniteSet(B)
  PROVE  IsFiniteSet(A \cup B) /\ Cardinality(A \cup B) <= Cardinality(A) + Cardinality(B)
<1>1. /\ IsFiniteSet(A \cup B) /\ IsFiniteSet(A \cap B)
      /\ Cardinality(A \cup B) = Cardinality(A) + Cardinality(B) - Cardinality(A \cap B)
  BY FS_Union, FS_Intersection
<1> QED
  BY <1>1, FS_CardinalityType

LEMMA EventsCounted ==
  ASSUME IInv, PipeInv, CountInv
  PROVE  Len(events) <= Cardinality(Taken(control.setups)) + 2
<1> DEFINE A == {i \in DOMAIN events : IsAnswer(events[i])}
           B == {i \in DOMAIN events : events[i] \in Stalls}
           C == {i \in DOMAIN events : events[i] \in Polls}
<1>1. events \in Seq(Events) /\ Len(events) \in Nat /\ DOMAIN events = 1..Len(events)
  BY ShapeFacts
<1>2. DOMAIN events = (A \cup B) \cup C
  <2> SUFFICES ASSUME NEW i \in DOMAIN events PROVE i \in (A \cup B) \cup C
    OBVIOUS
  <2>1. events[i] \in Events
    BY <1>1
  <2> QED
    BY <2>1 DEF IsAnswer, Stalls, Polls
<1>3. /\ IsFiniteSet(A) /\ Cardinality(A) <= Cardinality(Taken(control.setups)) /\ Cardinality(A) \in Nat
  BY AlwaysMapped, AnswersCounted
<1>4. IsFiniteSet(B) /\ Cardinality(B) \in 0..1 /\ IsFiniteSet(C) /\ Cardinality(C) \in 0..1
  BY FewIndices DEF CountInv, FailInv
<1> HIDE DEF A, B, C
<1>5. /\ IsFiniteSet(A \cup B) /\ Cardinality(A \cup B) <= Cardinality(A) + Cardinality(B)
      /\ Cardinality(A \cup B) \in Nat
  BY <1>3, <1>4, UnionAtMost, FS_CardinalityType
<1>6. Cardinality((A \cup B) \cup C) <= Cardinality(A \cup B) + Cardinality(C)
  BY <1>4, <1>5, UnionAtMost
<1>7. Cardinality(1..Len(events)) = Len(events)
  <2>1. 1 \in Int /\ Len(events) \in Int
    BY <1>1
  <2>2. Cardinality(1..Len(events)) = IF 1 > Len(events) THEN 0 ELSE Len(events) - 1 + 1
    BY <2>1, FS_Interval
  <2> QED
    BY <1>1, <2>2
<1>8. Cardinality(Taken(control.setups)) \in Nat
  <2>1. PICK n \in Nat : n = 16
    OBVIOUS
  <2>2. Taken(control.setups) \subseteq 1..n
    BY <2>1, AlwaysMapped DEF Mapped, Table, Taken
  <2>3. Cardinality(Taken(control.setups)) \in 0..n
    BY <2>2, UpToN
  <2> QED
    BY <2>3
<1> QED
  BY <1>1, <1>2, <1>3, <1>4, <1>5, <1>6, <1>7, <1>8

LEMMA EntriesCounted ==
  ASSUME IInv, PipeInv, CountInv
  PROVE  Cardinality(Taken(control.setups)) <= IF dev.phase = 4 THEN Cardinality(Askers) ELSE 1
<1>1. Askers = Driven
  BY ShapeFacts DEF Askers, Driven, Drives, Devices
<1>2. Cardinality(Driven) \in Nat
  <2>1. PICK n \in Nat : n = 15
    OBVIOUS
  <2>2. Driven \subseteq 1..n
    BY <2>1 DEF Driven, Drives
  <2>3. Cardinality(Driven) \in 0..n
    BY <2>2, UpToN
  <2> QED
    BY <2>3
<1>3. CASE dev.phase # 4
  <2>1. PICK n \in Nat : n = 1
    OBVIOUS
  <2>2. Taken(control.setups) \subseteq 1..n
    BY <1>3, <2>1, AlwaysMapped
  <2>3. Cardinality(Taken(control.setups)) \in 0..n
    BY <2>2, UpToN
  <2> QED
    BY <1>3, <2>1, <2>3
<1>4. CASE dev.phase = 4 /\ ~Configured
  <2>1. Taken(control.setups) = {}
    BY <1>4, AlwaysMapped
  <2>2. Cardinality(Taken(control.setups)) = 0
    BY <2>1, FS_EmptySet
  <2> QED
    BY <1>1, <1>2, <1>4, <2>2
<1>5. CASE dev.phase = 4 /\ Configured
  <2>1. Taken(control.setups) \subseteq 1..Cardinality(Driven)
    BY <1>5 DEF CountInv, FrontInv
  <2>2. Cardinality(Taken(control.setups)) \in 0..Cardinality(Driven)
    BY <1>2, <2>1, UpToN
  <2> QED
    BY <1>1, <1>2, <1>5, <2>2
<1> QED
  BY <1>3, <1>4, <1>5

(* The endpoints of an interface that has at most 16 of them.              *)
FewEndpoints == Cardinality(dev.endpoints) <= MaxEndpoints

LEMMA EndpointsFew ==
  ASSUME descriptors \in Configurations, Supported # {}, ~GoesWrong
  PROVE  Cardinality(Endpoints) <= MaxEndpoints
<1>1. Interface \in Supported
  <2>1. Supported \in SUBSET Nat
    BY DEF Supported, Seen
  <2> QED
    BY <2>1, FirstFacts DEF Interface
<1>2. /\ Interface \in 2..Len(descriptors) /\ descriptors[Interface].type = "Interface"
  <2> HIDE DEF Interface
  <2>1. Interface \in 2..Len(descriptors) /\ DriverFor(descriptors[Interface]) # Free
    BY <1>1 DEF Supported, Seen
  <2> QED
    BY <2>1 DEF DriverFor
<1>3. descriptors[Interface].endpoints \in Nat
  BY <1>2, ConfigurationsAssumption
<1>4. IsFiniteSet(Endpoints) /\ Cardinality(Endpoints) <= descriptors[Interface].endpoints
  BY <1>3, EndpointsCounted
<1>5. Cardinality(Endpoints) \in Nat
  BY <1>4, FS_CardinalityType
<1>6. descriptors[Interface].endpoints <= MaxEndpoints
  BY <1>3 DEF GoesWrong, WritesBeyond, MaxEndpoints
<1> QED
  BY <1>3, <1>4, <1>5, <1>6 DEF MaxEndpoints

LEMMA StepFew ==
  ASSUME IInv, FewEndpoints, [Next]_vars
  PROVE  FewEndpoints'
<1>0. dev \in Devices /\ descriptors \in Configurations
  BY DEF IInv, Shapes
<1>1. \/ dev' = dev
      \/ \E phase, initialized : dev' = [dev EXCEPT !.phase = phase, !.initialized = initialized]
      \/ \E buf : dev' = [dev EXCEPT !.buf = buf]
      \/ /\ Supported # {} /\ ~GoesWrong
         /\ \E drivers : dev' = [dev EXCEPT !.phase = 3, !.endpoints = Endpoints, !.drivers = drivers]
  <2>1. CASE \/ PassOver \/ OnEndpointsConfigured \/ ProtocolSet \/ OnInterruptCompleted
             \/ FailStage \/ SendReport \/ FailReport \/ UNCHANGED vars
    <3>1. dev' = dev
      BY <2>1 DEF PassOver, OnEndpointsConfigured, ProtocolSet, OnInterruptCompleted, FailStage, SendReport,
                  FailReport, vars
    <3> QED
      BY <3>1
  <2>2. CASE InitializeDevice
    <3>1. dev' = [dev EXCEPT !.initialized = FALSE, !.phase = 1]
      BY <2>2 DEF InitializeDevice
    <3>2. dev' = [dev EXCEPT !.phase = 1, !.initialized = FALSE]
      BY <1>0, <3>1 DEF Devices
    <3> QED
      BY <3>2, Zenon
  <2>3. CASE InitializePhase1
    <3>1. dev' = [dev EXCEPT !.phase = 2]
      BY <2>3 DEF InitializePhase1
    <3>2. dev' = [dev EXCEPT !.phase = 2, !.initialized = dev.initialized]
      BY <1>0, <3>1 DEF Devices
    <3> QED
      BY <3>2, Zenon
  <2>4. CASE InitializePhase2
    BY <2>4, Zenon DEF InitializePhase2
  <2>5. CASE InitializePhase3
    <3>1. dev' = [dev EXCEPT !.phase = 4, !.initialized = TRUE]
      BY <2>5 DEF InitializePhase3
    <3> QED
      BY <3>1, Zenon
  <2>6. CASE CarryOutStage
    BY <2>6, Zenon DEF CarryOutStage
  <2> QED
    BY <2>1, <2>2, <2>3, <2>4, <2>5, <2>6, Zenon DEF Next, Driver, Hardware
<1>2. CASE \/ dev' = dev
           \/ \E phase, initialized : dev' = [dev EXCEPT !.phase = phase, !.initialized = initialized]
           \/ \E buf : dev' = [dev EXCEPT !.buf = buf]
  <2>1. dev'.endpoints = dev.endpoints
    BY <1>0, <1>2 DEF Devices
  <2> QED
    BY <2>1 DEF FewEndpoints
<1>3. ASSUME Supported # {}, ~GoesWrong, NEW drivers,
             dev' = [dev EXCEPT !.phase = 3, !.endpoints = Endpoints, !.drivers = drivers]
      PROVE  FewEndpoints'
  <2>1. dev'.endpoints = Endpoints
    BY <1>0, <1>3 DEF Devices
  <2> QED
    BY <1>0, <1>3, <2>1, EndpointsFew DEF FewEndpoints, MaxEndpoints
<1> QED
  BY <1>1, <1>2, <1>3

LEMMA InitialFew ==
  ASSUME Init
  PROVE  FewEndpoints
<1>1. dev.endpoints = {}
  BY DEF Init
<1>2. Cardinality(dev.endpoints) = 0
  BY <1>1, FS_EmptySet
<1> QED
  BY <1>2 DEF FewEndpoints, MaxEndpoints

LEMMA TypesFollow ==
  ASSUME IInv, PipeInv, CountInv, FewEndpoints
  PROVE  TypeOK
<1>1. port \in { "AddressingDevice", "InitializingDevice", "ConfiguringEndpoints",
                 "Configured", "Undefined" }
  BY DEF IInv, Phases, Configured
<1>2. dev.phase \in 0..4 /\ dev.initialized = (dev.phase = 4)
  <2>1. dev.phase \in 0..4 /\ dev.initialized \in BOOLEAN
    BY ShapeFacts DEF Devices
  <2>2. dev.initialized <=> dev.phase = 4
    BY DEF PipeInv
  <2> QED
    BY <2>1, <2>2
<1>3. \A r \in {control.ring} \cup {rings[d] : d \in DOMAIN rings} :
        /\ r.write \in 1..RingSize - 1 /\ r.deq \in 1..RingSize - 1
        /\ {r.cycle, r.ccs, r.active, r.halted} \subseteq BOOLEAN
  <2>1. \A r \in {control.ring} \cup {rings[d] : d \in DOMAIN rings} : r \in Rings
    BY ShapeFacts DEF IInv, Shapes
  <2> QED
    BY <2>1 DEF Rings, Places
<1>4. DOMAIN rings \subseteq 2..31 /\ hid.phase \in 0..2
  BY DEF IInv, Shapes, IsDriver
<1>5. \A n \in DOMAIN dev.drivers : dev.drivers[n] \in {Free, hid.kind}
  <2>1. DOMAIN dev.drivers = 1..15
    BY ShapeFacts DEF Devices
  <2> QED
    BY <2>1 DEF CountInv, ValueInv
<1>6. dev.buf \in {"none", "Device", "Configuration"} /\ hid.in \in 0..31
  BY DEF CountInv, ValueInv
<1> QED
  BY <1>1, <1>2, <1>3, <1>4, <1>5, <1>6, EntriesCounted, EventsCounted DEF TypeOK, FewEndpoints, Configured

(* The types, with the bounds of what is dynamic, for rings of every size  *)
(* and every device, up to where its descriptors lead InitializePhase2 out *)
(* of its arrays: ep_configs_ holds its endpoints, a driver asks once for  *)
(* each endpoint number and every request is forgotten when it is          *)
(* answered, so the map of setup stages and the event ring hold no more    *)
(* than that.                                                              *)
THEOREM TypeCorrect == Spec => []TypeOK
<1>1. Init => IInv /\ PipeInv /\ CountInv /\ FewEndpoints
  BY Initial, InitialPipe, InitialCount, InitialFew
<1>2. IInv /\ PipeInv /\ CountInv /\ FewEndpoints /\ [Next]_vars => IInv' /\ PipeInv' /\ CountInv' /\ FewEndpoints'
  BY Step, StepPipe, StepCount, StepFew DEF Good
<1>3. IInv /\ PipeInv /\ CountInv /\ FewEndpoints => TypeOK
  BY TypesFollow
<1> QED
  BY <1>1, <1>2, <1>3, PTL DEF Spec
=============================================================================
