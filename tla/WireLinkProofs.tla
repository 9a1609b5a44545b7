--------------------------- MODULE WireLinkProofs ---------------------------
(***************************************************************************)
(* Proofs about the wire format, for any set of types and any checksum.    *)
(***************************************************************************)
EXTENDS WireLink, TLAPS

\* The traits of a type are numbers.
LEMMA TraitsTypes ==
  ASSUME NEW T \in Types
  PROVE  /\ Traits[T].id \in Nat /\ Traits[T].version \in Nat
         /\ Traits[T].size \in Nat /\ Traits[T].align \in Nat \ {0}
         /\ message_size(T) \in Nat
BY TraitsAssumption DEF message_size, HeaderSize

\* validate accepts exactly the buffers whose header describes the type and
\* whose checksum, where there is one and it is asked for, fits the payload.
LEMMA ValidateOk ==
  ASSUME NEW T \in Types, NEW b \in Buffer, NEW n \in Nat, NEW at \in Nat,
         NEW verify \in BOOLEAN
  PROVE  validate(T, b, n, at, verify) = "Ok" <=>
           /\ ~(n < message_size(T)) /\ ~misaligned(T, at)
           /\ b.magic = SINEW_MAGIC /\ b.payload_len = Traits[T].size
           /\ b.msg_id = Traits[T].id /\ b.version = Traits[T].version
           /\ checksum_ok(b, Traits[T].size, verify)
BY DEF validate

\* prepare and finalize stay within the type of buffers.
LEMMA BufferSteps ==
  ASSUME NEW b \in Buffer
  PROVE  /\ \A T \in Types : prepare(T, b) \in Buffer
         /\ \A T \in Types, c \in BOOLEAN : finalize(T, b, c) \in Buffer
         /\ \A v \in Payload : [b EXCEPT !.payload = v] \in Buffer
<1>1. ASSUME NEW T \in Types PROVE prepare(T, b) \in Buffer
  <2>1. SINEW_MAGIC \in Nat
    BY SMT DEF SINEW_MAGIC
  <2>2. /\ Traits[T].id \in Nat /\ Traits[T].version \in Nat
        /\ Traits[T].size \in Nat
    BY TraitsTypes
  <2> QED
    BY <2>1, <2>2, PayloadAssumption DEF prepare, Buffer
<1>2. \A T \in Types : Crc(b.payload, Traits[T].size) \in Nat
  BY PayloadAssumption DEF Buffer
<1>3. ASSUME NEW T \in Types, NEW c \in BOOLEAN PROVE finalize(T, b, c) \in Buffer
  <2>1. CASE c
    BY <1>2, <2>1 DEF finalize, Buffer
  <2>2. CASE ~c
    BY <1>2, <2>2 DEF finalize, Buffer
  <2> QED
    BY <2>1, <2>2
<1>4. \A v \in Payload : [b EXCEPT !.payload = v] \in Buffer
  BY DEF Buffer
<1> QED
  BY <1>1, <1>3, <1>4

-----------------------------------------------------------------------------
\* The header describes the type the buffer was last prepared for, and its
\* checksum the payload the message was last finalized with, whatever the
\* buffer held before.
Stamped ==
  stage # "raw" =>
    /\ buf.magic = SINEW_MAGIC /\ buf.msg_id = Traits[type].id
    /\ buf.version = Traits[type].version /\ buf.payload_len = Traits[type].size
    /\ buf.crc = IF stage = "sealed" /\ checked THEN Crc(sent, Traits[type].size) ELSE 0

\* The payload of a prepared message is what the sender wrote.
Written == stage = "prepared" => buf.payload = sent

\* The inductive invariant: the types, and what header and payload say.
IInv == TypeOK /\ Stamped /\ Written

LEMMA InvInit == Init => IInv
<1> SUFFICES ASSUME Init PROVE IInv
  OBVIOUS
<1>1. buf \in Buffer /\ addr \in Nat /\ capacity \in Nat
  <2>1. buf \in Foreign /\ addr \in Addr /\ capacity \in Extent
    BY DEF Init
  <2> QED
    BY <2>1, LinkAssumption
<1> QED
  BY <1>1, PayloadAssumption DEF Init, IInv, TypeOK, Stamped, Written

LEMMA InvStep == IInv /\ [Next]_vars => IInv'
<1> SUFFICES ASSUME IInv, [Next]_vars PROVE IInv'
  OBVIOUS
<1> USE DEF IInv, TypeOK, Stamped, Written
<1>1. ASSUME NEW T \in Types, prepare_result(T) PROVE IInv'
  <2>1. CASE prepare_error(T, capacity, addr) = "Ok"
    <3>1. /\ buf' = prepare(T, buf) /\ stage' = "prepared" /\ type' = T
          /\ sent' = Fresh /\ UNCHANGED <<addr, capacity, checked>>
      BY <1>1, <2>1 DEF prepare_result
    <3>2. buf' \in Buffer
      BY <3>1, BufferSteps
    <3>3. ~misaligned(T, addr) /\ ~(capacity < message_size(T))
      BY <2>1 DEF prepare_error
    <3>4. capacity' >= message_size(type') /\ ~misaligned(type', addr')
      BY <3>1, <3>3, TraitsTypes
    <3>5. TypeOK'
      BY <3>1, <3>2, <3>4, PayloadAssumption
    <3>6. Stamped' /\ Written'
      BY <3>1 DEF prepare
    <3> QED
      BY <3>5, <3>6
  <2>2. CASE prepare_error(T, capacity, addr) # "Ok"
    BY <1>1, <2>2 DEF prepare_result, vars
  <2> QED
    BY <2>1, <2>2
<1>2. ASSUME NEW v \in Payload, write_payload(v) PROVE IInv'
  <2>1. buf' \in Buffer
    BY <1>2, BufferSteps DEF write_payload
  <2>2. buf' = [buf EXCEPT !.payload = v]
    BY <1>2 DEF write_payload
  <2>3. sent' = v /\ UNCHANGED <<addr, capacity, stage, type, checked>>
    BY <1>2 DEF write_payload
  <2>4. buf'.payload = v
    BY <2>2 DEF Buffer
  <2>5. stage = "prepared"
    BY <1>2 DEF write_payload
  <2>6. /\ buf'.magic = buf.magic /\ buf'.msg_id = buf.msg_id /\ buf'.crc = buf.crc
        /\ buf'.version = buf.version /\ buf'.payload_len = buf.payload_len
    BY <2>2 DEF Buffer
  <2>7. TypeOK'
    BY <2>1, <2>3 DEF misaligned
  <2>8. Stamped' /\ Written'
    BY <2>3, <2>6, <2>4, <2>5
  <2> QED
    BY <2>7, <2>8
<1>3. ASSUME NEW v \in Payload, alter(v) PROVE IInv'
  <2>1. buf' \in Buffer
    BY <1>3, BufferSteps DEF alter
  <2>2. buf' = [buf EXCEPT !.payload = v]
    BY <1>3 DEF alter
  <2>3. UNCHANGED <<addr, capacity, stage, type, sent, checked>>
    BY <1>3 DEF alter
  <2>4. /\ buf'.magic = buf.magic /\ buf'.msg_id = buf.msg_id /\ buf'.crc = buf.crc
        /\ buf'.version = buf.version /\ buf'.payload_len = buf.payload_len
    BY <2>2 DEF Buffer
  <2>5. TypeOK'
    BY <2>1, <2>3 DEF misaligned
  <2>6. Stamped' /\ Written'
    BY <1>3, <2>3, <2>4 DEF alter
  <2> QED
    BY <2>5, <2>6
<1>4. ASSUME NEW c \in BOOLEAN, finalize_message(c) PROVE IInv'
  <2>1. buf' \in Buffer /\ buf' = finalize(type, buf, c)
    BY <1>4, BufferSteps DEF finalize_message
  <2>2. /\ stage' = "sealed" /\ sent' = buf.payload /\ checked' = c
        /\ UNCHANGED <<addr, capacity, type>> /\ stage # "raw" /\ type \in Types
    BY <1>4 DEF finalize_message
  <2>3. /\ buf'.magic = buf.magic /\ buf'.msg_id = buf.msg_id
        /\ buf'.version = buf.version /\ buf'.payload_len = buf.payload_len
        /\ buf'.crc = IF c THEN Crc(buf.payload, Traits[type].size) ELSE 0
    BY <2>1 DEF finalize, Buffer
  <2>4. TypeOK'
    BY <2>1, <2>2 DEF misaligned, Buffer
  <2>5. Stamped' /\ Written'
    BY <2>2, <2>3
  <2> QED
    BY <2>4, <2>5
<1>5. CASE UNCHANGED vars
  BY <1>5 DEF vars, misaligned
<1> QED
  BY <1>1, <1>2, <1>3, <1>4, <1>5 DEF Next

-----------------------------------------------------------------------------
\* Type correctness, and prepare never reaches beyond the buffer: for every
\* buffer address and size.
THEOREM TypeCorrect == Spec => []TypeOK
<1>1. IInv => TypeOK
  BY DEF IInv
<1> QED
  BY <1>1, InvInit, InvStep, PTL DEF Spec

\* A prepared message shows what the sender wrote, and view<T> accepts every
\* message that arrives as it was finalized, whether or not either side uses
\* checksums, and whatever the buffer held before.
THEOREM MessagesRoundTrip == Spec => []RoundTrip
<1>1. IInv => RoundTrip
  <2> SUFFICES ASSUME IInv, stage = "sealed", buf.payload = sent,
                      NEW verify \in BOOLEAN
               PROVE  validate(type, buf, capacity, addr, verify) = "Ok"
    BY DEF RoundTrip, IInv, Written
  <2>1. /\ type \in Types /\ buf \in Buffer /\ capacity \in Nat /\ addr \in Nat
        /\ capacity >= message_size(type) /\ ~misaligned(type, addr)
    BY DEF IInv, TypeOK
  <2>2. ~(capacity < message_size(type))
    BY <2>1, TraitsTypes
  <2>3. checksum_ok(buf, Traits[type].size, verify)
    BY DEF IInv, Stamped, checksum_ok
  <2> QED
    BY <2>1, <2>2, <2>3, ValidateOk DEF IInv, Stamped
<1> QED
  BY <1>1, InvInit, InvStep, PTL DEF Spec

\* If no two types share id, version and size, view<U> accepts no message of
\* another type than U.
THEOREM TypesAreNotConfused ==
  ASSUME \A U, V \in Types :
           /\ Traits[U].id = Traits[V].id
           /\ Traits[U].version = Traits[V].version
           /\ Traits[U].size = Traits[V].size
           => U = V
  PROVE  Spec => []NoTypeConfusion
<1>1. IInv => NoTypeConfusion
  <2> SUFFICES ASSUME IInv, stage # "raw", NEW U \in Types, NEW verify \in BOOLEAN,
                      validate(U, buf, capacity, addr, verify) = "Ok"
               PROVE  U = type
    BY DEF NoTypeConfusion
  <2>1. /\ type \in Types /\ buf \in Buffer /\ capacity \in Nat /\ addr \in Nat
    BY DEF IInv, TypeOK
  <2>2. /\ buf.payload_len = Traits[U].size /\ buf.msg_id = Traits[U].id
        /\ buf.version = Traits[U].version
    BY <2>1, ValidateOk
  <2> QED
    BY <2>1, <2>2 DEF IInv, Stamped
<1> QED
  BY <1>1, InvInit, InvStep, PTL DEF Spec

\* What validate<T> says of an altered payload, for every checksum function: a
\* receiver that verifies notices it exactly if the message was finalized with
\* a checksum that is not 0, which reads as "not computed", and the altered
\* payload has another one.
THEOREM AlterationsAreDetected == Spec => []AlterationDetected
<1>1. IInv => AlterationDetected
  <2> SUFFICES ASSUME IInv, stage = "sealed", NEW verify \in BOOLEAN
               PROVE  validate(type, buf, capacity, addr, verify) =
                        IF /\ verify /\ checked /\ Crc(sent, Traits[type].size) # 0
                           /\ Crc(buf.payload, Traits[type].size)
                                # Crc(sent, Traits[type].size)
                        THEN "ChecksumMismatch" ELSE "Ok"
    BY DEF AlterationDetected
  <2>1. /\ type \in Types /\ buf \in Buffer /\ capacity \in Nat
        /\ capacity >= message_size(type) /\ ~misaligned(type, addr)
    BY DEF IInv, TypeOK
  <2>2. buf.crc = IF checked THEN Crc(sent, Traits[type].size) ELSE 0
    BY DEF IInv, Stamped
  <2>3. checksum_ok(buf, Traits[type].size, verify) <=>
          ~(/\ verify /\ checked /\ Crc(sent, Traits[type].size) # 0
            /\ Crc(buf.payload, Traits[type].size) # Crc(sent, Traits[type].size))
    BY <2>2 DEF checksum_ok
  <2>4. ~(capacity < message_size(type))
    BY <2>1, TraitsTypes
  <2>5. validate(type, buf, capacity, addr, verify) =
          IF checksum_ok(buf, Traits[type].size, verify) THEN "Ok" ELSE "ChecksumMismatch"
    BY <2>1, <2>4 DEF validate, IInv, Stamped
  <2> QED
    BY <2>3, <2>5
<1> QED
  BY <1>1, InvInit, InvStep, PTL DEF Spec

=============================================================================
