-------------------------- MODULE AudioDevice_proofs --------------------------
(***************************************************************************)
(* That AudioDevice delivers the application's samples in order, for every *)
(* length of chunk and of buffer: AudioTypes and SamplesInOrder together   *)
(* are inductive.                                                          *)
(***************************************************************************)
EXTENDS AudioDevice, TLAPS

IInv == AudioTypes /\ SamplesInOrder

(* What one turn of the loop copies: something, no more than there is, and no more
   than the buffer has room for. *)
LEMMA ToCopyBounds ==
    ASSUME AudioTypes, remainingData > 0
    PROVE  toCopy \in 1..remainingData /\ bufferIndex + toCopy \in 1..chunkSize
BY AudioAssumption DEF AudioTypes, toCopy

(* A chunk more is chunkSize samples more. *)
LEMMA OneMore ==
    ASSUME NEW n \in Nat
    PROVE  (n + 1) * chunkSize = n * chunkSize + chunkSize
BY AudioAssumption

(* The initial states, and a call of sendAudio, leave nothing out of order. *)
LEMMA AudioStarts == AudioInit => IInv
BY AudioAssumption DEF AudioInit, IInv, AudioTypes, SamplesInOrder, Chunks, Silence

(* The buffer, filled up to n, holds the samples that follow those delivered. *)
LEMMA FilledInOrder ==
    ASSUME IInv, remainingData > 0
    PROVE  /\ Filled \in Chunks
           /\ \A i \in 1..bufferIndex + toCopy : Filled[i] = delivered * chunkSize + i
<1> DEFINE total == bufferIndex + toCopy
<1>1. AudioTypes /\ SamplesInOrder
  BY DEF IInv
<1>2. toCopy \in 1..remainingData /\ total \in 1..chunkSize
  BY <1>1, ToCopyBounds
<1>3. /\ chunkSize \in Nat \ {0} /\ bufferIndex \in Nat /\ data \in Nat /\ remainingData \in Nat
      /\ buffer \in Chunks
  BY <1>1, AudioAssumption DEF AudioTypes
<1>4. toCopy \in Nat /\ total \in Nat
  BY <1>2, <1>3
<1>5. Filled \in Chunks
  BY <1>3, <1>4 DEF Filled, Chunks
<1>6. ASSUME NEW i \in 1..total PROVE Filled[i] = delivered * chunkSize + i
  <2>1. i \in 1..chunkSize /\ i \in Nat
    BY <1>2, <1>3, <1>4
  <2>2. CASE bufferIndex < i
    <3>1. Filled[i] = data + (i - bufferIndex)
      BY <2>1, <2>2, <1>3, <1>4 DEF Filled
    <3>2. data = delivered * chunkSize + bufferIndex
      BY <1>1 DEF SamplesInOrder
    <3> DEFINE base == delivered * chunkSize
    <3>3. base \in Nat
      BY <1>1, <1>3 DEF AudioTypes
    <3>4. data = base + bufferIndex
      BY <3>2
    <3> HIDE DEF base
    <3>5. Filled[i] = base + i
      BY <3>1, <3>3, <3>4, <1>3, <2>1
    <3> QED
      BY <3>5 DEF base
  <2>3. CASE ~(bufferIndex < i)
    <3>1. Filled[i] = buffer[i]
      BY <2>1, <2>3 DEF Filled
    <3>2. i \in 1..bufferIndex
      BY <2>1, <2>3, <1>3
    <3> QED
      BY <3>1, <3>2, <1>1 DEF SamplesInOrder
  <2> QED
    BY <2>2, <2>3
<1> QED
  BY <1>5, <1>6

(* A turn of the loop keeps the order, whether or not it fills the buffer. *)
LEMMA CopyKeepsOrder == IInv /\ Copy => IInv'
<1> SUFFICES ASSUME IInv, Copy PROVE IInv'
  OBVIOUS
<1> DEFINE total == bufferIndex + toCopy
           base == delivered * chunkSize
<1>1. AudioTypes /\ SamplesInOrder /\ remainingData > 0
  BY DEF IInv, Copy
<1>2. toCopy \in 1..remainingData /\ total \in 1..chunkSize
  BY <1>1, ToCopyBounds
<1>3. /\ chunkSize \in Nat \ {0} /\ bufferIndex \in Nat /\ data \in Nat /\ remainingData \in Nat
      /\ delivered \in Nat /\ chunk \in Chunks /\ toCopy \in Nat /\ total \in Nat
  BY <1>1, <1>2, AudioAssumption DEF AudioTypes
<1>4. /\ Filled \in Chunks
      /\ \A i \in 1..total : Filled[i] = base + i
  BY <1>1, FilledInOrder DEF IInv
<1>5. base \in Nat /\ data = base + bufferIndex
  BY <1>1, <1>3 DEF SamplesInOrder
<1>6. /\ buffer' = Filled
      /\ data' = data + toCopy
      /\ remainingData' = remainingData - toCopy
  BY DEF Copy
<1>7. data' = base + total /\ data' \in Nat /\ remainingData' \in Nat
  <2> HIDE DEF base
  <2> QED
    BY <1>2, <1>3, <1>5, <1>6
<1>8. CASE total = chunkSize
  <2>1. chunk' = Filled /\ delivered' = delivered + 1 /\ bufferIndex' = 0
    BY <1>8 DEF Copy
  <2>2. delivered' * chunkSize = base + chunkSize /\ delivered' \in Nat
    BY <2>1, <1>3, OneMore
  <2>3. delivered' - 1 = delivered
    BY <2>1, <1>3
  <2>4. AudioTypes'
    BY <2>1, <2>2, <1>3, <1>4, <1>6, <1>7 DEF AudioTypes
  <2>5. data' = delivered' * chunkSize + bufferIndex'
    <3> HIDE DEF base
    <3> QED
      BY <2>1, <2>2, <1>7, <1>8, <1>5, <1>3
  <2>6. \A i \in 1..chunkSize : chunk'[i] = (delivered' - 1) * chunkSize + i
    BY <2>1, <2>3, <1>4, <1>8
  <2>7. \A i \in 1..bufferIndex' : buffer'[i] = delivered' * chunkSize + i
    BY <2>1
  <2> QED
    BY <2>4, <2>5, <2>6, <2>7 DEF IInv, SamplesInOrder
<1>9. CASE total # chunkSize
  <2>1. bufferIndex' = total /\ chunk' = chunk /\ delivered' = delivered
    BY <1>9 DEF Copy
  <2>2. total \in 0..chunkSize - 1
    BY <1>2, <1>3, <1>9
  <2>3. AudioTypes'
    BY <2>1, <2>2, <1>3, <1>4, <1>6, <1>7 DEF AudioTypes
  <2>4. data' = delivered' * chunkSize + bufferIndex'
    BY <2>1, <1>7
  <2>5. delivered' > 0 => \A i \in 1..chunkSize : chunk'[i] = (delivered' - 1) * chunkSize + i
    BY <2>1, <1>1 DEF SamplesInOrder
  <2>6. \A i \in 1..bufferIndex' : buffer'[i] = delivered' * chunkSize + i
    BY <2>1, <1>4, <1>6
  <2> QED
    BY <2>3, <2>4, <2>5, <2>6 DEF IInv, SamplesInOrder
<1> QED
  BY <1>8, <1>9

(* Every step of AudioDevice keeps the order. *)
LEMMA AudioStep == IInv /\ [AudioNext]_audioVars => IInv'
<1> SUFFICES ASSUME IInv, [AudioNext]_audioVars PROVE IInv'
  OBVIOUS
<1>1. CASE Copy
  BY <1>1, CopyKeepsOrder
<1>2. CASE \E n \in 1..MaxBuffer : SendAudio(n)
  <2>1. PICK n \in 1..MaxBuffer : SendAudio(n)
    BY <1>2
  <2>2. remainingData' \in Nat
    BY <2>1, AudioAssumption DEF SendAudio
  <2> QED
    BY <2>1, <2>2 DEF SendAudio, IInv, AudioTypes, SamplesInOrder
<1>3. CASE UNCHANGED audioVars
  BY <1>3 DEF audioVars, IInv, AudioTypes, SamplesInOrder
<1> QED
  BY <1>1, <1>2, <1>3 DEF AudioNext

(* The chunks delivered and the buffer are the application's samples, none lost,
   repeated or misplaced, for any length of chunk and however the application
   divides its audio into calls. *)
THEOREM SamplesKeepOrder == AudioSpec => []SamplesInOrder
<1>1. AudioSpec => []IInv
  BY AudioStarts, AudioStep, PTL DEF AudioSpec
<1>2. IInv => SamplesInOrder
  BY DEF IInv
<1> QED
  BY <1>1, <1>2, PTL
=============================================================================
