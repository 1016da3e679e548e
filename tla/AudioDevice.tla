----------------------------- MODULE AudioDevice -----------------------------
(***************************************************************************)
(* src/src/AudioDevice.cpp: the application's audio, in buffers of any     *)
(* length, cut into the chunks of 10 ms that the peer connection takes.    *)
(* Samples (of all channels together) are known by their number in what    *)
(* the application has sent; chunkSize is 480 in the code.  One thread     *)
(* sends audio; a step is one turn of the loop of sendAudio.               *)
(***************************************************************************)
EXTENDS Integers

CONSTANTS
    chunkSize,   \* samples in a chunk
    MaxBuffer,   \* bound: samples in one call
    MaxSamples   \* bound: samples in all

ASSUME AudioAssumption ==
    /\ chunkSize \in Nat \ {0}
    /\ MaxBuffer \in Nat /\ MaxSamples \in Nat

VARIABLES
    buffer,         \* the chunk being filled
    bufferIndex,
    data,           \* the last sample copied
    remainingData,  \* samples of the call not copied yet
    chunk,          \* the chunk delivered last
    delivered       \* chunks delivered

audioVars == <<buffer, bufferIndex, data, remainingData, chunk, delivered>>

Chunks == [1..chunkSize -> Nat]
Silence == [i \in 1..chunkSize |-> 0]

AudioInit ==
    /\ buffer = Silence
    /\ bufferIndex = 0
    /\ data = 0
    /\ remainingData = 0
    /\ chunk = Silence
    /\ delivered = 0

SendAudio(samplesPerChannel) ==
    /\ remainingData = 0
    /\ data + samplesPerChannel <= MaxSamples
    /\ remainingData' = samplesPerChannel
    /\ UNCHANGED <<buffer, bufferIndex, data, chunk, delivered>>

toCopy ==
    LET remainingBuffer == chunkSize - bufferIndex
    IN IF remainingData < remainingBuffer THEN remainingData ELSE remainingBuffer

Filled ==
    [i \in 1..chunkSize |->
        IF bufferIndex < i /\ i <= bufferIndex + toCopy THEN data + (i - bufferIndex)
        ELSE buffer[i]]

\* Variant: what the buffer has no room for is dropped.
CopyTruncates ==
    /\ remainingData > 0
    /\ buffer' = Filled
    /\ data' = data + remainingData
    /\ remainingData' = 0
    /\ IF bufferIndex + toCopy = chunkSize
       THEN chunk' = Filled /\ delivered' = delivered + 1 /\ bufferIndex' = 0
       ELSE bufferIndex' = bufferIndex + toCopy /\ UNCHANGED <<chunk, delivered>>

\* Variant: a full buffer is not begun anew.
CopyKeepsIndex ==
    /\ remainingData > 0
    /\ buffer' = Filled
    /\ data' = data + toCopy
    /\ remainingData' = remainingData - toCopy
    /\ bufferIndex' = bufferIndex + toCopy
    /\ IF bufferIndex + toCopy = chunkSize
       THEN chunk' = Filled /\ delivered' = delivered + 1
       ELSE UNCHANGED <<chunk, delivered>>

Copy ==
    /\ remainingData > 0
    /\ buffer' = Filled
    /\ data' = data + toCopy
    /\ remainingData' = remainingData - toCopy
    /\ IF bufferIndex + toCopy = chunkSize
       THEN chunk' = Filled /\ delivered' = delivered + 1 /\ bufferIndex' = 0
       ELSE bufferIndex' = bufferIndex + toCopy /\ UNCHANGED <<chunk, delivered>>

AudioNext == Copy \/ \E samplesPerChannel \in 1..MaxBuffer : SendAudio(samplesPerChannel)
AudioSpec == AudioInit /\ [][AudioNext]_audioVars
-----------------------------------------------------------------------------
(* Types. *)
AudioTypes ==
    /\ buffer \in Chunks /\ chunk \in Chunks
    /\ bufferIndex \in 0..chunkSize - 1
    /\ data \in Nat /\ remainingData \in Nat /\ delivered \in Nat

(* However the application cuts its audio into buffers, the chunks are the audio:
   no sample is lost, repeated or out of its place, those delivered and those in
   the buffer are all that have been copied. *)
SamplesInOrder ==
    /\ data = delivered * chunkSize + bufferIndex
    /\ delivered > 0 =>
          \A i \in 1..chunkSize : chunk[i] = (delivered - 1) * chunkSize + i
    /\ \A i \in 1..bufferIndex : buffer[i] = delivered * chunkSize + i
=============================================================================
