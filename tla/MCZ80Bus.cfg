CONSTANT BogusLengths <- MCBogusLengths
SPECIFICATION FairSpec
INVARIANT TypeOK
INVARIANT NoThrow
INVARIANT BusProtocol
INVARIANT PinsFollow
PROPERTY AddressStable
PROPERTY BusGrant
PROPERTY EffectsOnce
PROPERTY LatchWhenReady
PROPERTY SpecialReset
PROPERTY CyclesComplete
