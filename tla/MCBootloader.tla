---------------------------- MODULE MCBootloader ----------------------------
EXTENDS BootloaderProperties

CONSTANTS good, bad
TwoPackets == <<good, good>>
ThreePackets == <<good, good, good>>
AnnouncedImages == {ThreePackets}
TwoOnly == {TwoPackets}
=============================================================================
