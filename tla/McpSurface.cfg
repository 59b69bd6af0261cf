\* Deadlock is off: the frames are finite in number, and over HTTP the process
\* then idles.
SPECIFICATION FairSpec
CONSTANTS
    MaxFrames = 2
INVARIANTS
    AdvertisedIsServed
    FramesAreSettled
PROPERTIES
    ServesToTheEnd
CHECK_DEADLOCK FALSE
