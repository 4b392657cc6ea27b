------------------------------- MODULE MCKinect -------------------------------
EXTENDS Kinect
CONSTANTS detection, refresh, take

\* Two readers of depth images and one of video images.
MCSource == [c \in Consumer |-> IF c = take THEN "video" ELSE "depth"]
=============================================================================
