SPECIFICATION SoundSpec
CONSTANT half_duplex = TRUE
INVARIANT OwnSoundDiscarded
CHECK_DEADLOCK FALSE
