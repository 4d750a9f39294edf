SPECIFICATION Spec
CONSTANTS
  preview = preview
  video = video
  jpeg = jpeg
  h1 = h1
  h2 = h2
  Streams <- PreviewAndJpeg
  Jpeg <- JpegStreams
  Encoder <- NoStreams
  Size <- Sizes
  Handles <- OneHandle
  Templates = {1}
  MaxConfigs = 2
  MaxFrames = 1
  NoCallback = NoCallback
CHECK_DEADLOCK FALSE
INVARIANT ConfigureNeverWaits
