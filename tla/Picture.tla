------------------------------ MODULE Picture ------------------------------
(***************************************************************************)
(* From a picture to what the face SDK is told of it: the loop of          *)
(* compareFace, addFeature and addFeature_g that copies three bytes of     *)
(* four, and getFaceInputImg, which describes planes of the copy.  A byte  *)
(* of the copy is the index in rawdata that it comes from.                 *)
(***************************************************************************)
EXTENDS Integers, Sequences

CONSTANT MaxSide   \* bound on width and height

ASSUME PictureAssumption == MaxSide \in Nat \ {0}

VARIABLES
  img,       \* the QImage: [depth, width, height]
  i,         \* the loop's counter
  bmpdata,   \* what has been written to the copy; ptr_bmp is its length
  inputImg   \* the planes: [format, planes], planes a sequence of [at, pitch, rows]

pictureVars == <<img, i, bmpdata, inputImg>>

\* QImage: a line is padded to a multiple of four bytes.
bytesPerLine(m) == ((m.width * m.depth + 31) \div 32) * 4
byteCount(m) == bytesPerLine(m) * m.height

\* The size of bmpdata; the mutant takes it for the number of pixels.
bmpSizeInPixels == byteCount(img) \div 4

bmpSize == (byteCount(img) \div 4) * 3

-----------------------------------------------------------------------------
Plane(at, pitch, rows) == [at |-> at, pitch |-> pitch, rows |-> rows]

\* getFaceInputImg: the offset of each plane from data and its pitch, as the code
\* computes them.  That a plane has so many rows is what the format means.  For any
\* other format the pointer to the first plane is all that is set; the -1 returned
\* then is ignored by getFeature.
getFaceInputImg(w, h, format) ==
  CASE format = "I420" ->
         <<Plane(0, w, h), Plane(w * h, w \div 2, h \div 2),
           Plane(w * h + ((w \div 2) * h) \div 2, w \div 2, h \div 2)>>
    [] format \in {"NV12", "NV21"} -> <<Plane(0, w, h), Plane(w * h, w, h \div 2)>>
    [] format = "YUYV" -> <<Plane(0, w * 2, h)>>
    [] format = "I422H" ->
         <<Plane(0, w, h), Plane(w * h, w \div 2, h), Plane(w * h + (w \div 2) * h, w \div 2, h)>>
    [] format = "LPI422H" -> <<Plane(0, w, h), Plane(w * h, w, h)>>
    [] format = "RGB24_B8G8R8" -> <<Plane(0, w * 3, h)>>
    [] OTHER -> <<>>

Formats == {"I420", "NV12", "NV21", "YUYV", "I422H", "LPI422H", "RGB24_B8G8R8", "unsupported"}

\* The bits of a pixel of a QImage, in any of its formats.
Depths == {1, 8, 16, 24, 32, 64}

NotDescribed == [format |-> "none", planes |-> <<>>]

\* loadFromData: compareFace and addFeature take a picture of any kind that Qt
\* reads, addFeature_g only a JPEG (32 bits per pixel, or 8 if it is grey).
PictureInit ==
  /\ img \in [depth : Depths, width : 1 .. MaxSide, height : 1 .. MaxSide]
  /\ i = 0
  /\ bmpdata = <<>>
  /\ inputImg = NotDescribed

\* The body of the loop; the mutant skips a byte too early.
CopyByteSkipsThird ==
  /\ i < bmpSize
  /\ i' = i + 1
  /\ bmpdata' = IF i % 4 = 2 THEN bmpdata ELSE Append(bmpdata, i)
  /\ UNCHANGED <<img, inputImg>>

CopyByte ==
  /\ i < bmpSize
  /\ i' = i + 1
  /\ bmpdata' = IF (i + 1) % 4 = 0 THEN bmpdata ELSE Append(bmpdata, i)
  /\ UNCHANGED <<img, inputImg>>

\* The callers pass the last format; getFeature would take any.
Describe(format) ==
  /\ i = bmpSize
  /\ inputImg = NotDescribed
  /\ inputImg' = [format |-> format, planes |-> getFaceInputImg(img.width, img.height, format)]
  /\ UNCHANGED <<img, i, bmpdata>>

PictureNext == CopyByte \/ \E format \in Formats : Describe(format)

PictureSpec == PictureInit /\ [][PictureNext]_pictureVars

-----------------------------------------------------------------------------
\* The byte of rawdata that belongs at place k of the copy: pixels of four bytes
\* become pixels of three.
Source(k) == 4 * (k \div 3) + (k % 3)

\* However far the loop is, each byte of the copy is the right one and no read or
\* write is out of bounds.  But the loop counts source bytes up to the size of the
\* copy: in the end a quarter of the copy has not been written.
PixelsInPlace ==
  /\ \A k \in 1 .. Len(bmpdata) :
       /\ bmpdata[k] = Source(k - 1)
       /\ bmpdata[k] < byteCount(img)
  /\ i = bmpSize => Len(bmpdata) = bmpSize - bmpSize \div 4

PlaneEnd(p) == p.at + p.pitch * p.rows

\* The planes lie one behind the other, none inside another; the plane of the format
\* that is passed ends within the copy just when the lines of the picture have four
\* bytes or more for each pixel, and with it if the picture has 32 bits per pixel.
\* (Of a grey picture, say, the SDK reads past the copy.)
PlanesFit ==
  LET planes == inputImg.planes
  IN  /\ \A k \in 1 .. Len(planes) - 1 : PlaneEnd(planes[k]) <= planes[k + 1].at
      /\ inputImg.format = "RGB24_B8G8R8" =>
           /\ PlaneEnd(planes[1]) <= bmpSize <=> bytesPerLine(img) >= 4 * img.width
           /\ img.depth = 32 => PlaneEnd(planes[1]) = bmpSize
=============================================================================
